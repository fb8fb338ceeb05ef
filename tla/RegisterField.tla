---------------------------- MODULE RegisterField ----------------------------
(***************************************************************************)
(* How the backend timer places a counter into the bits of a register that *)
(* are bound to it: get_mask_start_bit, a scan over the mask, and          *)
(* set_bits_val, which shifts by what the scan found                       *)
(* (backend/compare_match_timer.rs).                                       *)
(*                                                                         *)
(* A word is the set of the numbers of its set bits.                       *)
(***************************************************************************)
EXTENDS Integers, FiniteSets

CONSTANT Width   \* bits of a register: 32

ASSUME WidthAssumption == Width \in Nat /\ Width > 2

BitNo == 0 .. Width - 1
Word == SUBSET BitNo

VARIABLES
  mask, set_val,  \* the arguments of set_bits_val
  val,            \* the register, then the result
  i, start, end,  \* locals of get_mask_start_bit
  pc              \* "scan", "shift", "done" or "panic"

args == <<mask, set_val>>
vars == <<mask, set_val, val, i, start, end, pc>>

TypeOK ==
  /\ mask \in Word /\ set_val \in Word /\ val \in Word
  /\ i \in 0 .. Width
  /\ start \in -1 .. Width - 1
  /\ end \in -1 .. Width - 1
  /\ pc \in {"scan", "shift", "done", "panic"}

Init ==
  /\ mask \in Word /\ set_val \in Word /\ val \in Word
  /\ i = 0 /\ start = -1 /\ end = -1
  /\ pc = "scan"

\* Mutant of StartNow: the last bit seen is taken for the start.
StartNowLatest == IF i \in mask THEN i ELSE start

StartNow == IF start = -1 /\ i \in mask THEN i ELSE start

\* The end the scan records at a clear bit; at the last bit it is that bit.
EndHere == IF i = Width - 1 THEN Width - 1 ELSE i - 1

\* One iteration of the scan, with a bound on the bit number.  A clear bit
\* after the start ends it.
ScanTo(last) ==
  /\ pc = "scan" /\ i <= last
  /\ start' = StartNow
  /\ IF StartNow # -1 /\ i \notin mask
     THEN end' = EndHere /\ pc' = "shift" /\ UNCHANGED i
     ELSE i' = i + 1 /\ UNCHANGED <<end, pc>>
  /\ UNCHANGED <<args, val>>

\* Mutant of Scan: one bit too many.
ScanPast == ScanTo(Width)

Scan == ScanTo(Width - 1)

\* No clear bit ended the scan.
ScanOver ==
  /\ pc = "scan" /\ i = Width
  /\ pc' = "shift"
  /\ UNCHANGED <<args, val, i, start, end>>

\* get_mask_start_bit returns Some.
Found == start >= 0 /\ end > 0

ShiftedLeft(word, n) == {b \in BitNo : b - n \in word}

\* Mutant of Placed: bits of the value are not confined to the mask.
PlacedAnywhere == (val \ mask) \cup ShiftedLeft(set_val, start)

\* The bits of the mask are cleared, then take the value.
Placed == (val \ mask) \cup (ShiftedLeft(set_val, start) \cap mask)

SetBits ==
  /\ pc = "shift"
  /\ IF Found THEN val' = Placed /\ pc' = "done"
     ELSE pc' = "panic" /\ UNCHANGED val
  /\ UNCHANGED <<args, i, start, end>>

Done == pc \in {"done", "panic"} /\ UNCHANGED vars

Next == Scan \/ ScanOver \/ SetBits \/ Done

Spec == Init /\ [][Next]_vars
-----------------------------------------------------------------------------
Lowest(b) == b \in mask /\ \A c \in mask : b <= c

(* A field is read back from where it was put: bit k of the value is the   *)
(* k-th bit above the lowest bit of the mask, the bits outside the mask    *)
(* are what they were, for every mask, also one with holes.                *)
Field ==
  pc = "done" =>
    /\ Lowest(start)
    /\ \A b \in mask : b \in val <=> b - start \in set_val

(* The bits of the register that do not belong to the field keep the value *)
(* the memory had.                                                         *)
OthersKept == [][ \A b \in BitNo \ mask : b \in val' <=> b \in val ]_vars
=============================================================================
