------------------------- MODULE RegisterFieldProofs -------------------------
(***************************************************************************)
(* Theorems about RegisterField, for every width of a register of at least *)
(* three bits, every mask and every value.                                 *)
(***************************************************************************)
EXTENDS RegisterField, TLAPS

\* Bit b is the last one of the run of set bits that begins at the lowest.
RunEnds(b) ==
  \E a \in mask :
    /\ Lowest(a) /\ a .. b \subseteq mask
    /\ a <= b /\ b + 1 \notin mask

\* What the scan knows of the bits it has passed: none is in the mask, or the
\* ones from the start on are.
Scanned ==
  /\ start = -1 => \A b \in BitNo : b < i => b \notin mask
  /\ start # -1 => /\ Lowest(start) /\ start < i
                   /\ \A b \in BitNo : start <= b /\ b < i => b \in mask

\* The scan came to its end, or stopped at the first clear bit of a run.
Stopped ==
  \/ i = Width /\ end = -1
  \/ /\ i \in BitNo /\ i \notin mask /\ start # -1
     /\ end = IF i = Width - 1 THEN Width - 1 ELSE i - 1

ScanInv ==
  /\ pc = "scan" => Scanned /\ end = -1
  /\ pc \in {"shift", "done", "panic"} => Scanned /\ Stopped
  /\ pc = "done" => Found
  /\ pc = "panic" => ~Found
  /\ Field

(* The locals of the scan stay within the register.                        *)
THEOREM TypeCorrect == Spec => []TypeOK
<1>1. Init => TypeOK
  BY WidthAssumption DEF Init, TypeOK
<1>2. TypeOK /\ [Next]_vars => TypeOK'
  <2> SUFFICES ASSUME TypeOK, [Next]_vars PROVE TypeOK'
    OBVIOUS
  <2>1. CASE Scan
    <3>1. i \in BitNo /\ start' = StartNow /\ UNCHANGED <<args, val>>
      BY <2>1, WidthAssumption DEF TypeOK, Scan, ScanTo, BitNo
    <3>2. start' \in -1 .. Width - 1
      BY <3>1 DEF TypeOK, StartNow, BitNo
    <3>3. CASE end' = EndHere /\ pc' = "shift" /\ UNCHANGED i
      BY <3>1, <3>2, <3>3, WidthAssumption DEF TypeOK, EndHere, args, BitNo
    <3>4. CASE i' = i + 1 /\ UNCHANGED <<end, pc>>
      BY <3>1, <3>2, <3>4, WidthAssumption DEF TypeOK, args, BitNo
    <3> QED
      BY <2>1, <3>3, <3>4 DEF Scan, ScanTo
  <2>2. CASE ScanOver
    BY <2>2 DEF ScanOver, TypeOK, args
  <2>3. CASE SetBits
    <3>1. Placed \in Word
      BY DEF Placed, ShiftedLeft, Word, TypeOK
    <3> QED
      BY <2>3, <3>1 DEF SetBits, TypeOK, args
  <2>4. CASE UNCHANGED vars
    BY <2>4 DEF vars, args, TypeOK
  <2> QED
    BY <2>1, <2>2, <2>3, <2>4 DEF Next, Done
<1> QED
  BY <1>1, <1>2, PTL DEF Spec

LEMMA ScanKeeps ==
  ASSUME TypeOK, ScanInv, Scan
  PROVE  ScanInv'
<1>1. /\ pc = "scan" /\ i \in BitNo /\ i < Width
      /\ start' = StartNow /\ UNCHANGED <<mask, set_val, val>>
      /\ Scanned /\ end = -1
  BY WidthAssumption DEF Scan, ScanTo, args, ScanInv, TypeOK, BitNo
<1>2. CASE start = -1 /\ i \in mask
  <2>1. start' = i /\ i' = i + 1 /\ UNCHANGED <<end, pc>>
    BY <1>1, <1>2, WidthAssumption DEF Scan, ScanTo, StartNow, BitNo
  <2>2. \A c \in mask : i <= c
    BY <1>1, <1>2 DEF Scanned, TypeOK, Word, BitNo
  <2>3. Scanned'
    BY <1>1, <1>2, <2>1, <2>2, WidthAssumption DEF Scanned, Lowest, BitNo
  <2> QED
    BY <1>1, <2>1, <2>3 DEF ScanInv, Field
<1>3. CASE start # -1 /\ i \notin mask
  <2>1. start' = start /\ end' = EndHere /\ pc' = "shift" /\ i' = i
    BY <1>1, <1>3 DEF Scan, ScanTo, StartNow
  <2>2. Scanned' /\ Stopped'
    BY <1>1, <1>3, <2>1 DEF Scanned, Lowest, Stopped, EndHere
  <2> QED
    BY <2>1, <2>2 DEF ScanInv, Field
<1>4. CASE start = -1 /\ i \notin mask
  <2>1. start' = -1 /\ i' = i + 1 /\ UNCHANGED <<end, pc>>
    BY <1>1, <1>4 DEF Scan, ScanTo, StartNow
  <2>2. Scanned'
    BY <1>1, <1>4, <2>1 DEF Scanned, BitNo
  <2> QED
    BY <1>1, <2>1, <2>2 DEF ScanInv, Field
<1>5. CASE start # -1 /\ i \in mask
  <2>1. start' = start /\ i' = i + 1 /\ UNCHANGED <<end, pc>>
    BY <1>1, <1>5 DEF Scan, ScanTo, StartNow
  <2>2. start < i + 1
    BY <1>1, <1>5 DEF Scanned, TypeOK, BitNo
  <2>3. Scanned'
    BY <1>1, <1>5, <2>1, <2>2 DEF Scanned, Lowest, TypeOK, BitNo
  <2> QED
    BY <1>1, <2>1, <2>3 DEF ScanInv, Field
<1> QED
  BY <1>2, <1>3, <1>4, <1>5

LEMMA SetBitsKeeps ==
  ASSUME TypeOK, ScanInv, SetBits
  PROVE  ScanInv'
<1>1. /\ pc = "shift" /\ UNCHANGED <<mask, set_val, i, start, end>>
      /\ Scanned /\ Stopped
  BY DEF SetBits, args, ScanInv
<1>2. Scanned' /\ Stopped' /\ (Found' <=> Found)
  BY <1>1 DEF Scanned, Lowest, Stopped, Found
<1>3. CASE Found /\ val' = Placed /\ pc' = "done"
  <2>1. Lowest(start)
    BY <1>1, <1>3 DEF Found, Scanned
  <2>2. \A b \in mask : b \in Placed <=> b - start \in set_val
    BY DEF Placed, ShiftedLeft, TypeOK, Word
  <2> QED
    BY <1>1, <1>2, <1>3, <2>1, <2>2 DEF ScanInv, Field, Lowest
<1>4. CASE ~Found /\ pc' = "panic"
  BY <1>2, <1>4 DEF ScanInv, Field
<1> QED
  BY <1>3, <1>4 DEF SetBits

LEMMA NextKeeps == TypeOK /\ ScanInv /\ [Next]_vars => ScanInv'
<1> SUFFICES ASSUME TypeOK, ScanInv, [Next]_vars PROVE ScanInv'
  OBVIOUS
<1>1. CASE Scan
  BY <1>1, ScanKeeps
<1>2. CASE ScanOver
  <2>1. /\ pc = "scan" /\ i = Width /\ pc' = "shift"
        /\ UNCHANGED <<mask, set_val, val, i, start, end>>
    BY <1>2 DEF ScanOver, args
  <2>2. Scanned' /\ Stopped'
    BY <2>1 DEF ScanInv, Scanned, Lowest, Stopped
  <2> QED
    BY <2>1, <2>2 DEF ScanInv, Field
<1>3. CASE SetBits
  BY <1>3, SetBitsKeeps
<1>4. CASE UNCHANGED vars
  BY <1>4 DEF vars, args, ScanInv, Scanned, Lowest, Stopped, Found, Field
<1> QED
  BY <1>1, <1>2, <1>3, <1>4 DEF Next, Done

LEMMA ScanInvHolds == Spec => []ScanInv
<1>1. Init => ScanInv
  BY WidthAssumption DEF Init, ScanInv, Scanned, Field, BitNo
<1> QED
  BY <1>1, NextKeeps, TypeCorrect, PTL DEF Spec

(* Whatever the mask, an accepted one is filled with the value's bits,     *)
(* counted from the lowest bit of the mask.                                *)
THEOREM FieldIsPlaced == Spec => []Field
<1>1. ScanInv => Field
  BY DEF ScanInv
<1> QED
  BY <1>1, ScanInvHolds, PTL

(* No step ever touches a bit of the register outside the mask.            *)
THEOREM OthersNeverChange == Spec => OthersKept
<1>1. TypeOK /\ [Next]_vars => [\A b \in BitNo \ mask : b \in val' <=> b \in val]_vars
  BY DEF Next, Scan, ScanTo, ScanOver, SetBits, Done, vars, args, Placed
<1> QED
  BY <1>1, TypeCorrect, PTL DEF Spec, OthersKept
-----------------------------------------------------------------------------
\* The start the scan has found, and where its run ends.
LEMMA OneLowest ==
  ASSUME TypeOK, NEW a \in mask, NEW b \in mask, Lowest(a), Lowest(b)
  PROVE  a = b
BY DEF Lowest, TypeOK, Word, BitNo

LEMMA RefusedWhenPanic ==
  ASSUME TypeOK, Scanned, Stopped, ~Found
  PROVE  mask = {} \/ RunEnds(0) \/ RunEnds(Width - 1)
<1>1. CASE start = -1
  <2>1. i = Width
    BY <1>1 DEF Stopped
  <2> QED
    BY <1>1, <2>1 DEF Scanned, TypeOK, Word, BitNo
<1>2. CASE start # -1 /\ i = Width
  <2>1. Lowest(start) /\ start \in BitNo
    BY <1>2 DEF Scanned, Lowest, TypeOK, Word
  <2>2. start .. Width - 1 \subseteq mask
    BY <1>2, <2>1, WidthAssumption DEF Scanned, BitNo
  <2>3. Width - 1 + 1 \notin mask /\ start <= Width - 1
    BY <2>1, WidthAssumption DEF TypeOK, Word, BitNo
  <2>4. start \in mask
    BY <2>1 DEF Lowest
  <2> QED
    BY <2>1, <2>2, <2>3, <2>4 DEF RunEnds
<1>3. CASE start # -1 /\ i # Width
  <2>1. /\ Lowest(start) /\ start \in BitNo /\ start < i
        /\ i \in BitNo /\ i \notin mask
        /\ end = IF i = Width - 1 THEN Width - 1 ELSE i - 1
    BY <1>3 DEF Stopped, Scanned, Lowest, TypeOK, Word
  <2>2. i = 1 /\ start = 0
    BY <2>1, WidthAssumption DEF Found, BitNo
  <2>3. 0 \in mask /\ 0 .. 0 \subseteq mask /\ 0 + 1 \notin mask
    BY <2>1, <2>2 DEF Lowest
  <2> QED
    BY <2>1, <2>2, <2>3 DEF RunEnds
<1> QED
  BY <1>1, <1>2, <1>3

LEMMA AcceptedWhenDone ==
  ASSUME TypeOK, Scanned, Stopped, Found
  PROVE  ~(mask = {} \/ RunEnds(0) \/ RunEnds(Width - 1))
<1>1. /\ start # -1 /\ Lowest(start) /\ start \in mask /\ start \in BitNo
      /\ start < i /\ i \in BitNo /\ i \notin mask
      /\ end = IF i = Width - 1 THEN Width - 1 ELSE i - 1
  BY DEF Found, Stopped, Scanned, Lowest, TypeOK, Word
<1>2. i > 1
  BY <1>1, WidthAssumption DEF Found, BitNo
<1>3. ~RunEnds(0)
  <2> SUFFICES ASSUME NEW a \in mask, Lowest(a), a <= 0, 0 + 1 \notin mask
               PROVE  FALSE
    BY DEF RunEnds
  <2>1. a = start
    BY <1>1, OneLowest
  <2>2. start = 0 /\ 1 \in BitNo
    BY <1>1, <2>1, WidthAssumption DEF BitNo
  <2> QED
    BY <1>1, <1>2, <2>2 DEF Scanned
<1>4. ~RunEnds(Width - 1)
  <2> SUFFICES ASSUME NEW a \in mask, Lowest(a), a .. (Width - 1) \subseteq mask
               PROVE  FALSE
    BY DEF RunEnds
  <2>1. a = start
    BY <1>1, OneLowest
  <2>2. i \in a .. (Width - 1)
    BY <1>1, <2>1, WidthAssumption DEF BitNo
  <2> QED
    BY <1>1, <2>2
<1> QED
  BY <1>1, <1>3, <1>4

RefusedMasks ==
  /\ pc = "panic" =>
       mask = {} \/ RunEnds(0) \/ RunEnds(Width - 1)
  /\ pc = "done" =>
       ~(mask = {} \/ RunEnds(0) \/ RunEnds(Width - 1))

(* "Return the index of start and end bit of the mask"                     *)
(* (backend/compare_match_timer.rs:244): the masks for which the scan      *)
(* returns none and set_bits_val panics are not only the empty one but     *)
(* exactly those, too, whose lowest run of set bits is bit 0 alone or      *)
(* reaches the last bit, so also the mask of the whole register.           *)
THEOREM RefusedExactly == Spec => []RefusedMasks
<1>1. TypeOK /\ ScanInv => RefusedMasks
  BY RefusedWhenPanic, AcceptedWhenDone DEF ScanInv, RefusedMasks
<1> QED
  BY <1>1, ScanInvHolds, TypeCorrect, PTL
=============================================================================
