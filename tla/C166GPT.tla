------------------------------- MODULE C166GPT -------------------------------
(***************************************************************************)
(* The C166 general purpose timer (c166/general_purpose_timer.rs): timer 6 *)
(* on one backend timer, its two registers in guest memory and the hooks   *)
(* around them.  The firmware is the environment.                          *)
(*                                                                         *)
(* The hooks answer to the address of a register only.  A byte access to   *)
(* the upper half of a register has another address: it reaches the memory *)
(* and not the timer.                                                      *)
(***************************************************************************)
EXTENDS CompareMatchTimer

CONSTANTS
  ByteModulus,  \* values of a byte: 2^8
  WordStores,   \* the words the firmware stores into T6
  ByteStores    \* the bytes it stores into the lower or the upper half of T6

HalfModulus == ByteModulus * ByteModulus
WordModulus == HalfModulus * HalfModulus
Byte == 0 .. ByteModulus - 1
Half == 0 .. HalfModulus - 1

ASSUME C166Assumption ==
  /\ ByteModulus \in Nat \ {0, 1}
  /\ HalfModulus <= TickModulus
  /\ WordStores \subseteq Half
  /\ ByteStores \subseteq Byte

VARIABLES
  backend_cmt6,  \* the timer
  interrupt,     \* the enabled mark of its interrupt
  t6con,         \* T6CON in memory: the run bit 0x40 and the toggle bit 0x400
  t6,            \* T6 in memory
  panicked       \* a hook panicked, and the emulator with it

vars == <<backend_cmt6, interrupt, t6con, t6, panicked>>

ControlBits == [run : BOOLEAN, toggle : BOOLEAN]

TypeOK ==
  /\ backend_cmt6 \in Timer
  /\ interrupt \in BOOLEAN
  /\ t6con \in ControlBits
  /\ t6 \in Half
  /\ panicked \in BOOLEAN

\* T6 counts to 0xffff.
NewTimer6 == [DefaultTimer EXCEPT !.compare_against = HalfModulus - 1]

Init ==
  /\ backend_cmt6 = NewTimer6
  /\ interrupt = FALSE
  /\ t6con = [run |-> FALSE, toggle |-> FALSE]
  /\ t6 = 0
  /\ panicked = FALSE

\* hook_architectural_step: one tick for an instruction, and no interrupt.
Step ==
  /\ backend_cmt6' = Tick(backend_cmt6)
  /\ UNCHANGED <<interrupt, t6con, t6, panicked>>

-----------------------------------------------------------------------------
(* hook_memory_read: the register is brought up to date, then loaded.      *)

LoadT6CON ==
  /\ t6con' = [run |-> backend_cmt6.counter_start, toggle |-> backend_cmt6.match_toggle]
  /\ UNCHANGED <<backend_cmt6, interrupt, t6, panicked>>

\* The counter has to fit 32 bits.
LoadCount(shown) ==
  IF backend_cmt6.current_tick < WordModulus
  THEN t6' = shown /\ UNCHANGED <<backend_cmt6, interrupt, t6con, panicked>>
  ELSE panicked' = TRUE /\ UNCHANGED <<backend_cmt6, interrupt, t6con, t6>>

\* Mutant of LoadT6: the mask is not applied.
LoadT6Unmasked == LoadCount(backend_cmt6.current_tick)

\* The mask keeps the lower 16 bits of the counter.
LoadT6 == LoadCount(backend_cmt6.current_tick % HalfModulus)

-----------------------------------------------------------------------------
(* hook_memory_write, and the store itself.                                *)

Bit(b) == IF b THEN 1 ELSE 0

\* The timer takes the store; the interrupt follows the timer's enable bit.
Hooked(written) ==
  /\ backend_cmt6' = written
  /\ interrupt' = written.interrupt_enabled

\* Mutant of ControlWritten: the masks of the two bits are swapped.
ControlWrittenSwapped(run, toggle) ==
  RegWrite(RegWrite(backend_cmt6, "set_enable", Bit(toggle), Bit(toggle)),
           "set_match_toggle", Bit(run), Bit(run))

ControlWritten(run, toggle) ==
  RegWrite(RegWrite(backend_cmt6, "set_enable", Bit(run), Bit(run)),
           "set_match_toggle", Bit(toggle), Bit(toggle))

StoreT6CON(run, toggle) ==
  /\ Hooked(ControlWritten(run, toggle))
  /\ t6con' = [run |-> run, toggle |-> toggle]
  /\ UNCHANGED <<t6, panicked>>

\* A byte is zero-extended: to the timer the store clears the toggle bit.
StoreT6CONLow(run) ==
  /\ Hooked(ControlWritten(run, FALSE))
  /\ t6con' = [t6con EXCEPT !.run = run]
  /\ UNCHANGED <<t6, panicked>>

StoreT6CONHigh(toggle) ==
  /\ t6con' = [t6con EXCEPT !.toggle = toggle]
  /\ UNCHANGED <<backend_cmt6, interrupt, t6, panicked>>

CountWritten(word) == RegWrite(backend_cmt6, "set_current_tick", word, word)

StoreT6(word) ==
  /\ Hooked(CountWritten(word))
  /\ t6' = word
  /\ UNCHANGED <<t6con, panicked>>

LowReplaced(byte) == (t6 \div ByteModulus) * ByteModulus + byte

StoreT6Low(byte) ==
  /\ Hooked(CountWritten(byte))
  /\ t6' = LowReplaced(byte)
  /\ UNCHANGED <<t6con, panicked>>

StoreT6High(byte) ==
  /\ t6' = byte * ByteModulus + (t6 % ByteModulus)
  /\ UNCHANGED <<backend_cmt6, interrupt, t6con, panicked>>

Access ==
  \/ LoadT6CON
  \/ LoadT6
  \/ \E run, toggle \in BOOLEAN : StoreT6CON(run, toggle)
  \/ \E run \in BOOLEAN : StoreT6CONLow(run)
  \/ \E toggle \in BOOLEAN : StoreT6CONHigh(toggle)
  \/ \E word \in WordStores : StoreT6(word)
  \/ \E byte \in ByteStores : StoreT6Low(byte) \/ StoreT6High(byte)

Next == ~panicked /\ (Step \/ Access)

Spec == Init /\ [][Next]_vars

\* The emulator goes on executing instructions.
FairSpec == Spec /\ WF_vars(~panicked /\ Step)
-----------------------------------------------------------------------------
(* The run bit in memory is never stale: in whatever order words, low and  *)
(* high bytes are loaded and stored, it says whether the counter counts.   *)
(* Of T6CON only the toggle bit needs a load to be brought up to date.     *)
RunInStep == t6con.run = backend_cmt6.counter_start

WithinPeriod ==
  /\ backend_cmt6.current_tick < backend_cmt6.compare_against
  /\ ~panicked

(* Only the store of the word 0xffff into T6 gets the counter past its     *)
(* compare value, whatever the firmware mixes of word and byte stores,     *)
(* starts and stops.  Past it a match is 2^128 ticks away, a load shows a  *)
(* counter that wraps, and in the end it panics; before it never does.     *)
OnlyFullCountOvershoots ==
  [][ WithinPeriod => WithinPeriod' \/ StoreT6(HalfModulus - 1) ]_vars

(* Left to run within its period, the timer keeps toggling: the match of   *)
(* every period comes and flips the latch, whatever the firmware did       *)
(* before.                                                                 *)
LeftRunning ==
  /\ <>[](backend_cmt6.counter_start /\ WithinPeriod)
  /\ <>[][backend_cmt6' = Tick(backend_cmt6)]_backend_cmt6

KeepsToggling ==
  LeftRunning =>
    []<>backend_cmt6.match_toggle /\ []<>(~backend_cmt6.match_toggle)
=============================================================================
