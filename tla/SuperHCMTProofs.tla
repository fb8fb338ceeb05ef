--------------------------- MODULE SuperHCMTProofs ---------------------------
(***************************************************************************)
(* Theorems about SuperHCMT, for every counter width, every set of stored  *)
(* words and every encoding of RTE.                                        *)
(***************************************************************************)
EXTENDS SuperHCMT, CompareMatchTimerProofs, TLAPS

LEMMA BitType ==
  ASSUME NEW b
  PROVE  Bit(b) \in Tick128
BY TickModulusAssumption DEF Bit, Tick128

(* Stores keep the type: every channel they reach gets a timer.            *)
LEMMA StoreType ==
  ASSUME TypeOK, NEW chans, NEW written \in [Chan -> Timer],
         Store(chans, written)
  PROVE  TypeOK'
<1>1. backend' \in [Chan -> Timer]
  BY DEF TypeOK, Store
<1>2. interrupt' \in [Chan -> Interrupt]
  <2>1. \A c \in Chan : written[c].interrupt_enabled \in BOOLEAN
    BY DEF Timer
  <2>2. \A c \in Chan :
          [interrupt[c] EXCEPT !.enabled =
             IF c \in chans THEN written[c].interrupt_enabled ELSE @] \in Interrupt
    BY <2>1 DEF TypeOK, Interrupt
  <2> QED
    BY <2>2 DEF Store
<1> QED
  BY <1>1, <1>2 DEF TypeOK, Store

LEMMA WriteRegisterType ==
  ASSUME TypeOK, WriteRegister
  PROVE  TypeOK'
<1> USE SuperHAssumption
<1>0. backend \in [Chan -> Timer]
  BY DEF TypeOK
<1>1. ASSUME NEW str \in [Chan -> BOOLEAN], WriteCMSTR(str)
      PROVE  TypeOK'
  BY <1>0, <1>1, RegWriteType, BitType, StoreType DEF WriteCMSTR
<1>2. ASSUME NEW c \in UsedChan, NEW cmf \in BOOLEAN, NEW cmie \in BOOLEAN,
             WriteCMCSR(c, cmf, cmie)
      PROVE  TypeOK'
  BY <1>0, <1>2, RegWriteType, BitType, StoreType DEF WriteCMCSR
<1>3. ASSUME NEW c \in UsedChan, NEW word \in WriteValues, WriteCMCNT(c, word)
      PROVE  TypeOK'
  BY <1>0, <1>3, RegWriteType, StoreType DEF WriteCMCNT
<1>4. ASSUME NEW c \in UsedChan, NEW word \in WriteValues, WriteCMCOR(c, word)
      PROVE  TypeOK'
  BY <1>0, <1>4, RegWriteType, StoreType DEF WriteCMCOR
<1> QED
  BY <1>1, <1>2, <1>3, <1>4 DEF WriteRegister
-----------------------------------------------------------------------------
(* Facts about one architectural step.                                     *)

LEMMA TickedType ==
  ASSUME TypeOK
  PROVE  /\ Ticked \in [Chan -> Timer]
         /\ \A c \in Chan : Matched(c) \in BOOLEAN
<1>1. Ticked \in [Chan -> Timer]
  BY TickType DEF TypeOK, Ticked
<1>2. \A t \in Timer : IsMatched(t) \in BOOLEAN
  BY DEF IsMatched, Timer
<1> QED
  BY <1>1, <1>2 DEF Matched

LEMMA ExecuteType ==
  ASSUME TypeOK, NEW inst, Executable(inst), Execute(inst)
  PROVE  stack' \in Seq(Chan)
<1>1. CASE inst = "rte"
  <2>1. stack # <<>>
    BY <1>1 DEF Executable
  <2> QED
    BY <1>1, <2>1 DEF Execute, TypeOK
<1>2. CASE inst # "rte"
  BY <1>2 DEF Execute, TypeOK
<1> QED
  BY <1>1, <1>2

LEMMA StepType ==
  ASSUME TypeOK, NEW inst, Step(inst)
  PROVE  TypeOK'
<1>1. Ticked \in [Chan -> Timer] /\ \A c \in Chan : Matched(c) \in BOOLEAN
  BY TickedType
<1>2. 0 \in Chan /\ 1 \in Chan
  BY DEF Chan
<1>0. rte_word' \in RteWords
  BY DEF Step, TypeOK
<1>3. CASE StepEarly(inst)
  BY <1>0, <1>1, <1>3, ExecuteType DEF StepEarly, TypeOK
<1>4. CASE StepTriggered0(inst)
  <2>1. SeenAsRte(inst) \in BOOLEAN
    BY DEF SeenAsRte
  <2>2. interrupt' \in [Chan -> Interrupt]
    BY <1>2, <1>4, <2>1 DEF StepTriggered0, TypeOK, Interrupt
  <2> QED
    BY <1>0, <1>1, <1>4, <2>2, ExecuteType DEF StepTriggered0, TypeOK
<1>5. CASE StepTriggered1(inst)
  <2>1. SeenAsRte(inst) \in BOOLEAN
    BY DEF SeenAsRte
  <2>2. interrupt' \in [Chan -> Interrupt]
    BY <1>1, <1>2, <1>5, <2>1 DEF StepTriggered1, TypeOK, Interrupt
  <2> QED
    BY <1>0, <1>1, <1>5, <2>2, ExecuteType DEF StepTriggered1, TypeOK
<1>6. CASE StepDeliver
  <2>1. interrupt' \in [Chan -> Interrupt]
    BY <1>1, <1>6 DEF StepDeliver, TypeOK, Interrupt
  <2>2. stack' \in Seq(Chan)
    BY <1>2, <1>6 DEF StepDeliver, TypeOK
  <2> QED
    BY <1>0, <1>1, <1>6, <2>1, <2>2 DEF StepDeliver, TypeOK
<1> QED
  BY <1>3, <1>4, <1>5, <1>6 DEF Step

(* The timers, the marks and the stack of frames keep their types: in      *)
(* particular a counter never leaves the range of a u128, whatever the     *)
(* firmware stores and whichever way the counter is left to wrap.          *)
THEOREM TypeCorrect == Spec => []TypeOK
<1>1. Init => TypeOK
  BY TickModulusAssumption DEF Init, TypeOK, DefaultTimer, Timer, Tick128, Interrupt
<1>2. TypeOK /\ [Next]_vars => TypeOK'
  <2> SUFFICES ASSUME TypeOK, [Next]_vars PROVE TypeOK'
    OBVIOUS
  <2>1. ASSUME NEW inst \in Instruction, Step(inst) PROVE TypeOK'
    BY <2>1, StepType
  <2>2. CASE WriteRegister
    BY <2>2, WriteRegisterType
  <2>3. CASE UNCHANGED vars
    BY <2>3 DEF vars, TypeOK
  <2> QED
    BY <2>1, <2>2, <2>3 DEF Next
<1> QED
  BY <1>1, <1>2, PTL DEF Spec
-----------------------------------------------------------------------------
(* NoNesting is inductive together with the types.                         *)

\* With at most one frame saved, an RTE leaves none.
LEMMA ExecuteFrames ==
  ASSUME TypeOK, NoNesting, NEW inst, Executable(inst), Execute(inst)
  PROVE  /\ inst = "rte" => Len(stack') = 0
         /\ inst # "rte" => stack' = stack
<1>1. stack \in Seq(Chan) /\ Len(stack) \in Nat /\ Len(stack) <= 1
  BY DEF TypeOK, NoNesting
<1>2. ASSUME inst = "rte" PROVE Len(stack') = 0
  <2>1. Len(stack) = 1
    BY <1>1, <1>2 DEF Executable
  <2> QED
    BY <1>1, <1>2, <2>1 DEF Execute
<1> QED
  BY <1>2 DEF Execute

\* A register write leaves the frames and the triggered marks alone.
LEMMA WriteRegisterMarks ==
  ASSUME TypeOK, WriteRegister
  PROVE  /\ stack' = stack
         /\ \A c \in Chan : interrupt'[c].triggered = interrupt[c].triggered
<1>1. \A chans, written :
        Store(chans, written) =>
          /\ stack' = stack
          /\ \A c \in Chan : interrupt'[c].triggered = interrupt[c].triggered
  BY DEF Store, TypeOK, Interrupt
<1> QED
  BY <1>1 DEF WriteRegister, WriteCMSTR, WriteCMCSR, WriteCMCNT, WriteCMCOR

LEMMA StepNoNesting ==
  ASSUME TypeOK, NoNesting, NEW inst, Step(inst)
  PROVE  NoNesting'
<1> USE DEF NoNesting
<1>1. Ticked \in [Chan -> Timer] /\ \A c \in Chan : Matched(c) \in BOOLEAN
  BY TickedType
<1>2. 0 \in Chan /\ 1 \in Chan /\ \A c \in Chan : c = 0 \/ c = 1
  BY DEF Chan
<1>3. \A i \in 1 .. Len(stack) : stack[i] \in Chan
  BY DEF TypeOK
<1>4. CASE StepEarly(inst)
  BY <1>4, ExecuteFrames DEF StepEarly
<1>5. CASE StepTriggered0(inst)
  <2>1. CASE inst = "rte"
    BY <1>5, <2>1, ExecuteFrames DEF StepTriggered0
  <2>2. CASE inst # "rte"
    <3>1. stack' = stack /\ ~SeenAsRte(inst)
      BY <1>5, <2>2, ExecuteFrames DEF StepTriggered0, SeenAsRte
    <3>2. \A c \in Chan : interrupt[c].triggered => interrupt'[c].triggered
      BY <1>2, <1>5, <3>1 DEF StepTriggered0, TypeOK, Interrupt
    <3> QED
      BY <1>3, <3>1, <3>2
  <2> QED
    BY <2>1, <2>2
<1>6. CASE StepTriggered1(inst)
  <2>1. CASE inst = "rte"
    BY <1>6, <2>1, ExecuteFrames DEF StepTriggered1
  <2>2. CASE inst # "rte"
    <3>1. stack' = stack /\ ~SeenAsRte(inst)
      BY <1>6, <2>2, ExecuteFrames DEF StepTriggered1, SeenAsRte
    <3>2. interrupt'[1].triggered
      BY <1>2, <1>6, <3>1 DEF StepTriggered1, TypeOK, Interrupt
    <3>3. \A i \in 1 .. Len(stack) : stack[i] = 1
      BY <1>2, <1>3, <1>6 DEF StepTriggered1
    <3> QED
      BY <3>1, <3>2, <3>3
  <2> QED
    BY <2>1, <2>2
<1>7. CASE StepDeliver
  <2> DEFINE c == IF Matched(0) THEN 0 ELSE 1
  <2>1. Len(stack) = 0
    BY <1>3, <1>7 DEF StepDeliver, TypeOK
  <2>2. Matched(c)
    BY <1>2, <1>7 DEF StepDeliver, NothingMatched
  <2>3. c \in Chan /\ interrupt'[c].triggered
    BY <1>1, <1>2, <1>7, <2>2 DEF StepDeliver, TypeOK, Interrupt
  <2>4. stack' = Append(stack, c)
    BY <1>7 DEF StepDeliver
  <2>5. Len(stack') = 1 /\ stack'[1] = c
    BY <2>1, <2>3, <2>4 DEF TypeOK
  <2> QED
    BY <2>3, <2>5
<1> QED
  BY <1>4, <1>5, <1>6, <1>7 DEF Step

(* The routines of the two channels never nest, and the one that runs is   *)
(* marked: the saved SR and PC are overwritten by no second entry, for     *)
(* every sequence of stores and instructions and every encoding of RTE.    *)
THEOREM NeverNested == Spec => []NoNesting
<1>1. Init => NoNesting
  BY DEF Init, NoNesting
<1>2. TypeOK /\ NoNesting /\ [Next]_vars => NoNesting'
  <2> SUFFICES ASSUME TypeOK, NoNesting, [Next]_vars PROVE NoNesting'
    OBVIOUS
  <2>1. ASSUME NEW inst \in Instruction, Step(inst) PROVE NoNesting'
    BY <2>1, StepNoNesting
  <2>2. CASE WriteRegister
    <3>1. \A i \in 1 .. Len(stack) : stack[i] \in Chan
      BY DEF TypeOK
    <3> QED
      BY <2>2, <3>1, WriteRegisterMarks DEF NoNesting
  <2>3. CASE UNCHANGED vars
    BY <2>3 DEF vars, NoNesting
  <2> QED
    BY <2>1, <2>2, <2>3 DEF Next
<1> QED
  BY <1>1, <1>2, TypeCorrect, PTL DEF Spec
-----------------------------------------------------------------------------
(* The enable mark of an interrupt follows the timer of its channel.       *)

LEMMA TickKeepsEnable ==
  ASSUME NEW t \in Timer
  PROVE  Tick(t).interrupt_enabled = t.interrupt_enabled
BY DEF Tick, Timer

LEMMA StepEnableInStep ==
  ASSUME TypeOK, EnableInStep, NEW inst, Step(inst)
  PROVE  EnableInStep'
<1>1. \A c \in Chan : Ticked[c].interrupt_enabled = backend[c].interrupt_enabled
  BY TickKeepsEnable DEF TypeOK, Ticked
<1>2. backend' = Ticked
  BY DEF Step, StepEarly, StepTriggered0, StepTriggered1, StepDeliver
<1>3. \A c \in Chan : interrupt'[c].enabled = interrupt[c].enabled
  BY DEF Step, StepEarly, StepTriggered0, StepTriggered1, StepDeliver,
         TypeOK, Interrupt, Chan
<1> QED
  BY <1>1, <1>2, <1>3 DEF EnableInStep

LEMMA WriteRegisterEnableInStep ==
  ASSUME TypeOK, EnableInStep, WriteRegister
  PROVE  EnableInStep'
<1>1. \A chans, written : Store(chans, written) => EnableInStep'
  <2> SUFFICES ASSUME NEW chans, NEW written, Store(chans, written),
                      NEW c \in Chan
               PROVE  interrupt'[c].enabled = backend'[c].interrupt_enabled
    BY DEF EnableInStep
  <2>1. interrupt'[c].enabled =
          IF c \in chans THEN written[c].interrupt_enabled ELSE interrupt[c].enabled
    BY DEF Store, TypeOK, Interrupt
  <2>2. backend'[c] = IF c \in chans THEN written[c] ELSE backend[c]
    BY DEF Store
  <2> QED
    BY <2>1, <2>2 DEF EnableInStep
<1> QED
  BY <1>1 DEF WriteRegister, WriteCMSTR, WriteCMCSR, WriteCMCNT, WriteCMCOR

(* The enable mark a step consults is the interrupt enable bit its timer   *)
(* has: no order of stores to the shared and the own registers of the      *)
(* channels leaves one of the two copies behind.                           *)
THEOREM EnableNeverStale == Spec => []EnableInStep
<1>1. Init => EnableInStep
  <2> SUFFICES ASSUME Init, NEW c \in Chan
               PROVE  interrupt[c].enabled = backend[c].interrupt_enabled
    BY DEF EnableInStep
  <2>1. interrupt[c].enabled = FALSE
    BY DEF Init
  <2>2. DefaultTimer.interrupt_enabled = FALSE
    BY DEF DefaultTimer
  <2> QED
    BY <2>1, <2>2 DEF Init
<1>2. TypeOK /\ EnableInStep /\ [Next]_vars => EnableInStep'
  <2> SUFFICES ASSUME TypeOK, EnableInStep, [Next]_vars PROVE EnableInStep'
    OBVIOUS
  <2>1. ASSUME NEW inst \in Instruction, Step(inst) PROVE EnableInStep'
    BY <2>1, StepEnableInStep
  <2>2. CASE WriteRegister
    BY <2>2, WriteRegisterEnableInStep
  <2>3. CASE UNCHANGED vars
    BY <2>3 DEF vars, EnableInStep
  <2> QED
    BY <2>1, <2>2, <2>3 DEF Next
<1> QED
  BY <1>1, <1>2, TypeCorrect, PTL DEF Spec

-----------------------------------------------------------------------------
\* Executing an instruction saves no frame.
LEMMA ExecuteSavesNothing ==
  ASSUME TypeOK, NEW inst, Executable(inst), Execute(inst)
  PROVE  ~(Len(stack') > Len(stack))
<1>1. CASE inst = "rte"
  BY <1>1 DEF Executable, Execute, TypeOK
<1>2. CASE inst # "rte"
  BY <1>2 DEF Execute, TypeOK
<1> QED
  BY <1>1, <1>2

(* Every entry is justified by a match of the channel entered, in a step   *)
(* that finds an interrupt enabled, and goes to channel 1 only when        *)
(* channel 0 has no match.                                                 *)
THEOREM EveryEntryJustified == Spec => EntryJustified
<1> DEFINE Justified ==
      LET c == stack'[Len(stack')]
      IN /\ backend'[c].counter_start /\ backend'[c].matched
         /\ \E d \in Chan : interrupt[d].enabled
         /\ c = 1 => ~(backend'[0].counter_start /\ backend'[0].matched)
<1>1. TypeOK /\ [Next]_vars => [Len(stack') > Len(stack) => Justified]_vars
  <2> SUFFICES ASSUME TypeOK, Next, Len(stack') > Len(stack) PROVE Justified
    OBVIOUS
  <2>1. StepDeliver
    <3>1. ~WriteRegister
      BY WriteRegisterMarks DEF TypeOK
    <3>2. PICK inst \in Instruction : Step(inst)
      BY <3>1 DEF Next
    <3>3. ~StepEarly(inst) /\ ~StepTriggered0(inst) /\ ~StepTriggered1(inst)
      BY ExecuteSavesNothing DEF StepEarly, StepTriggered0, StepTriggered1
    <3> QED
      BY <3>2, <3>3 DEF Step
  <2> DEFINE c == IF Matched(0) THEN 0 ELSE 1
  <2>2. 0 \in Chan /\ 1 \in Chan /\ \A d \in Chan : d = 0 \/ d = 1
    BY DEF Chan
  <2>3. Matched(c)
    BY <2>1, <2>2 DEF StepDeliver, NothingMatched
  <2>4. stack'[Len(stack')] = c
    BY <2>1, <2>2 DEF StepDeliver, TypeOK
  <2>5. \E d \in Chan : interrupt[d].enabled
    BY <2>1 DEF StepDeliver, NothingEnabled
  <2>6. \A d \in Chan : Matched(d) <=> backend'[d].counter_start /\ backend'[d].matched
    BY <2>1 DEF StepDeliver, Matched, IsMatched
  <2> QED
    BY <2>2, <2>3, <2>4, <2>5, <2>6
<1> QED
  BY <1>1, TypeCorrect, PTL DEF Spec, EntryJustified
-----------------------------------------------------------------------------
(* What the marks are worth when the hook does not recognise the guest's   *)
(* RTE.                                                                    *)

Marked == \E c \in Chan : interrupt[c].triggered

Entry == Len(stack') > Len(stack)

LEMMA StepStaysMarked ==
  ASSUME rte_word # INST_RTE, TypeOK, Marked, NEW inst, Step(inst)
  PROVE  Marked' /\ ~Entry
<1>1. 0 \in Chan /\ 1 \in Chan /\ \A c \in Chan : c = 0 \/ c = 1
  BY DEF Chan
<1>2. ~SeenAsRte(inst)
  BY DEF SeenAsRte
<1>3. CASE StepEarly(inst)
  BY <1>3, ExecuteSavesNothing DEF StepEarly, Marked, Entry
<1>4. CASE StepTriggered0(inst)
  <2>1. interrupt'[0].triggered
    BY <1>1, <1>2, <1>4 DEF StepTriggered0, TypeOK, Interrupt
  <2> QED
    BY <1>1, <1>4, <2>1, ExecuteSavesNothing DEF StepTriggered0, Marked, Entry
<1>5. CASE StepTriggered1(inst)
  <2>1. interrupt'[1].triggered
    BY <1>1, <1>2, <1>5 DEF StepTriggered1, TypeOK, Interrupt
  <2> QED
    BY <1>1, <1>5, <2>1, ExecuteSavesNothing DEF StepTriggered1, Marked, Entry
<1>6. CASE StepDeliver
  BY <1>6 DEF StepDeliver, Marked
<1> QED
  BY <1>3, <1>4, <1>5, <1>6 DEF Step

\* An entry leaves the mark of the channel entered.
LEMMA EntryMarks ==
  ASSUME TypeOK, NEW inst, Step(inst), Entry
  PROVE  Marked'
<1>1. StepDeliver
  BY ExecuteSavesNothing DEF Step, StepEarly, StepTriggered0, StepTriggered1, Entry
<1> DEFINE c == IF Matched(0) THEN 0 ELSE 1
<1>2. c \in Chan /\ Matched(c)
  BY <1>1 DEF Chan, StepDeliver, NothingMatched
<1>3. interrupt'[c].triggered
  BY <1>1, <1>2 DEF StepDeliver, TypeOK, Interrupt
<1> QED
  BY <1>2, <1>3 DEF Marked

(* If the guest's RTE is not the word 0x0000002B, as with the 16-bit RTE   *)
(* and its delay slot, one interrupt is all the firmware ever gets: an     *)
(* entry leaves a mark, a mark is never taken back, and while one stands   *)
(* no routine is entered, whichever channels match and whatever is stored. *)
THEOREM OneRoutineOnly ==
  Spec => /\ [][ Entry => Marked' ]_vars
          /\ [][ rte_word # INST_RTE /\ Marked => Marked' /\ ~Entry ]_vars
<1>1. ASSUME TypeOK, WriteRegister PROVE ~Entry /\ (Marked => Marked')
  BY <1>1, WriteRegisterMarks DEF Entry, Marked, TypeOK
<1>2. TypeOK /\ [Next]_vars => [Entry => Marked']_vars
  BY <1>1, EntryMarks DEF Next
<1>3. TypeOK /\ [Next]_vars
        => [rte_word # INST_RTE /\ Marked => Marked' /\ ~Entry]_vars
  BY <1>1, StepStaysMarked DEF Next
<1> QED
  BY <1>2, <1>3, TypeCorrect, PTL DEF Spec
-----------------------------------------------------------------------------
(* A firmware that uses channel 0 alone: for it the comments of the hook   *)
(* hold.                                                                   *)

\* Channel 1 does not count, is not enabled and has no mark.
Idle1 ==
  /\ ~backend[1].counter_start
  /\ ~interrupt[1].enabled
  /\ ~interrupt[1].triggered

LEMMA TickKeepsStart ==
  ASSUME NEW t \in Timer
  PROVE  Tick(t).counter_start = t.counter_start
BY DEF Tick, Timer

\* A channel that does not count does not match.
LEMMA Idle1Unmatched ==
  ASSUME TypeOK, Idle1
  PROVE  ~Ticked[1].counter_start /\ ~Matched(1)
<1>1. Ticked[1].counter_start = backend[1].counter_start
  BY TickKeepsStart DEF TypeOK, Ticked, Chan
<1> QED
  BY <1>1 DEF Idle1, Matched, IsMatched

LEMMA StaysIdle1 ==
  ASSUME UsedChan \subseteq {0}, TypeOK, EnableInStep, Idle1, [Next]_vars
  PROVE  Idle1'
<1>0. 0 \in Chan /\ 1 \in Chan /\ backend[1] \in Timer
  BY DEF Chan, TypeOK
<1>1. ASSUME NEW inst, Step(inst) PROVE Idle1'
  <2>1. ~backend'[1].counter_start
    BY <1>1, Idle1Unmatched DEF Step, StepEarly, StepTriggered0, StepTriggered1, StepDeliver
  <2>2. CASE StepEarly(inst)
    BY <2>1, <2>2 DEF StepEarly, Idle1
  <2>3. CASE StepTriggered0(inst)
    BY <1>0, <2>1, <2>3 DEF StepTriggered0, Idle1, TypeOK
  <2>4. CASE StepTriggered1(inst)
    BY <2>4 DEF StepTriggered1, Idle1
  <2>5. CASE StepDeliver
    <3>1. interrupt'[1] = [interrupt[1] EXCEPT !.triggered = Matched(1)]
      BY <1>0, <2>5 DEF StepDeliver
    <3>2. /\ interrupt'[1].enabled = interrupt[1].enabled
          /\ interrupt'[1].triggered = Matched(1)
      BY <1>0, <3>1 DEF TypeOK, Interrupt
    <3> QED
      BY <2>1, <3>2, Idle1Unmatched DEF Idle1
  <2> QED
    BY <1>1, <2>2, <2>3, <2>4, <2>5 DEF Step
<1>2. ASSUME NEW written, Store({0}, written) PROVE Idle1'
  <2>1. backend'[1] = backend[1]
    BY <1>0, <1>2 DEF Store
  <2>2. /\ interrupt'[1].enabled = interrupt[1].enabled
        /\ interrupt'[1].triggered = interrupt[1].triggered
    BY <1>0, <1>2 DEF Store, TypeOK, Interrupt
  <2> QED
    BY <2>1, <2>2 DEF Idle1
<1>3. ASSUME NEW str \in [Chan -> BOOLEAN], WriteCMSTR(str) PROVE Idle1'
  <2> DEFINE w == RegWrite(backend[1], "set_enable", Bit(str[1]), Bit(str[1]))
  <2>1. ~str[1]
    BY <1>0, <1>3 DEF WriteCMSTR
  <2>2. Bit(str[1]) = 0
    BY <2>1 DEF Bit
  <2>3. ~w.counter_start /\ w.interrupt_enabled = backend[1].interrupt_enabled
    BY <1>0, <2>2 DEF RegWrite, ApplyClear, SetBy, Timer
  <2>4. ~backend[1].interrupt_enabled
    BY <1>0 DEF EnableInStep, Idle1
  <2>5. backend'[1] = w
    BY <1>0, <1>3 DEF WriteCMSTR, Store
  <2>6. /\ interrupt'[1].enabled = w.interrupt_enabled
        /\ interrupt'[1].triggered = interrupt[1].triggered
    BY <1>0, <1>3 DEF WriteCMSTR, Store, TypeOK, Interrupt
  <2> HIDE DEF w
  <2> QED
    BY <2>3, <2>4, <2>5, <2>6 DEF Idle1
<1>4. ASSUME NEW c \in UsedChan,
             \/ \E cmf, cmie \in BOOLEAN : WriteCMCSR(c, cmf, cmie)
             \/ \E word \in WriteValues : WriteCMCNT(c, word) \/ WriteCMCOR(c, word)
      PROVE  Idle1'
  <2>1. c = 0
    OBVIOUS
  <2> QED
    BY <1>2, <1>4, <2>1 DEF WriteCMCSR, WriteCMCNT, WriteCMCOR
<1>5. CASE UNCHANGED vars
  BY <1>5 DEF vars, Idle1
<1> QED
  BY <1>1, <1>3, <1>4, <1>5 DEF Next, WriteRegister

LEMMA AlwaysIdle1 ==
  ASSUME UsedChan \subseteq {0}
  PROVE  Spec => []Idle1
<1>1. Init => Idle1
  BY DEF Init, DefaultTimer, Chan, Idle1
<1> QED
  BY <1>1, StaysIdle1, TypeCorrect, EnableNeverStale, PTL DEF Spec

\* The frames and the mark of channel 0 go together.
LEMMA StaysInRoutine ==
  ASSUME rte_word = INST_RTE, TypeOK, Idle1, NoNesting, TriggeredMeansInRoutine,
         NEW inst \in Instruction, Step(inst)
  PROVE  Idle1' => TriggeredMeansInRoutine'
<1> SUFFICES ASSUME Idle1', interrupt'[0].triggered PROVE stack' # <<>>
  BY DEF TriggeredMeansInRoutine, Idle1, Chan
<1>1. 0 \in Chan /\ stack \in Seq(Chan)
  BY DEF Chan, TypeOK
<1>2. CASE StepEarly(inst)
  <2>1. interrupt[0].triggered
    BY <1>2 DEF StepEarly
  <2> QED
    BY <1>1, <1>2, <2>1 DEF StepEarly, NothingMatched, NothingEnabled
<1>3. CASE StepTriggered0(inst)
  <2>1. ~SeenAsRte(inst)
    BY <1>1, <1>3 DEF StepTriggered0, TypeOK, Interrupt, SeenAsRte
  <2>2. stack' = stack
    BY <1>3, <2>1 DEF StepTriggered0, SeenAsRte, Execute
  <2> QED
    BY <1>1, <1>3, <2>2 DEF StepTriggered0, TriggeredMeansInRoutine
<1>4. CASE StepTriggered1(inst)
  BY <1>4 DEF StepTriggered1, Idle1
<1>5. CASE StepDeliver
  BY <1>1, <1>5 DEF StepDeliver, Chan
<1> QED
  BY <1>2, <1>3, <1>4, <1>5 DEF Step

(* "If we are in a interrupt routine, then do not branch to interrupt      *)
(* again": for a firmware that uses channel 0 alone, and whose RTE is the  *)
(* word the hook looks for, a mark does stand for a routine that runs.     *)
THEOREM MarksOfChannel0 ==
  ASSUME UsedChan \subseteq {0}, RteWords = {INST_RTE}
  PROVE  Spec => []TriggeredMeansInRoutine
<1>1. Init => TriggeredMeansInRoutine
  BY DEF Init, TriggeredMeansInRoutine
<1>2. /\ TypeOK /\ Idle1 /\ Idle1' /\ NoNesting /\ TriggeredMeansInRoutine
      /\ [Next]_vars
      => TriggeredMeansInRoutine'
  <2> SUFFICES ASSUME TypeOK, Idle1, Idle1', NoNesting, TriggeredMeansInRoutine, [Next]_vars
               PROVE  TriggeredMeansInRoutine'
    OBVIOUS
  <2>0. rte_word = INST_RTE
    BY DEF TypeOK
  <2>1. CASE WriteRegister
    BY <2>1, WriteRegisterMarks DEF TriggeredMeansInRoutine
  <2>2. CASE UNCHANGED vars
    BY <2>2 DEF vars, TriggeredMeansInRoutine
  <2> QED
    BY <2>0, <2>1, <2>2, StaysInRoutine DEF Next
<1> QED
  BY <1>1, <1>2, TypeCorrect, NeverNested, AlwaysIdle1, PTL DEF Spec

(* "If the interrupt is not enabled, then continue execution": for a       *)
(* firmware that uses channel 0 alone no disabled interrupt is taken.      *)
THEOREM DisabledNotTakenAlone ==
  ASSUME UsedChan \subseteq {0}
  PROVE  Spec => DisabledNotTaken
<1> DEFINE Taken == interrupt[stack'[Len(stack')]].enabled
<1>1. TypeOK /\ Idle1 /\ [Next]_vars => [Len(stack') > Len(stack) => Taken]_vars
  <2> SUFFICES ASSUME TypeOK, Idle1, Next, Len(stack') > Len(stack) PROVE Taken
    OBVIOUS
  <2>1. StepDeliver
    <3>1. ~WriteRegister
      BY WriteRegisterMarks DEF TypeOK
    <3> QED
      BY <3>1, ExecuteSavesNothing DEF Next, Step, StepEarly, StepTriggered0, StepTriggered1
  <2>2. Matched(0)
    <3>1. ~interrupt[0].triggered
      BY <2>1 DEF StepDeliver, Chan
    <3> QED
      BY <2>1, <3>1, Idle1Unmatched DEF StepDeliver, NothingMatched
  <2>3. stack'[Len(stack')] = 0
    BY <2>1, <2>2 DEF StepDeliver, TypeOK, Chan
  <2>4. interrupt[0].enabled
    BY <2>1 DEF StepDeliver, NothingEnabled, Idle1, Chan
  <2> QED
    BY <2>3, <2>4
<1> QED
  BY <1>1, TypeCorrect, AlwaysIdle1, PTL DEF Spec, DisabledNotTaken

(* What Channel0Served rests on besides fairness: a match of channel 0     *)
(* that is pending while no channel is marked is served by the very next   *)
(* instruction, whatever channel 1 does.                                   *)
THEOREM ServedAtOnce ==
  Spec => [][ PendingOn(0) /\ ~Marked /\ (\E inst \in Instruction : Step(inst))
                => stack' = Append(stack, 0) ]_vars
<1>1. ASSUME TypeOK, PendingOn(0), ~Marked, NEW inst, Step(inst)
      PROVE  stack' = Append(stack, 0)
  <2>1. 0 \in Chan /\ 1 \in Chan /\ backend[0] \in Timer
    BY <1>1 DEF Chan, TypeOK
  <2>2. Tick(backend[0]).counter_start /\ Tick(backend[0]).matched
    BY <1>1, <2>1 DEF PendingOn, IsMatched, Tick, Timer
  <2>3. Matched(0)
    BY <2>1, <2>2 DEF Matched, IsMatched, Ticked
  <2>4. StepDeliver
    BY <1>1, <2>1, <2>3 DEF Step, StepEarly, StepTriggered0, StepTriggered1,
       NothingMatched, NothingEnabled, PendingOn, Marked
  <2> QED
    BY <2>3, <2>4 DEF StepDeliver
<1>2. TypeOK /\ [Next]_vars
        => [ PendingOn(0) /\ ~Marked /\ (\E inst \in Instruction : Step(inst))
               => stack' = Append(stack, 0) ]_vars
  BY <1>1
<1> QED
  BY <1>2, TypeCorrect, PTL DEF Spec
=============================================================================
