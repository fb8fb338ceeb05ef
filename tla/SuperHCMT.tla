------------------------------ MODULE SuperHCMT ------------------------------
(***************************************************************************)
(* The SuperH compare match timer (SuperH/compare_match_timer.rs): two     *)
(* backend timers, two interrupt records and the hook that the emulator    *)
(* calls before every guest instruction.  The guest firmware is the        *)
(* environment: it executes instructions, returns from the routines the    *)
(* hook branched to, and stores into the timer registers.                  *)
(***************************************************************************)
EXTENDS CompareMatchTimer, Sequences

CONSTANTS
  RteWords,     \* the 32 bits a guest may have at an RTE, as two halfwords
  UsedChan,     \* the channels the firmware programs
  WriteValues,  \* the words the firmware stores into CMCNT and CMCOR
  RegModulus    \* CMCNT and CMCOR are bound by the mask RegModulus - 1

Chan == {0, 1}
Halfword == {"zero", "rte", "op"}

ASSUME SuperHAssumption ==
  /\ RteWords \subseteq Halfword \X Halfword
  /\ UsedChan \subseteq Chan
  /\ WriteValues \subseteq Tick128
  /\ RegModulus \in Nat \ {0}

\* const INST_RTE: the 32-bit word 0x0000002B, read at the program counter.
INST_RTE == <<"zero", "rte">>

\* An instruction is an RTE or any other one, whose word is never INST_RTE.
Instruction == {"rte", "other"}

VARIABLES
  rte_word,   \* the 32 bits this guest has at an RTE; fixed
  backend,    \* backend[c]: the timer of channel c
  interrupt,  \* interrupt[c]: the enabled and triggered marks of channel c
  stack       \* the channels whose routine the hook branched to and that
              \* have not returned: one (SR, PC) frame pushed for each

vars == <<rte_word, backend, interrupt, stack>>

Interrupt == [enabled : BOOLEAN, triggered : BOOLEAN]

TypeOK ==
  /\ rte_word \in RteWords
  /\ backend \in [Chan -> Timer]
  /\ interrupt \in [Chan -> Interrupt]
  /\ stack \in Seq(Chan)

Init ==
  /\ rte_word \in RteWords
  /\ backend = [c \in Chan |-> DefaultTimer]
  /\ interrupt = [c \in Chan |-> [enabled |-> FALSE, triggered |-> FALSE]]
  /\ stack = <<>>

-----------------------------------------------------------------------------
(* hook_architectural_step: both counters advance, then the hook passes    *)
(* the instruction or branches to a routine.                               *)

Ticked == [c \in Chan |-> Tick(backend[c])]

Matched(c) == IsMatched(Ticked[c])

\* The guest's RTE is the word the hook looks for.
SeenAsRte(inst) == inst = "rte" /\ rte_word = INST_RTE

\* The firmware returns only from a routine it is in.
Executable(inst) == inst = "rte" => stack # <<>>

\* The hook passed: the instruction executes, and an RTE pops its frame.
Execute(inst) ==
  stack' = IF inst = "rte" THEN SubSeq(stack, 1, Len(stack) - 1) ELSE stack

\* First early return.  It tests the mark of channel 0 twice and the mark of
\* channel 1 not at all.
NothingMatched ==
  /\ ~Matched(0)
  /\ ~interrupt[0].triggered
  /\ ~Matched(1)

\* Mutant of NothingEnabled: one idle channel is enough for the return.
NothingEnabledEither ==
  \E c \in Chan : ~interrupt[c].enabled /\ ~interrupt[c].triggered

\* Second early return.
NothingEnabled ==
  \A c \in Chan : ~interrupt[c].enabled /\ ~interrupt[c].triggered

StepEarly(inst) ==
  /\ NothingMatched \/ NothingEnabled
  /\ Executable(inst)
  /\ backend' = Ticked
  /\ Execute(inst)
  /\ UNCHANGED interrupt

\* Mutant of StepTriggered0: the mark falls at any instruction.
StepTriggered0Forgets(inst) ==
  /\ ~NothingMatched /\ ~NothingEnabled
  /\ interrupt[0].triggered
  /\ Executable(inst)
  /\ backend' = Ticked
  /\ interrupt' = [interrupt EXCEPT ![0].triggered = FALSE]
  /\ Execute(inst)

\* Channel 0 is triggered: an RTE resets its mark, anything else passes.
StepTriggered0(inst) ==
  /\ ~NothingMatched /\ ~NothingEnabled
  /\ interrupt[0].triggered
  /\ Executable(inst)
  /\ backend' = Ticked
  /\ interrupt' = [interrupt EXCEPT ![0].triggered = ~SeenAsRte(inst)]
  /\ Execute(inst)

\* Channel 1 is triggered and channel 0 was not: channel 0 may be marked now,
\* but the hook passes before it branches anywhere.
StepTriggered1(inst) ==
  /\ ~NothingMatched /\ ~NothingEnabled
  /\ ~interrupt[0].triggered
  /\ interrupt[1].triggered
  /\ Executable(inst)
  /\ backend' = Ticked
  /\ interrupt' = [interrupt EXCEPT ![0].triggered = Matched(0),
                                    ![1].triggered = ~SeenAsRte(inst)]
  /\ Execute(inst)

\* Mutant of StepDeliver: the branch goes to the highest matched channel.
StepDeliverLastFirst ==
  /\ ~NothingMatched /\ ~NothingEnabled
  /\ \A c \in Chan : ~interrupt[c].triggered
  /\ backend' = Ticked
  /\ interrupt' = [c \in Chan |-> [interrupt[c] EXCEPT !.triggered = Matched(c)]]
  /\ stack' = Append(stack, IF Matched(1) THEN 1 ELSE 0)

\* Neither was triggered: every matched channel is marked, and the hook
\* pushes SR and PC and branches to the routine of the lowest of them.
StepDeliver ==
  /\ ~NothingMatched /\ ~NothingEnabled
  /\ \A c \in Chan : ~interrupt[c].triggered
  /\ backend' = Ticked
  /\ interrupt' = [c \in Chan |-> [interrupt[c] EXCEPT !.triggered = Matched(c)]]
  /\ stack' = Append(stack, IF Matched(0) THEN 0 ELSE 1)

Step(inst) ==
  /\ UNCHANGED rte_word
  /\ \/ StepEarly(inst)
     \/ StepTriggered0(inst)
     \/ StepTriggered1(inst)
     \/ StepDeliver

-----------------------------------------------------------------------------
(* hook_memory_write: each channel the register belongs to applies the     *)
(* written word, then copies its interrupt enable bit to its interrupt.    *)

\* Mutant of Store: only a set interrupt enable bit is copied.
StoreNeverDisables(chans, written) ==
  /\ backend' = [c \in Chan |-> IF c \in chans THEN written[c] ELSE backend[c]]
  /\ interrupt' = [c \in Chan |->
       [interrupt[c] EXCEPT !.enabled =
          @ \/ (c \in chans /\ written[c].interrupt_enabled)]]
  /\ UNCHANGED <<rte_word, stack>>

Store(chans, written) ==
  /\ backend' = [c \in Chan |-> IF c \in chans THEN written[c] ELSE backend[c]]
  /\ interrupt' = [c \in Chan |->
       [interrupt[c] EXCEPT !.enabled =
          IF c \in chans THEN written[c].interrupt_enabled ELSE @]]
  /\ UNCHANGED <<rte_word, stack>>

Bit(b) == IF b THEN 1 ELSE 0

\* CMSTR holds the start bits of both channels.
WriteCMSTR(str) ==
  /\ \A c \in Chan \ UsedChan : ~str[c]
  /\ Store(Chan, [c \in Chan |->
       RegWrite(backend[c], "set_enable", Bit(str[c]), Bit(str[c]))])

\* CMCSR binds two functions; they change different fields, so the order in
\* which the hash map yields them makes no difference.
WriteCMCSR(c, cmf, cmie) ==
  Store({c}, [d \in Chan |->
    RegWrite(RegWrite(backend[d], "clear_matched_flag", Bit(cmf), Bit(cmf)),
             "set_interrupt_enabled", Bit(cmie), Bit(cmie))])

WriteCMCNT(c, word) ==
  Store({c}, [d \in Chan |->
    RegWrite(backend[d], "set_current_tick", word, word % RegModulus)])

WriteCMCOR(c, word) ==
  Store({c}, [d \in Chan |->
    RegWrite(backend[d], "set_compare_against", word, word % RegModulus)])

WriteRegister ==
  \/ \E str \in [Chan -> BOOLEAN] : WriteCMSTR(str)
  \/ \E c \in UsedChan :
       \/ \E cmf, cmie \in BOOLEAN : WriteCMCSR(c, cmf, cmie)
       \/ \E word \in WriteValues : WriteCMCNT(c, word) \/ WriteCMCOR(c, word)

Next ==
  \/ \E inst \in Instruction : Step(inst)
  \/ WriteRegister

Spec == Init /\ [][Next]_vars

(***************************************************************************)
(* The emulator calls the hook before every instruction it executes.       *)
(* Neither stores nor returns are owed.                                    *)
(***************************************************************************)
FairSpec == Spec /\ WF_vars(\E inst \in Instruction : Step(inst))
-----------------------------------------------------------------------------
InRoutine(c) == \E i \in 1 .. Len(stack) : stack[i] = c

(* The routines do not nest, and the channel whose routine is on the stack *)
(* is still marked as triggered: the early "do not branch to interrupt     *)
(* again" returns protect the single saved frame, whatever else the marks  *)
(* say and however matches and stores interleave with the routine.         *)
NoNesting ==
  /\ Len(stack) <= 1
  /\ \A i \in 1 .. Len(stack) : interrupt[stack[i]].triggered

(* The enable mark a step consults is never stale: after every store it    *)
(* agrees with the interrupt enable bit of the timer of its channel, also  *)
(* for the channel a store to the shared register did not mean to change.  *)
EnableInStep ==
  \A c \in Chan : interrupt[c].enabled = backend[c].interrupt_enabled

(* A routine is entered only for a running counter whose match flag is up, *)
(* with some channel's interrupt enabled, and channel 1 never overtakes a  *)
(* match of channel 0.                                                     *)
EntryJustified ==
  [][ Len(stack') > Len(stack) =>
        LET c == stack'[Len(stack')]
        IN /\ backend'[c].counter_start /\ backend'[c].matched
           /\ \E d \in Chan : interrupt[d].enabled
           /\ c = 1 => ~(backend'[0].counter_start /\ backend'[0].matched)
    ]_vars

PendingOn(c) == IsMatched(backend[c]) /\ interrupt[c].enabled

(* A firmware that starts channel 0 alone is served, if its RTE is the     *)
(* word the hook compares with: a match with its interrupt enabled is      *)
(* followed by the routine of channel 0, unless the firmware takes the     *)
(* match or the enable back first.  With the 16-bit RTE it is false: then  *)
(* ReturnDisablesTriggered below fails, and no second match is served.     *)
Channel0Served ==
  [](rte_word = INST_RTE /\ ~backend[1].counter_start) =>
    (PendingOn(0) ~> (InRoutine(0) \/ ~PendingOn(0)))

(* "return from interrupt disable triggered status" (line 174): a return   *)
(* takes the mark of the channel whose routine it leaves.                  *)
ReturnDisablesTriggered ==
  [][ Len(stack') < Len(stack) =>
        ~interrupt'[stack[Len(stack)]].triggered ]_vars

(* "If we are in a interrupt routine, then do not branch to interrupt      *)
(* again" (lines 178 and 192): a triggered mark stands for a routine that  *)
(* is running.                                                             *)
TriggeredMeansInRoutine ==
  (\E c \in Chan : interrupt[c].triggered) => stack # <<>>

(* "If the interrupt is not enabled, then continue execution" (line 157):  *)
(* no routine is entered for a channel whose interrupt is disabled.        *)
DisabledNotTaken ==
  [][ Len(stack') > Len(stack) => interrupt[stack'[Len(stack')]].enabled ]_vars
=============================================================================
