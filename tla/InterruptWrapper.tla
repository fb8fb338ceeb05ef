--------------------------- MODULE InterruptWrapper ---------------------------
(***************************************************************************)
(* interrupt/mod.rs: the wrapper that follows an interrupt implemented in  *)
(* Rust through its life: pending, fired n times over, disabled.           *)
(*                                                                         *)
(* The wrapper sees one address per architectural step and has to infer    *)
(* from it that a handler was entered and that it returned.  The guest is  *)
(* modelled with what the wrapper cannot see: the frames of the handlers   *)
(* that are really running.  The interrupt's fire() is the environment: it *)
(* declines, names a handler or fails.                                     *)
(***************************************************************************)
EXTENDS Naturals, SequencesExt

CONSTANTS
  MainCode,     \* addresses only the interrupted program runs through
  HandlerCode,  \* addresses the handlers run through
  SharedCode,   \* those of them a program may run through, too
  Handler,      \* the handlers' first addresses
  FiresAt,      \* the trigger counts at which fire() may name a handler
  HostDisables, \* what host_disables may be
  SharesCode,   \* what shares_code may be
  MaxDepth      \* bound: entries of each of the three stacks

ASSUME InterruptAssumption ==
  /\ MainCode \cap HandlerCode = {}
  /\ Handler \subseteq HandlerCode /\ SharedCode \subseteq HandlerCode
  /\ FiresAt \subseteq Nat
  /\ HostDisables \subseteq BOOLEAN /\ SharesCode \subseteq BOOLEAN
  /\ MaxDepth \in Nat

Address == MainCode \cup HandlerCode

VARIABLES
  host_disables,  \* the host calls disable() and enable(); fixed
  shares_code,    \* the program runs through SharedCode; fixed
  status,         \* Disabled, Pending or Fired(n)
  handler_stack,  \* handlers branched to, until their first step
  returns_stack,  \* addresses of the steps that fired, until seen again
  pc,             \* the address the next step is called with
  frames          \* the return addresses of the handlers that are running

wrapper == <<status, handler_stack, returns_stack>>
guest == <<pc, frames>>
setting == <<host_disables, shares_code>>
vars == <<setting, status, handler_stack, returns_stack, pc, frames>>

ProgramCode == IF shares_code THEN MainCode \cup SharedCode ELSE MainCode

Disabled == [state |-> "disabled", times |-> 0]
Pending == [state |-> "pending", times |-> 0]
Fired(n) == [state |-> "fired", times |-> n]

Status ==
  {Disabled, Pending} \cup [state : {"fired"}, times : Nat \ {0}]

HasFired(s) == s.state = "fired"

\* Status::fire
Fire(s) ==
  IF s = Disabled THEN Disabled ELSE Fired(s.times + 1)

\* Mutant of Unfire: Fired(1) is not folded back into Pending.
UnfireToZero(s) == IF HasFired(s) THEN Fired(s.times - 1) ELSE s

\* Mutant of Unfire: the first return ends every firing.
UnfireAll(s) == IF HasFired(s) THEN Pending ELSE s

\* Status::unfire
Unfire(s) ==
  IF ~HasFired(s) THEN s
  ELSE IF s.times = 1 THEN Pending ELSE Fired(s.times - 1)

TypeOK ==
  /\ host_disables \in HostDisables /\ shares_code \in SharesCode
  /\ status \in Status
  /\ handler_stack \in Seq(Handler)
  /\ returns_stack \in Seq(Address)
  /\ pc \in Address
  /\ frames \in Seq(Address)

Init ==
  /\ host_disables \in HostDisables /\ shares_code \in SharesCode
  /\ status = Pending
  /\ handler_stack = <<>>
  /\ returns_stack = <<>>
  /\ pc \in ProgramCode
  /\ frames = <<>>

-----------------------------------------------------------------------------
(* The guest executes the instruction at pc: it goes on in the code it is  *)
(* in, or a handler returns.                                               *)
Execute ==
  \/ /\ frames = <<>>
     /\ pc' \in ProgramCode
     /\ UNCHANGED frames
  \/ /\ frames # <<>>
     /\ pc' \in HandlerCode
     /\ UNCHANGED frames
  \/ /\ frames # <<>>
     /\ pc' = Last(frames)
     /\ frames' = Front(frames)

-----------------------------------------------------------------------------
(* hook_architectural_step *)

AtTop(stk) == stk # <<>> /\ Last(stk) = pc

\* The step is at the last address that fired: its return is popped first.
Back == HasFired(status) /\ AtTop(returns_stack)
StatusNow == IF Back THEN Unfire(status) ELSE status

ReturnsNow == IF Back THEN Front(returns_stack) ELSE returns_stack

\* Mutant of AtEntry: only a nested handler is recognised.
AtEntryNested == StatusNow.times > 1 /\ AtTop(handler_stack)

\* The step is the first one of the handler branched to last.
AtEntry == HasFired(StatusNow) /\ AtTop(handler_stack)

\* The count fire() is given: a disabled interrupt is told what a pending
\* one is.
Told == StatusNow.times

StepEntry ==
  /\ AtEntry
  /\ status' = StatusNow
  /\ returns_stack' = ReturnsNow
  /\ handler_stack' = Front(handler_stack)
  /\ Execute

\* fire() declines.
StepDecline ==
  /\ ~AtEntry
  /\ status' = StatusNow
  /\ returns_stack' = ReturnsNow
  /\ UNCHANGED handler_stack
  /\ Execute

\* fire() names a handler: neither can_fire() nor is_disabled() is asked.
StepFire(h) ==
  /\ ~AtEntry
  /\ Told \in FiresAt
  /\ \A stk \in {ReturnsNow, handler_stack, frames} : Len(stk) < MaxDepth
  /\ status' = Fire(StatusNow)
  /\ handler_stack' = Append(handler_stack, h)
  /\ returns_stack' = Append(ReturnsNow, pc)
  /\ pc' = h
  /\ frames' = Append(frames, pc)

\* fire() fails: what was popped stays popped, nothing executes.
StepError ==
  /\ ~AtEntry
  /\ status' = StatusNow
  /\ returns_stack' = ReturnsNow
  /\ UNCHANGED <<handler_stack, guest>>

Step ==
  \/ StepEntry
  \/ StepDecline
  \/ \E h \in Handler : StepFire(h)
  \/ StepError

-----------------------------------------------------------------------------
(* The host, between two steps. *)

Disable ==
  /\ host_disables
  /\ status' = Disabled
  /\ UNCHANGED <<handler_stack, returns_stack, guest>>

\* Mutant of Enable: the returns still awaited are forgotten.
EnablePending ==
  /\ host_disables
  /\ status = Disabled
  /\ status' = Pending
  /\ UNCHANGED <<handler_stack, returns_stack, guest>>

Enable ==
  /\ host_disables
  /\ status = Disabled
  /\ status' = IF returns_stack = <<>> THEN Pending ELSE Fired(Len(returns_stack))
  /\ UNCHANGED <<handler_stack, returns_stack, guest>>

Next == UNCHANGED setting /\ (Step \/ Disable \/ Enable)

Spec == Init /\ [][Next]_vars
-----------------------------------------------------------------------------
(* The status an enabled interrupt is in is the one its awaited returns    *)
(* give: the two never drift apart, so the count of unfire() cannot        *)
(* underflow and a return popped while the status says Pending is never    *)
(* lost, however often the host disables and enables in between.           *)
StatusFromReturns ==
  status # Disabled =>
    status = IF returns_stack = <<>> THEN Pending ELSE Fired(Len(returns_stack))

(* Code that is running as a handler is never taken for the program: the   *)
(* count fire() is given is positive until the outermost handler returns,  *)
(* also when the interrupt nests, when a nested handler runs through the   *)
(* address the outer one was interrupted at, and when the host disabled    *)
(* the interrupt and has enabled it again, whatever fired and returned     *)
(* while it was disabled.  Needs a program that shares no code with the    *)
(* handlers.                                                               *)
RunningIsFired ==
  ~shares_code /\ frames # <<>> /\ status # Disabled => HasFired(status)

(* "We are in the handler; do not allow any nesting on this address" (line *)
(* 178): a handler that was branched to executes its first instruction     *)
(* before anything fires again.  Needs, besides, a host that leaves the    *)
(* wrapper enabled: a disabled wrapper does not know the first step.       *)
EntryExecutes ==
  [][ ~shares_code /\ ~host_disables /\ handler_stack # <<>> =>
        \A h \in Handler : ~StepFire(h) ]_vars

(* What the wrapper infers from addresses is what happened in the guest:   *)
(* it awaits the returns of the handlers that are running and, until the   *)
(* next step, of the one that has just returned to pc.  Needs, besides,    *)
(* an interrupt that fires only when told that it has not.                 *)
TracksGuest ==
  ~shares_code /\ ~host_disables =>
    \/ returns_stack = frames
    \/ returns_stack = Append(frames, pc)
=============================================================================
