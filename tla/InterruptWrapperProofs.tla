------------------------ MODULE InterruptWrapperProofs ------------------------
(***************************************************************************)
(* Theorems about InterruptWrapper, for every code layout, firing policy   *)
(* and bound.  StatusFromReturns holds without further assumption; what    *)
(* the wrapper infers about the guest holds under the conditions its       *)
(* properties state.                                                       *)
(***************************************************************************)
EXTENDS InterruptWrapper, SequenceTheorems, TLAPS

\* Last and Front of a nonempty sequence, in the form the steps below use.
LEMMA LastFront ==
  ASSUME NEW S, NEW stk \in Seq(S), stk # <<>>
  PROVE  /\ Len(stk) \in Nat \ {0}
         /\ Last(stk) = stk[Len(stk)] /\ Last(stk) \in S
         /\ Front(stk) \in Seq(S)
         /\ Len(Front(stk)) = Len(stk) - 1
         /\ \A i \in 1 .. Len(stk) - 1 : Front(stk)[i] = stk[i]
<1>1. Len(stk) \in Nat \ {0}
  OBVIOUS
<1>2. Last(stk) = stk[Len(stk)] /\ Last(stk) \in S
  BY <1>1 DEF Last
<1> DEFINE n == Len(stk) - 1
<1>3. n \in Int /\ \A i \in 1 .. n : stk[i] \in S
  BY <1>1
<1>4. /\ SubSeq(stk, 1, n) \in Seq(S)
      /\ Len(SubSeq(stk, 1, n)) = IF 1 <= n THEN n - 1 + 1 ELSE 0
      /\ \A i \in 1 .. n - 1 + 1 : SubSeq(stk, 1, n)[i] = stk[1 + i - 1]
  BY <1>3, SubSeqProperties
<1>5. Front(stk) = SubSeq(stk, 1, n)
  BY DEF Front
<1>6. 1 <= n \/ n = 0
  <2>1. \A k \in Nat \ {0} : 1 <= k - 1 \/ k - 1 = 0
    OBVIOUS
  <2> QED
    BY <1>1, <2>1
<1> HIDE DEF n
<1>7. /\ Front(stk) \in Seq(S)
      /\ Len(Front(stk)) = n
      /\ \A i \in 1 .. n : Front(stk)[i] = stk[i]
  BY <1>3, <1>4, <1>5, <1>6
<1> QED
  BY <1>1, <1>2, <1>7 DEF n

LEMMA StatusType ==
  ASSUME NEW s \in Status
  PROVE  /\ Fire(s) \in Status
         /\ Unfire(s) \in Status
BY DEF Status, Fire, Unfire, HasFired, Disabled, Pending, Fired

LEMMA NowType ==
  ASSUME TypeOK
  PROVE  StatusNow \in Status /\ ReturnsNow \in Seq(Address)
BY StatusType, LastFront DEF TypeOK, StatusNow, ReturnsNow, Back, AtTop

LEMMA ProgramCodeIs ==
  /\ ProgramCode \subseteq Address
  /\ ~shares_code => ProgramCode = MainCode
BY InterruptAssumption DEF ProgramCode, Address

LEMMA ExecuteType ==
  ASSUME TypeOK, Execute
  PROVE  pc' \in Address /\ frames' \in Seq(Address)
BY LastFront, ProgramCodeIs DEF TypeOK, Execute, Address

LEMMA StepType ==
  ASSUME TypeOK, Step, UNCHANGED setting
  PROVE  TypeOK'
<1>1. StatusNow \in Status /\ ReturnsNow \in Seq(Address)
  BY NowType
<1>2. CASE StepEntry
  BY <1>1, <1>2, LastFront, ExecuteType DEF StepEntry, setting, TypeOK, AtEntry, AtTop
<1>3. CASE StepDecline
  BY <1>1, <1>3, ExecuteType DEF StepDecline, setting, TypeOK
<1>4. ASSUME NEW h \in Handler, StepFire(h) PROVE TypeOK'
  BY <1>1, <1>4, StatusType, InterruptAssumption DEF StepFire, setting, TypeOK, Address
<1>5. CASE StepError
  BY <1>1, <1>5 DEF StepError, setting, TypeOK, guest
<1> QED
  BY <1>2, <1>3, <1>4, <1>5 DEF Step

LEMMA HostType ==
  ASSUME TypeOK, Disable \/ Enable, UNCHANGED setting
  PROVE  TypeOK'
<1>1. status' \in Status
  BY DEF Disable, Enable, TypeOK, Status, Disabled, Pending, Fired
<1> QED
  BY <1>1 DEF Disable, Enable, setting, TypeOK, guest

(* The status is one of its three cases, and a fired one counts at least   *)
(* one firing: unfire() never takes Fired(0) below zero.                   *)
THEOREM TypeCorrect == Spec => []TypeOK
<1>1. Init => TypeOK
  BY ProgramCodeIs DEF Init, TypeOK, Status
<1>2. TypeOK /\ [Next]_vars => TypeOK'
  <2> SUFFICES ASSUME TypeOK, [Next]_vars PROVE TypeOK'
    OBVIOUS
  <2>1. CASE Step
    BY <2>1, StepType DEF Next, vars, setting
  <2>2. CASE Disable \/ Enable
    BY <2>2, HostType DEF Next, vars, setting
  <2>3. CASE UNCHANGED vars
    BY <2>3 DEF vars, setting, TypeOK
  <2> QED
    BY <2>1, <2>2, <2>3 DEF Next
<1> QED
  BY <1>1, <1>2, PTL DEF Spec

-----------------------------------------------------------------------------
(* The status and the awaited returns.                                     *)

\* The invariant already holds of what is left after the pop.
LEMMA NowFromReturns ==
  ASSUME TypeOK, StatusFromReturns
  PROVE  StatusNow # Disabled =>
           StatusNow = IF ReturnsNow = <<>> THEN Pending ELSE Fired(Len(ReturnsNow))
<1>1. CASE ~Back
  BY <1>1 DEF StatusNow, ReturnsNow, StatusFromReturns
<1>2. CASE Back
  <2>1. returns_stack # <<>> /\ status # Disabled
    BY <1>2 DEF Back, AtTop, HasFired, Disabled
  <2>2. status = Fired(Len(returns_stack))
    BY <2>1 DEF StatusFromReturns
  <2>3. /\ Len(returns_stack) \in Nat \ {0}
        /\ Front(returns_stack) \in Seq(Address)
        /\ Len(Front(returns_stack)) = Len(returns_stack) - 1
    BY <2>1, LastFront DEF TypeOK
  <2>4. Front(returns_stack) = <<>> <=> Len(returns_stack) = 1
    BY <2>3, EmptySeq
  <2>5. Unfire(status) = IF Len(returns_stack) = 1 THEN Pending
                         ELSE Fired(Len(returns_stack) - 1)
    BY <2>2 DEF Unfire, HasFired, Fired
  <2> QED
    BY <1>2, <2>3, <2>4, <2>5 DEF StatusNow, ReturnsNow
<1> QED
  BY <1>1, <1>2

LEMMA StepFromReturns ==
  ASSUME TypeOK, StatusFromReturns, Step
  PROVE  StatusFromReturns'
<1>1. StatusNow # Disabled =>
        StatusNow = IF ReturnsNow = <<>> THEN Pending ELSE Fired(Len(ReturnsNow))
  BY NowFromReturns
<1>2. CASE StepEntry \/ StepDecline \/ StepError
  BY <1>1, <1>2 DEF StepEntry, StepDecline, StepError, StatusFromReturns
<1>3. ASSUME NEW h \in Handler, StepFire(h) PROVE StatusFromReturns'
  <2>1. StatusNow \in Status /\ ReturnsNow \in Seq(Address)
    BY NowType
  <2>2. returns_stack' # <<>> /\ Len(returns_stack') = Len(ReturnsNow) + 1
    <3>1. returns_stack' = Append(ReturnsNow, pc) /\ pc \in Address
      BY <1>3 DEF StepFire, TypeOK
    <3> QED
      BY <2>1, <3>1
  <2>3. CASE StatusNow = Disabled
    BY <1>3, <2>3 DEF StepFire, Fire, StatusFromReturns
  <2>4. CASE StatusNow # Disabled
    <3>1. StatusNow.times = Len(ReturnsNow)
      BY <1>1, <2>1, <2>4 DEF Pending, Fired
    <3> QED
      BY <1>3, <2>2, <2>4, <3>1 DEF StepFire, Fire, StatusFromReturns
  <2> QED
    BY <2>3, <2>4
<1> QED
  BY <1>2, <1>3 DEF Step

(* An enabled interrupt is pending exactly when no return is awaited, and  *)
(* otherwise counts them, whichever addresses the guest visits, however    *)
(* handlers nest and share code, and whenever the host disables it.        *)
THEOREM StatusNeverDrifts == Spec => []StatusFromReturns
<1>1. Init => StatusFromReturns
  BY DEF Init, StatusFromReturns
<1>2. TypeOK /\ StatusFromReturns /\ [Next]_vars => StatusFromReturns'
  <2> SUFFICES ASSUME TypeOK, StatusFromReturns, [Next]_vars
               PROVE  StatusFromReturns'
    OBVIOUS
  <2>1. CASE Step
    BY <2>1, StepFromReturns
  <2>2. CASE Disable
    BY <2>2 DEF Disable, StatusFromReturns
  <2>3. CASE Enable
    BY <2>3 DEF Enable, StatusFromReturns
  <2>4. CASE UNCHANGED vars
    BY <2>4 DEF vars, StatusFromReturns
  <2> QED
    BY <2>1, <2>2, <2>3, <2>4 DEF Next
<1> QED
  BY <1>1, <1>2, TypeCorrect, PTL DEF Spec
-----------------------------------------------------------------------------
(* What the wrapper infers about the guest, when the handlers share no     *)
(* code with the program.                                                  *)

\* While a handler runs, a return to the program is awaited: it was pushed
\* when the outermost handler was branched to, and no running handler visits
\* its address.  Above it there may be returns to handlers, and below it
\* returns that came while the interrupt was disabled.
Awaited(stk) == \E i \in 1 .. Len(stk) : stk[i] \in MainCode

Layout ==
  ~shares_code =>
    /\ frames = <<>> => pc \in MainCode
    /\ frames # <<>> => pc \in HandlerCode /\ frames[1] \in MainCode
    /\ frames # <<>> => Awaited(returns_stack)
    /\ \A i \in 2 .. Len(frames) : frames[i] \in HandlerCode

LEMMA AwaitedSome ==
  ASSUME NEW stk \in Seq(Address), Awaited(stk)
  PROVE  stk # <<>>
BY DEF Awaited

LEMMA NowAwaited ==
  ASSUME TypeOK, ~shares_code, Layout, frames # <<>>
  PROVE  Awaited(ReturnsNow) /\ ReturnsNow # <<>>
<1> SUFFICES Awaited(ReturnsNow)
  BY DEF Awaited
<1>1. Awaited(returns_stack) /\ pc \notin MainCode
  BY InterruptAssumption DEF Layout
<1>2. CASE ~Back
  BY <1>1, <1>2 DEF ReturnsNow
<1>3. CASE Back
  <2>1. returns_stack # <<>> /\ Last(returns_stack) = pc
    BY <1>3 DEF Back, AtTop
  <2>2. /\ Len(returns_stack) \in Nat \ {0}
        /\ Last(returns_stack) = returns_stack[Len(returns_stack)]
        /\ Len(Front(returns_stack)) = Len(returns_stack) - 1
        /\ \A i \in 1 .. Len(returns_stack) - 1 : Front(returns_stack)[i] = returns_stack[i]
    BY <2>1, LastFront DEF TypeOK
  <2>3. PICK i \in 1 .. Len(returns_stack) : returns_stack[i] \in MainCode
    BY <1>1 DEF Awaited
  <2>4. i # Len(returns_stack)
    BY <1>1, <2>1, <2>2, <2>3
  <2>5. i \in 1 .. Len(returns_stack) - 1
    BY <2>2, <2>4
  <2> QED
    BY <1>3, <2>2, <2>3, <2>5 DEF ReturnsNow, Awaited
<1> QED
  BY <1>2, <1>3

LEMMA ExecuteLayout ==
  ASSUME TypeOK, ~shares_code, Layout, Execute
  PROVE  /\ frames' = <<>> => pc' \in MainCode
         /\ frames' # <<>> => pc' \in HandlerCode /\ frames'[1] \in MainCode
         /\ frames' # <<>> => frames # <<>>
         /\ \A i \in 2 .. Len(frames') : frames'[i] \in HandlerCode
<1>1. CASE /\ pc' \in IF frames = <<>> THEN MainCode ELSE HandlerCode
           /\ frames' = frames
  BY <1>1 DEF Layout
<1>2. CASE frames # <<>> /\ pc' = Last(frames) /\ frames' = Front(frames)
  <2>1. /\ Len(frames) \in Nat \ {0}
        /\ Last(frames) = frames[Len(frames)]
        /\ Front(frames) \in Seq(Address)
        /\ Len(Front(frames)) = Len(frames) - 1
        /\ \A i \in 1 .. Len(frames) - 1 : Front(frames)[i] = frames[i]
    BY <1>2, LastFront DEF TypeOK
  <2>2. Front(frames) = <<>> <=> Len(frames) = 1
    BY <2>1, EmptySeq
  <2>3. Len(frames) # 1 => /\ 1 \in 1 .. Len(frames) - 1
                           /\ Len(frames) \in 2 .. Len(frames)
    <3>1. \A k \in Nat \ {0} : k # 1 => 1 \in 1 .. k - 1 /\ k \in 2 .. k
      OBVIOUS
    <3> QED
      BY <2>1, <3>1
  <2>4. \A i \in 2 .. Len(frames) - 1 : i \in 1 .. Len(frames) - 1 /\ i \in 2 .. Len(frames)
    BY <2>1
  <2> QED
    BY <1>2, <2>1, <2>2, <2>3, <2>4 DEF Layout
<1> QED
  BY <1>1, <1>2, ProgramCodeIs DEF Execute

LEMMA StepLayout ==
  ASSUME TypeOK, ~shares_code, Layout, Step
  PROVE  Layout'
<1>1. frames # <<>> => Awaited(ReturnsNow)
  BY NowAwaited
<1>2. CASE StepEntry \/ StepDecline
  <2>1. returns_stack' = ReturnsNow /\ Execute
    BY <1>2 DEF StepEntry, StepDecline
  <2>2. frames' # <<>> => Awaited(returns_stack')
    BY <1>1, <2>1, ExecuteLayout
  <2> QED
    BY <2>1, <2>2, ExecuteLayout DEF Layout, Awaited
<1>3. ASSUME NEW h \in Handler, StepFire(h) PROVE Layout'
  <2>1. ReturnsNow \in Seq(Address) /\ frames \in Seq(Address) /\ pc \in Address
    BY NowType DEF TypeOK
  <2>2. returns_stack' = Append(ReturnsNow, pc) /\ frames' = Append(frames, pc)
    BY <1>3 DEF StepFire
  <2>3. Awaited(returns_stack')
    <3>1. /\ Len(returns_stack') = Len(ReturnsNow) + 1 /\ Len(ReturnsNow) \in Nat
          /\ \A i \in 1 .. Len(ReturnsNow) : returns_stack'[i] = ReturnsNow[i]
          /\ returns_stack'[Len(ReturnsNow) + 1] = pc
      BY <2>1, <2>2, AppendProperties
    <3>2. CASE frames # <<>>
      <4>1. PICK i \in 1 .. Len(ReturnsNow) : ReturnsNow[i] \in MainCode
        BY <1>1, <3>2 DEF Awaited
      <4> QED
        BY <3>1, <4>1 DEF Awaited
    <3>3. CASE frames = <<>>
      BY <3>1, <3>3 DEF Awaited, Layout
    <3> QED
      BY <3>2, <3>3
  <2>4. frames' # <<>> /\ frames'[1] = IF frames = <<>> THEN pc ELSE frames[1]
    BY <2>1, <2>2
  <2>5. \A i \in 2 .. Len(frames') : frames'[i] \in HandlerCode
    <3> SUFFICES ASSUME NEW i \in 2 .. Len(frames') PROVE frames'[i] \in HandlerCode
      OBVIOUS
    <3>1. CASE i \in 2 .. Len(frames)
      BY <2>1, <2>2, <3>1 DEF Layout
    <3>2. CASE i \notin 2 .. Len(frames)
      <4>1. i = Len(frames) + 1 /\ frames # <<>>
        BY <2>1, <2>2, <3>2
      <4> QED
        BY <2>1, <2>2, <4>1 DEF Layout
    <3> QED
      BY <3>1, <3>2
  <2>6. pc' \in HandlerCode
    BY <1>3, InterruptAssumption DEF StepFire
  <2> QED
    BY <2>3, <2>4, <2>5, <2>6 DEF Layout, Awaited
<1>4. CASE StepError
  BY <1>1, <1>4 DEF StepError, Layout, Awaited, guest
<1> QED
  BY <1>2, <1>3, <1>4 DEF Step

THEOREM LayoutHolds == Spec => []Layout
<1>1. Init => Layout
  BY ProgramCodeIs DEF Init, Layout
<1>2. TypeOK /\ Layout /\ [Next]_vars => Layout'
  <2> SUFFICES ASSUME TypeOK, Layout, [Next]_vars, ~shares_code PROVE Layout'
    BY DEF Layout, Next, vars, setting
  <2>1. CASE Step
    BY <2>1, StepLayout
  <2>2. CASE Disable \/ Enable \/ UNCHANGED vars
    BY <2>2 DEF Disable, Enable, vars, setting, guest, Layout, Awaited
  <2> QED
    BY <2>1, <2>2 DEF Next
<1> QED
  BY <1>1, <1>2, TypeCorrect, PTL DEF Spec

(* While any handler runs and the interrupt is not disabled, the wrapper   *)
(* says that it fired: fire() is given a positive count, for every nesting *)
(* of handlers that share code with each other and however often the host  *)
(* disabled and enabled the interrupt before or meanwhile.                 *)
THEOREM RunningIsKnown == Spec => []RunningIsFired
<1>1. TypeOK /\ StatusFromReturns /\ Layout => RunningIsFired
  BY AwaitedSome DEF TypeOK, StatusFromReturns, Layout, RunningIsFired, HasFired, Fired
<1> QED
  BY <1>1, TypeCorrect, LayoutHolds, StatusNeverDrifts, PTL

-----------------------------------------------------------------------------
(* The first step of a handler fires nothing, while the host leaves the    *)
(* interrupt enabled.                                                      *)

Undisturbed == ~host_disables => status # Disabled

\* A handler not yet entered is the only one, and pc is its first address.
Entering ==
  ~shares_code /\ ~host_disables => handler_stack = <<>> \/ (handler_stack = <<pc>> /\ frames # <<>>)

LEMMA NowUndisturbed ==
  ASSUME TypeOK, Undisturbed, ~host_disables
  PROVE  StatusNow # Disabled
BY DEF Undisturbed, StatusNow, Back, Unfire, HasFired, Disabled, Pending, Fired

THEOREM UndisturbedHolds == Spec => []Undisturbed
<1>1. Init => Undisturbed
  BY DEF Init, Undisturbed, Pending, Disabled
<1>2. TypeOK /\ Undisturbed /\ [Next]_vars => Undisturbed'
  <2> SUFFICES ASSUME TypeOK, Undisturbed, [Next]_vars, ~host_disables
               PROVE  status' # Disabled
    BY DEF Undisturbed, Next, vars, setting
  <2>1. StatusNow # Disabled /\ status # Disabled
    BY NowUndisturbed DEF Undisturbed
  <2>2. ASSUME NEW h \in Handler, StepFire(h) PROVE status' # Disabled
    BY <2>1, <2>2 DEF StepFire, Fire, Fired, Disabled
  <2> QED
    BY <2>1, <2>2 DEF Next, Step, StepEntry, StepDecline, StepError, Disable, Enable, vars
<1> QED
  BY <1>1, <1>2, TypeCorrect, PTL DEF Spec

LEMMA EntryRecognised ==
  ASSUME TypeOK, StatusFromReturns, ~shares_code, Layout, Undisturbed, Entering,
         ~host_disables, handler_stack # <<>>
  PROVE  AtEntry /\ Front(handler_stack) = <<>>
<1>1. handler_stack = <<pc>> /\ frames # <<>>
  BY DEF Entering
<1>2. StatusNow # Disabled /\ ReturnsNow # <<>>
  BY <1>1, NowUndisturbed, NowAwaited
<1>3. HasFired(StatusNow)
  BY <1>2, NowFromReturns DEF HasFired, Fired
<1>4. Len(handler_stack) = 1 /\ handler_stack[1] = pc
  BY <1>1
<1>5. Last(handler_stack) = pc
  BY <1>4 DEF Last
<1>6. Front(handler_stack) \in Seq(Handler) /\ Len(Front(handler_stack)) = 0
  BY <1>4, LastFront DEF TypeOK
<1> QED
  BY <1>3, <1>5, <1>6, EmptySeq DEF AtEntry, AtTop

LEMMA NextEntering ==
  ASSUME TypeOK, StatusFromReturns, Layout, Undisturbed, Entering, [Next]_vars
  PROVE  Entering'
<1> SUFFICES ASSUME ~shares_code, ~host_disables
             PROVE  handler_stack' = <<>> \/ (handler_stack' = <<pc'>> /\ frames' # <<>>)
  BY DEF Entering, Next, vars, setting
<1>0. handler_stack = <<>> \/ (handler_stack = <<pc>> /\ frames # <<>>)
  BY DEF Entering
<1>1. CASE StepEntry
  BY <1>1, EntryRecognised DEF StepEntry, AtEntry, AtTop
<1>2. CASE StepDecline \/ StepError
  BY <1>0, <1>2, EntryRecognised DEF StepDecline, StepError
<1>3. ASSUME NEW h \in Handler, StepFire(h)
      PROVE  handler_stack' = <<pc'>> /\ frames' # <<>>
  <2>1. handler_stack = <<>>
    BY <1>3, EntryRecognised DEF StepFire
  <2>2. handler_stack' = <<h>> /\ pc' = h
    BY <1>3, <2>1 DEF StepFire
  <2>3. frames' # <<>>
    BY <1>3 DEF StepFire, TypeOK
  <2> QED
    BY <2>2, <2>3
<1>4. ~Disable /\ ~Enable
  BY DEF Disable, Enable
<1>5. CASE UNCHANGED vars
  BY <1>0, <1>5 DEF vars
<1> QED
  BY <1>1, <1>2, <1>3, <1>4, <1>5 DEF Next, Step

THEOREM EnteringHolds == Spec => []Entering
<1>1. Init => Entering
  BY DEF Init, Entering
<1>2. TypeOK /\ StatusFromReturns /\ Layout /\ Undisturbed /\ Entering /\ [Next]_vars
        => Entering'
  BY NextEntering
<1> QED
  BY <1>1, <1>2, TypeCorrect, StatusNeverDrifts, LayoutHolds, UndisturbedHolds, PTL DEF Spec

(* A handler that was branched to executes its first instruction before    *)
(* the interrupt fires again, however the handlers nest and loop.          *)
THEOREM EntryNeverNested == Spec => EntryExecutes
<1>1. TypeOK /\ StatusFromReturns /\ Layout /\ Undisturbed /\ Entering /\ [Next]_vars =>
        [~shares_code /\ ~host_disables /\ handler_stack # <<>> => \A h \in Handler : ~StepFire(h)]_vars
  BY EntryRecognised DEF StepFire
<1> QED
  BY <1>1, TypeCorrect, StatusNeverDrifts, LayoutHolds, UndisturbedHolds, EnteringHolds, PTL
     DEF Spec, EntryExecutes
-----------------------------------------------------------------------------
(* An interrupt that heeds its count is tracked exactly.                   *)

Heeds == FiresAt = {0}

AtMostOne ==
  \/ frames = <<>> /\ returns_stack = <<>>
  \/ frames = <<>> /\ returns_stack = <<pc>>
  \/ Len(frames) = 1 /\ returns_stack = frames

LEMMA OneEntry ==
  ASSUME NEW a
  PROVE  Last(<<a>>) = a /\ Front(<<a>>) = <<>> /\ <<a>> # <<>>
<1>1. Len(<<a>>) = 1 /\ <<a>>[1] = a /\ <<a>> # <<>>
  OBVIOUS
<1>2. Len(<<a>>) - 1 = 0
  BY <1>1
<1>3. Front(<<a>>) = SubSeq(<<a>>, 1, 0)
  BY <1>2 DEF Front
<1> QED
  BY <1>1, <1>3, SubSeqEmpty DEF Last

LEMMA NextAtMostOne ==
  ASSUME TypeOK, StatusFromReturns, ~shares_code, Heeds, Layout, Undisturbed, AtMostOne,
         ~host_disables, [Next]_vars
  PROVE  AtMostOne'
<1>1. ~Disable /\ ~Enable
  BY DEF Disable, Enable
<1>2. CASE frames = <<>>
  <2>1. ReturnsNow = <<>>
    <3>1. CASE returns_stack = <<pc>>
      <4>1. status = Fired(1)
        BY <3>1 DEF StatusFromReturns, Undisturbed
      <4>2. Back
        BY <3>1, <4>1, OneEntry DEF Back, AtTop, HasFired, Fired
      <4> QED
        BY <3>1, <4>2, OneEntry DEF ReturnsNow
    <3>2. CASE returns_stack = <<>>
      BY <3>2 DEF ReturnsNow, Back, AtTop
    <3> QED
      BY <1>2, <3>1, <3>2 DEF AtMostOne
  <2>2. CASE StepEntry \/ StepDecline
    BY <1>2, <2>1, <2>2 DEF StepEntry, StepDecline, Execute, AtMostOne
  <2>3. ASSUME NEW h \in Handler, StepFire(h) PROVE AtMostOne'
    <3>1. returns_stack' = <<pc>> /\ frames' = <<pc>>
      BY <1>2, <2>1, <2>3 DEF StepFire
    <3> QED
      BY <3>1 DEF AtMostOne
  <2>4. CASE StepError
    BY <1>2, <2>1, <2>4 DEF StepError, AtMostOne, guest
  <2>5. CASE UNCHANGED vars
    BY <2>5 DEF vars, AtMostOne
  <2> QED
    BY <1>1, <2>2, <2>3, <2>4, <2>5 DEF Next, Step
<1>3. CASE frames # <<>>
  <2>1. Len(frames) = 1 /\ returns_stack = frames
    BY <1>3 DEF AtMostOne
  <2>2. PICK a \in Address : frames = <<a>>
    <3>1. frames \in Seq(Address)
      BY DEF TypeOK
    <3>2. frames[1] \in Address /\ frames = <<frames[1]>>
      BY <2>1, <3>1
    <3> QED
      BY <3>2
  <2>3. a \in MainCode /\ pc \in HandlerCode
    BY <1>3, <2>2 DEF Layout
  <2>4. ~Back
    BY <2>1, <2>2, <2>3, OneEntry, InterruptAssumption DEF Back, AtTop
  <2>5. ReturnsNow = <<a>> /\ StatusNow = Fired(1)
    <3>1. status = Fired(1)
      BY <1>3, <2>1 DEF StatusFromReturns, Undisturbed
    <3> QED
      BY <2>1, <2>2, <2>4, <3>1 DEF ReturnsNow, StatusNow
  <2>6. CASE StepEntry \/ StepDecline
    <3>1. returns_stack' = <<a>> /\ Execute
      BY <2>5, <2>6 DEF StepEntry, StepDecline
    <3>2. CASE frames' = frames
      BY <2>1, <2>2, <3>1, <3>2 DEF AtMostOne
    <3>3. CASE pc' = Last(frames) /\ frames' = Front(frames)
      BY <2>2, <3>1, <3>3, OneEntry DEF AtMostOne
    <3> QED
      BY <3>1, <3>2, <3>3 DEF Execute
  <2>7. \A h \in Handler : ~StepFire(h)
    BY <2>5 DEF StepFire, Told, Fired, Heeds
  <2>8. CASE StepError
    BY <2>1, <2>2, <2>5, <2>8 DEF StepError, AtMostOne, guest
  <2>9. CASE UNCHANGED vars
    BY <2>9 DEF vars, AtMostOne
  <2> QED
    BY <1>1, <2>6, <2>7, <2>8, <2>9 DEF Next, Step
<1> QED
  BY <1>2, <1>3

(* The returns the wrapper awaits are the frames of the handlers that run, *)
(* up to the one that has just returned, while the host leaves it enabled: *)
(* the wrapper's reading of bare addresses is exact.                       *)
THEOREM TrackingIsExact ==
  ASSUME Heeds
  PROVE  Spec => []TracksGuest
<1> DEFINE Inv == ~shares_code /\ ~host_disables => AtMostOne
<1>1. Init => Inv
  BY DEF Init, AtMostOne
<1>2. TypeOK /\ StatusFromReturns /\ Layout /\ Undisturbed /\ Inv /\ [Next]_vars => Inv'
  <2>1. [Next]_vars => UNCHANGED <<host_disables, shares_code>>
    BY DEF Next, vars, setting
  <2> QED
    BY <2>1, NextAtMostOne
<1>3. Inv => TracksGuest
  <2>1. Append(<<>>, pc) = <<pc>>
    OBVIOUS
  <2> QED
    BY <2>1 DEF AtMostOne, TracksGuest
<1> QED
  BY <1>1, <1>2, <1>3, TypeCorrect, StatusNeverDrifts, LayoutHolds, UndisturbedHolds, PTL DEF Spec
=============================================================================
