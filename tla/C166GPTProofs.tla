---------------------------- MODULE C166GPTProofs ----------------------------
(***************************************************************************)
(* Theorems about C166GPT, for every width of the counter and every set of *)
(* stores.                                                                 *)
(***************************************************************************)
EXTENDS C166GPT, CompareMatchTimerProofs, TLAPS

\* The firmware never stores the compare value.
NoFullCount == HalfModulus - 1 \notin WordStores

\* What the firmware cannot change, because no register is bound to it.
Configured ==
  /\ backend_cmt6.compare_against = HalfModulus - 1
  /\ backend_cmt6.count_forward = TRUE
  /\ backend_cmt6.reset_on_match = TRUE

LEMMA Moduli ==
  /\ HalfModulus \in Nat /\ HalfModulus > 3
  /\ ByteModulus \in Nat /\ ByteModulus <= HalfModulus - 1
  /\ WordModulus \in Nat /\ HalfModulus <= WordModulus
  /\ TickModulus \in Nat /\ HalfModulus <= TickModulus
<1>1. ByteModulus \in Nat /\ ByteModulus >= 2
  BY C166Assumption
<1>2. ByteModulus * ByteModulus >= 2 * ByteModulus
  BY <1>1
<1>3. HalfModulus \in Nat /\ HalfModulus >= 2 * ByteModulus
  BY <1>1, <1>2 DEF HalfModulus
<1>4. HalfModulus * HalfModulus >= HalfModulus
  BY <1>1, <1>3
<1> QED
  BY <1>1, <1>3, <1>4, C166Assumption, TickModulusAssumption DEF WordModulus

-----------------------------------------------------------------------------
LEMMA ControlType ==
  ASSUME TypeOK, NEW run \in BOOLEAN, NEW toggle \in BOOLEAN
  PROVE  ControlWritten(run, toggle) \in Timer
<1>1. \A b : Bit(b) \in Tick128
  BY TickModulusAssumption DEF Bit, Tick128
<1> QED
  BY <1>1, RegWriteType DEF ControlWritten, TypeOK

LEMMA CountType ==
  ASSUME TypeOK, NEW word \in Half
  PROVE  CountWritten(word) \in Timer
<1>1. word \in Tick128 /\ 0 \in Tick128
  BY Moduli DEF Half, Tick128
<1> QED
  BY <1>1, RegWriteType DEF CountWritten, TypeOK

LEMMA CountIs ==
  ASSUME TypeOK, NEW word \in Half
  PROVE  /\ CountWritten(word).current_tick = word
         /\ CountWritten(word).compare_against = backend_cmt6.compare_against
<1>1. CASE word = 0
  BY <1>1 DEF CountWritten, RegWrite, ApplyClear, SetBy, Timer, TypeOK
<1>2. CASE word # 0
  BY <1>2 DEF CountWritten, RegWrite, ApplySet, SetBy, Timer, TypeOK
<1> QED
  BY <1>1, <1>2

LEMMA ByteHalves ==
  ASSUME TypeOK, NEW byte \in Byte
  PROVE  /\ byte \in Half
         /\ LowReplaced(byte) \in Half
         /\ byte * ByteModulus + (t6 % ByteModulus) \in Half
<1> DEFINE B == ByteModulus
           q == t6 \div B
           r == t6 % B
<1>1. /\ B \in Nat /\ B > 1 /\ HalfModulus = B * B
      /\ t6 \in Nat /\ t6 < B * B /\ byte \in Nat /\ byte < B
  BY C166Assumption, Moduli DEF HalfModulus, Half, Byte, TypeOK
<1>2. q \in Nat /\ r \in Nat /\ r < B /\ t6 = B * q + r
  BY <1>1
<1>3. q < B
  <2> SUFFICES ASSUME q >= B PROVE FALSE
    BY <1>1, <1>2
  <2>1. B * q >= B * B
    BY <1>1, <1>2
  <2> QED
    BY <1>1, <1>2, <2>1
<1>4. \A x, y \in Nat : x < B /\ y < B => x * B + y \in 0 .. B * B - 1
  <2> SUFFICES ASSUME NEW x \in Nat, NEW y \in Nat, x < B, y < B
               PROVE  x * B + y \in 0 .. B * B - 1
    OBVIOUS
  <2>1. x * B <= (B - 1) * B /\ x * B \in Nat
    BY <1>1
  <2>2. (B - 1) * B = B * B - B /\ B * B \in Nat
    BY <1>1
  <2> QED
    BY <1>1, <2>1, <2>2
<1>5. byte \in Half
  BY <1>1, Moduli DEF Half
<1>6. q * B + byte \in Half
  BY <1>1, <1>2, <1>3, <1>4 DEF Half
<1>7. byte * B + r \in Half
  BY <1>1, <1>2, <1>4 DEF Half
<1> QED
  BY <1>5, <1>6, <1>7 DEF LowReplaced

(* Registers and timer keep their types, also past the compare value.      *)
THEOREM TypeCorrect == Spec => []TypeOK
<1>1. Init => TypeOK
  <2>1. 0 \in Tick128 /\ HalfModulus - 1 \in Tick128 /\ 0 \in Half
    BY Moduli DEF Tick128, Half
  <2> QED
    <3>1. DefaultTimer \in Timer
      BY <2>1 DEF DefaultTimer, Timer
    <3>2. NewTimer6 \in Timer
      BY <2>1, <3>1 DEF NewTimer6, Timer
    <3>3. [run |-> FALSE, toggle |-> FALSE] \in ControlBits
      BY DEF ControlBits
    <3> QED
      BY <2>1, <3>2, <3>3 DEF Init, TypeOK
<1>2. TypeOK /\ [Next]_vars => TypeOK'
  <2> SUFFICES ASSUME TypeOK, [Next]_vars PROVE TypeOK'
    OBVIOUS
  <2>1. CASE Step
    BY <2>1, TickType DEF Step, TypeOK
  <2>2. CASE LoadT6CON
    <3>1. [run |-> backend_cmt6.counter_start, toggle |-> backend_cmt6.match_toggle]
            \in ControlBits
      BY DEF TypeOK, Timer, ControlBits
    <3> QED
      BY <2>2, <3>1 DEF LoadT6CON, TypeOK
  <2>3. CASE LoadT6
    <3>1. backend_cmt6.current_tick % HalfModulus \in Half
      BY Moduli DEF TypeOK, Timer, Tick128, Half
    <3> QED
      BY <2>3, <3>1 DEF LoadT6, LoadCount, TypeOK
  <2>4. ASSUME NEW written \in Timer, Hooked(written)
        PROVE  backend_cmt6' \in Timer /\ interrupt' \in BOOLEAN
    BY <2>4 DEF Hooked, Timer
  <2>5. ASSUME NEW run \in BOOLEAN, NEW toggle \in BOOLEAN, StoreT6CON(run, toggle)
        PROVE  TypeOK'
    BY <2>4, <2>5, ControlType DEF StoreT6CON, TypeOK, ControlBits
  <2>6. ASSUME NEW run \in BOOLEAN, StoreT6CONLow(run)
        PROVE  TypeOK'
    BY <2>4, <2>6, ControlType DEF StoreT6CONLow, TypeOK, ControlBits
  <2>7. ASSUME NEW toggle \in BOOLEAN, StoreT6CONHigh(toggle)
        PROVE  TypeOK'
    BY <2>7 DEF StoreT6CONHigh, TypeOK, ControlBits
  <2>8. ASSUME NEW word \in WordStores, StoreT6(word)
        PROVE  TypeOK'
    <3>1. word \in Half
      BY C166Assumption
    <3> QED
      BY <2>4, <2>8, <3>1, CountType DEF StoreT6, TypeOK
  <2>9. ASSUME NEW byte \in ByteStores, StoreT6Low(byte) \/ StoreT6High(byte)
        PROVE  TypeOK'
    <3>1. byte \in Byte
      BY C166Assumption
    <3>2. /\ byte \in Half /\ LowReplaced(byte) \in Half
          /\ byte * ByteModulus + (t6 % ByteModulus) \in Half
      BY <3>1, ByteHalves
    <3>3. CASE StoreT6Low(byte)
      BY <2>4, <3>2, <3>3, CountType DEF StoreT6Low, TypeOK
    <3>4. CASE StoreT6High(byte)
      BY <3>2, <3>4 DEF StoreT6High, TypeOK
    <3> QED
      BY <2>9, <3>3, <3>4
  <2>10. CASE UNCHANGED vars
    BY <2>10 DEF vars, TypeOK
  <2> QED
    BY <2>1, <2>2, <2>3, <2>5, <2>6, <2>7, <2>8, <2>9, <2>10 DEF Next, Access
<1> QED
  BY <1>1, <1>2, PTL DEF Spec
-----------------------------------------------------------------------------
\* A tick below the compare value stays below it: the match resets.
LEMMA TickBelow ==
  ASSUME TypeOK, Configured, WithinPeriod, Step
  PROVE  Configured' /\ WithinPeriod'
<1> DEFINE t == backend_cmt6
<1>1. /\ t.current_tick \in Nat /\ t.current_tick < HalfModulus - 1
      /\ HalfModulus <= TickModulus /\ HalfModulus \in Nat /\ TickModulus \in Nat
      /\ HalfModulus > 3
  BY Moduli DEF TypeOK, Timer, Tick128, WithinPeriod, Configured
<1>2. NextTick(t) = t.current_tick + 1
  BY <1>1 DEF NextTick, Configured
<1>3. /\ Tick(t).compare_against = t.compare_against
      /\ Tick(t).count_forward = t.count_forward
      /\ Tick(t).reset_on_match = t.reset_on_match
  BY TickConfiguration DEF TypeOK
<1>4. Tick(t).current_tick < HalfModulus - 1
  <2>1. CASE TickMatches(t)
    BY <1>1, <2>1 DEF Tick, Configured, TypeOK, Timer
  <2>2. CASE ~TickMatches(t) /\ t.counter_start
    BY <1>1, <1>2, <2>2 DEF Tick, TickMatches, Configured, TypeOK, Timer
  <2>3. CASE ~TickMatches(t) /\ ~t.counter_start
    BY <1>1, <2>3 DEF Tick, TypeOK, Timer
  <2> QED
    BY <2>1, <2>2, <2>3
<1> QED
  BY <1>3, <1>4 DEF Step, Configured, WithinPeriod

\* A store to the control register leaves the counter alone.
LEMMA ControlKeeps ==
  ASSUME TypeOK, NEW run \in BOOLEAN, NEW toggle \in BOOLEAN
  PROVE  LET w == ControlWritten(run, toggle)
         IN  /\ w.current_tick = backend_cmt6.current_tick
             /\ w.compare_against = backend_cmt6.compare_against
             /\ w.count_forward = backend_cmt6.count_forward
             /\ w.reset_on_match = backend_cmt6.reset_on_match
<1>1. \A b : Bit(b) \in Tick128
  BY TickModulusAssumption DEF Bit, Tick128
<1> DEFINE w == RegWrite(backend_cmt6, "set_enable", Bit(run), Bit(run))
<1>2. w \in Timer
  BY <1>1, RegWriteType DEF TypeOK
<1>3. /\ w.current_tick = backend_cmt6.current_tick
      /\ w.compare_against = backend_cmt6.compare_against
      /\ w.count_forward = backend_cmt6.count_forward
      /\ w.reset_on_match = backend_cmt6.reset_on_match
  BY RegWriteBit DEF TypeOK
<1> QED
  BY <1>2, <1>3, RegWriteBit DEF ControlWritten

LEMMA CountKeeps ==
  ASSUME TypeOK, NEW word \in Half
  PROVE  /\ CountWritten(word).count_forward = backend_cmt6.count_forward
         /\ CountWritten(word).reset_on_match = backend_cmt6.reset_on_match
<1>1. CASE word = 0
  BY <1>1 DEF CountWritten, RegWrite, ApplyClear, SetBy, Timer, TypeOK
<1>2. CASE word # 0
  BY <1>2 DEF CountWritten, RegWrite, ApplySet, SetBy, Timer, TypeOK
<1> QED
  BY <1>1, <1>2

\* A store into T6 that is not the compare value is below it.
LEMMA CountBelow ==
  ASSUME TypeOK, Configured, WithinPeriod,
         NEW word \in Half, word # HalfModulus - 1,
         Hooked(CountWritten(word)), UNCHANGED panicked
  PROVE  Configured' /\ WithinPeriod'
<1>1. word < HalfModulus - 1
  BY Moduli DEF Half
<1>2. /\ backend_cmt6'.current_tick = word
      /\ backend_cmt6'.compare_against = backend_cmt6.compare_against
      /\ backend_cmt6'.count_forward = backend_cmt6.count_forward
      /\ backend_cmt6'.reset_on_match = backend_cmt6.reset_on_match
  BY CountIs, CountKeeps DEF Hooked
<1> QED
  BY <1>1, <1>2 DEF Configured, WithinPeriod

\* No step reconfigures the timer.
LEMMA StaysConfigured ==
  ASSUME TypeOK, Configured, [Next]_vars
  PROVE  Configured'
<1>1. CASE Step
  BY <1>1, TickConfiguration DEF Step, Configured, TypeOK
<1>2. CASE LoadT6CON \/ LoadT6
  BY <1>2 DEF LoadT6CON, LoadT6, LoadCount, Configured
<1>3. ASSUME NEW run \in BOOLEAN, NEW toggle \in BOOLEAN,
             Hooked(ControlWritten(run, toggle))
      PROVE  Configured'
  BY <1>3, ControlKeeps DEF Hooked, Configured
<1>4. ASSUME NEW word \in Half, Hooked(CountWritten(word))
      PROVE  Configured'
  BY <1>4, CountIs, CountKeeps DEF Hooked, Configured
<1>5. ASSUME NEW toggle, StoreT6CONHigh(toggle)
      PROVE  Configured'
  BY <1>5 DEF StoreT6CONHigh, Configured
<1>6. ASSUME NEW word \in WordStores, StoreT6(word)
      PROVE  Configured'
  BY <1>4, <1>6, C166Assumption DEF StoreT6
<1>7. ASSUME NEW byte \in ByteStores, StoreT6Low(byte)
      PROVE  Configured'
  BY <1>4, <1>7, ByteHalves, C166Assumption DEF StoreT6Low
<1>8. ASSUME NEW byte, StoreT6High(byte)
      PROVE  Configured'
  BY <1>8 DEF StoreT6High, Configured
<1>9. CASE UNCHANGED vars
  BY <1>9 DEF vars, Configured
<1> QED
  BY <1>1, <1>2, <1>3, <1>5, <1>6, <1>7, <1>8, <1>9
  DEF Next, Access, StoreT6CON, StoreT6CONLow

LEMMA StaysWithinPeriod ==
  ASSUME TypeOK, Configured, WithinPeriod, [Next]_vars
  PROVE  \/ WithinPeriod'
         \/ HalfModulus - 1 \in WordStores /\ StoreT6(HalfModulus - 1)
<1>1. CASE Step
  BY <1>1, TickBelow
<1>2. CASE LoadT6CON
  BY <1>2 DEF LoadT6CON, WithinPeriod
<1>3. CASE LoadT6
  <2>1. backend_cmt6.current_tick < WordModulus
    BY Moduli DEF WithinPeriod, Configured, TypeOK, Timer, Tick128
  <2> QED
    BY <1>3, <2>1 DEF LoadT6, LoadCount, WithinPeriod
<1>4. ASSUME NEW run \in BOOLEAN, NEW toggle \in BOOLEAN,
             Hooked(ControlWritten(run, toggle)), UNCHANGED panicked
      PROVE  WithinPeriod'
  BY <1>4, ControlKeeps DEF Hooked, WithinPeriod
<1>5. ASSUME NEW word \in WordStores, StoreT6(word), word # HalfModulus - 1
      PROVE  WithinPeriod'
  <2>1. word \in Half
    BY C166Assumption
  <2> QED
    BY <1>5, <2>1, CountBelow DEF StoreT6
<1>6. ASSUME NEW byte \in ByteStores, StoreT6Low(byte)
      PROVE  WithinPeriod'
  <2>1. byte \in Half /\ byte # HalfModulus - 1
    BY C166Assumption, ByteHalves, Moduli DEF Byte
  <2> QED
    BY <1>6, <2>1, CountBelow DEF StoreT6Low
<1>7. ASSUME NEW byte, StoreT6High(byte)
      PROVE  WithinPeriod'
  BY <1>7 DEF StoreT6High, WithinPeriod
<1>8. ASSUME NEW toggle, StoreT6CONHigh(toggle)
      PROVE  WithinPeriod'
  BY <1>8 DEF StoreT6CONHigh, WithinPeriod
<1>9. CASE UNCHANGED vars
  BY <1>9 DEF vars, WithinPeriod
<1> QED
  BY <1>1, <1>2, <1>3, <1>4, <1>5, <1>6, <1>7, <1>8, <1>9
  DEF Next, Access, StoreT6CON, StoreT6CONLow

THEOREM ConfigurationKept == Spec => []Configured
<1>1. Init => Configured
  BY DEF Init, NewTimer6, DefaultTimer, Configured
<1> QED
  BY <1>1, StaysConfigured, TypeCorrect, PTL DEF Spec

(* A step out of the period is the store of the compare value into T6.     *)
THEOREM FullCountAlone == Spec => OnlyFullCountOvershoots
<1>1. TypeOK /\ Configured /\ [Next]_vars
        => [WithinPeriod => WithinPeriod' \/ StoreT6(HalfModulus - 1)]_vars
  BY StaysWithinPeriod
<1> QED
  BY <1>1, TypeCorrect, ConfigurationKept, PTL DEF Spec, OnlyFullCountOvershoots

(* A firmware that does not store the compare value keeps the counter      *)
(* below it, so that every period ends with a match, and no load panics.   *)
THEOREM CounterNeverOvershoots ==
  ASSUME NoFullCount
  PROVE  Spec => []WithinPeriod
<1>1. Init => WithinPeriod
  BY Moduli DEF Init, NewTimer6, DefaultTimer, WithinPeriod
<1>2. TypeOK /\ Configured /\ WithinPeriod /\ [Next]_vars => WithinPeriod'
  BY StaysWithinPeriod DEF NoFullCount
<1> QED
  BY <1>1, <1>2, TypeCorrect, ConfigurationKept, PTL DEF Spec
-----------------------------------------------------------------------------
LEMMA BitIs ==
  ASSUME NEW b \in BOOLEAN
  PROVE  Bit(b) # 0 <=> b
BY DEF Bit

\* What a store to the control register does to the run bit.
LEMMA ControlRuns ==
  ASSUME TypeOK, NEW run \in BOOLEAN, NEW toggle \in BOOLEAN
  PROVE  ControlWritten(run, toggle).counter_start = run
<1> DEFINE w == RegWrite(backend_cmt6, "set_enable", Bit(run), Bit(run))
<1>1. Bit(run) \in Tick128
  BY TickModulusAssumption DEF Bit, Tick128
<1>2. w \in Timer
  BY <1>1, RegWriteType DEF TypeOK
<1>3. w.counter_start = run
  <2>1. CASE run
    BY <2>1, BitIs DEF RegWrite, ApplySet, SetBy, TypeOK, Timer
  <2>2. CASE ~run
    BY <2>2, BitIs DEF RegWrite, ApplyClear, SetBy, TypeOK, Timer
  <2> QED
    BY <2>1, <2>2
<1> HIDE DEF w
<1>4. \A word, masked : RegWrite(w, "set_match_toggle", word, masked).counter_start
                       = w.counter_start
  BY <1>2 DEF RegWrite, ApplySet, ApplyClear, SetBy, Timer
<1> QED
  BY <1>3, <1>4 DEF ControlWritten, w

LEMMA CountRuns ==
  ASSUME TypeOK, NEW word
  PROVE  CountWritten(word).counter_start = backend_cmt6.counter_start
BY DEF CountWritten, RegWrite, ApplySet, ApplyClear, SetBy, Timer, TypeOK

(* The run bit a firmware finds in memory, also where no hook sees the     *)
(* access, says whether the timer counts.                                  *)
THEOREM RunBitNeverStale == Spec => []RunInStep
<1>1. Init => RunInStep
  BY DEF Init, NewTimer6, DefaultTimer, RunInStep
<1>2. TypeOK /\ RunInStep /\ [Next]_vars => RunInStep'
  <2> SUFFICES ASSUME TypeOK, RunInStep, [Next]_vars PROVE RunInStep'
    OBVIOUS
  <2> USE DEF RunInStep
  <2>1. CASE Step
    <3>1. Tick(backend_cmt6).counter_start = backend_cmt6.counter_start
      BY DEF Tick, TypeOK, Timer
    <3> QED
      BY <2>1, <3>1 DEF Step
  <2>2. CASE LoadT6CON
    BY <2>2 DEF LoadT6CON
  <2>3. CASE LoadT6
    BY <2>3 DEF LoadT6, LoadCount
  <2>4. ASSUME NEW run \in BOOLEAN, NEW toggle \in BOOLEAN, StoreT6CON(run, toggle)
        PROVE  RunInStep'
    BY <2>4, ControlRuns DEF StoreT6CON, Hooked
  <2>5. ASSUME NEW run \in BOOLEAN, StoreT6CONLow(run)
        PROVE  RunInStep'
    BY <2>5, ControlRuns DEF StoreT6CONLow, Hooked, TypeOK, ControlBits
  <2>6. ASSUME NEW toggle \in BOOLEAN, StoreT6CONHigh(toggle)
        PROVE  RunInStep'
    BY <2>6 DEF StoreT6CONHigh, TypeOK, ControlBits
  <2>7. ASSUME NEW word, StoreT6(word) \/ StoreT6Low(word) \/ StoreT6High(word)
        PROVE  RunInStep'
    BY <2>7, CountRuns DEF StoreT6, StoreT6Low, StoreT6High, Hooked
  <2>8. CASE UNCHANGED vars
    BY <2>8 DEF vars
  <2> QED
    BY <2>1, <2>2, <2>3, <2>4, <2>5, <2>6, <2>7, <2>8 DEF Next, Access
<1> QED
  BY <1>1, <1>2, TypeCorrect, PTL DEF Spec
-----------------------------------------------------------------------------
(* What KeepsToggling rests on besides fairness: an instruction brings a   *)
(* running counter one nearer to its compare value, or reaches it, starts  *)
(* the next period and flips the latch.                                    *)
THEOREM PeriodToggles ==
  Spec => [][ Step /\ backend_cmt6.counter_start /\ WithinPeriod =>
                \/ /\ backend_cmt6'.current_tick = backend_cmt6.current_tick + 1
                   /\ backend_cmt6'.current_tick < HalfModulus - 1
                   /\ backend_cmt6'.match_toggle = backend_cmt6.match_toggle
                \/ /\ backend_cmt6.current_tick = HalfModulus - 2
                   /\ backend_cmt6'.current_tick = 0
                   /\ backend_cmt6'.match_toggle = ~backend_cmt6.match_toggle ]_vars
<1> DEFINE t == backend_cmt6
           Nearer == /\ backend_cmt6'.current_tick = backend_cmt6.current_tick + 1
                     /\ backend_cmt6'.current_tick < HalfModulus - 1
                     /\ backend_cmt6'.match_toggle = backend_cmt6.match_toggle
           Flips == /\ backend_cmt6.current_tick = HalfModulus - 2
                    /\ backend_cmt6'.current_tick = 0
                    /\ backend_cmt6'.match_toggle = ~backend_cmt6.match_toggle
<1>1. ASSUME TypeOK, Configured, Step, t.counter_start, WithinPeriod
      PROVE  Nearer \/ Flips
  <2>1. /\ t.current_tick \in Nat /\ t.current_tick < HalfModulus - 1
        /\ HalfModulus <= TickModulus /\ HalfModulus \in Nat /\ TickModulus \in Nat
        /\ HalfModulus > 3
    BY <1>1, Moduli DEF TypeOK, Timer, Tick128, WithinPeriod, Configured
  <2>2. NextTick(t) = t.current_tick + 1
    BY <1>1, <2>1 DEF NextTick, Configured
  <2>3. TickMatches(t) <=> t.current_tick + 1 = HalfModulus - 1
    BY <1>1, <2>2 DEF TickMatches, Configured
  <2>4. CASE TickMatches(t)
    <3>1. /\ Tick(t).current_tick = 0
          /\ Tick(t).match_toggle = ~t.match_toggle
      BY <1>1, <2>4 DEF Tick, Configured, TypeOK, Timer
    <3> QED
      BY <1>1, <2>1, <2>3, <2>4, <3>1 DEF Step
  <2>5. CASE ~TickMatches(t)
    <3>1. /\ Tick(t).current_tick = t.current_tick + 1
          /\ Tick(t).match_toggle = t.match_toggle
      BY <1>1, <2>2, <2>5 DEF Tick, TypeOK, Timer
    <3> QED
      BY <1>1, <2>1, <2>3, <2>5, <3>1 DEF Step
  <2> QED
    BY <2>4, <2>5
<1>2. TypeOK /\ Configured /\ [Next]_vars
        => [Step /\ t.counter_start /\ WithinPeriod => Nearer \/ Flips]_vars
  BY <1>1
<1> QED
  BY <1>2, TypeCorrect, ConfigurationKept, PTL DEF Spec
=============================================================================
