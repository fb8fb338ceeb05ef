----------------------- MODULE CompareMatchTimerProofs -----------------------
(***************************************************************************)
(* Lemmas about the operators on a backend timer, for every counter width: *)
(* the proofs of the peripherals that embed one cite them.                 *)
(***************************************************************************)
EXTENDS CompareMatchTimer, TLAPS

(* tick() keeps a timer a timer: the counter stays in its range.           *)
LEMMA TickType ==
  ASSUME NEW t \in Timer
  PROVE  Tick(t) \in Timer
<1>1. NextTick(t) \in Tick128
  BY TickModulusAssumption DEF NextTick, Tick128, Timer
<1>2. 0 \in Tick128
  BY TickModulusAssumption DEF Tick128
<1> QED
  BY <1>1, <1>2 DEF Tick, Timer

(* So does a register write through any function.                         *)
LEMMA RegWriteType ==
  ASSUME NEW t \in Timer, NEW word \in Tick128, NEW masked, NEW fun
  PROVE  RegWrite(t, fun, word, masked) \in Timer
<1>1. 0 \in Tick128
  BY TickModulusAssumption DEF Tick128
<1>2. \A name, new, old :
        /\ new \in BOOLEAN /\ old \in BOOLEAN => SetBy(fun, name, new, old) \in BOOLEAN
        /\ new \in Tick128 /\ old \in Tick128 => SetBy(fun, name, new, old) \in Tick128
  BY DEF SetBy
<1>3. ApplySet(t, fun, word) \in Timer
  BY <1>2 DEF ApplySet, Timer
<1>4. ApplyClear(t, fun) \in Timer
  BY <1>1, <1>2 DEF ApplyClear, Timer
<1> QED
  BY <1>3, <1>4 DEF RegWrite

(* The configuration no register is bound to survives every tick.          *)
LEMMA TickConfiguration ==
  ASSUME NEW t \in Timer
  PROVE  /\ Tick(t).compare_against = t.compare_against
         /\ Tick(t).count_forward = t.count_forward
         /\ Tick(t).reset_on_match = t.reset_on_match
BY DEF Tick, Timer

(* A write through a function that sets a bit of its own leaves the        *)
(* counter and the configuration alone.                                    *)
LEMMA RegWriteBit ==
  ASSUME NEW t \in Timer, NEW word, NEW masked, NEW fun,
         fun \notin {"set_current_tick", "set_compare_against", "set_count_forward"}
  PROVE  LET w == RegWrite(t, fun, word, masked)
         IN  /\ w.current_tick = t.current_tick
             /\ w.compare_against = t.compare_against
             /\ w.count_forward = t.count_forward
             /\ w.reset_on_match = t.reset_on_match
<1>1. ApplySet(t, fun, word).current_tick = t.current_tick
  BY DEF ApplySet, SetBy, Timer
<1>2. ApplySet(t, fun, word).compare_against = t.compare_against
  BY DEF ApplySet, SetBy, Timer
<1>3. ApplySet(t, fun, word).count_forward = t.count_forward
  BY DEF ApplySet, SetBy, Timer
<1>4. ApplySet(t, fun, word).reset_on_match = t.reset_on_match
  BY DEF ApplySet, SetBy, Timer
<1>5. ApplyClear(t, fun).current_tick = t.current_tick
  BY DEF ApplyClear, SetBy, Timer
<1>6. ApplyClear(t, fun).compare_against = t.compare_against
  BY DEF ApplyClear, SetBy, Timer
<1>7. ApplyClear(t, fun).count_forward = t.count_forward
  BY DEF ApplyClear, SetBy, Timer
<1>8. ApplyClear(t, fun).reset_on_match = t.reset_on_match
  BY DEF ApplyClear, SetBy, Timer
<1> QED
  BY <1>1, <1>2, <1>3, <1>4, <1>5, <1>6, <1>7, <1>8 DEF RegWrite
-----------------------------------------------------------------------------
\* A register write, field by field.
Written(t, fun, word, masked) ==
  LET on == masked # 0
  IN [ counter_start     |-> SetBy(fun, "set_enable", on, t.counter_start),
       current_tick      |-> SetBy(fun, "set_current_tick", IF on THEN word ELSE 0,
                                   t.current_tick),
       compare_against   |-> SetBy(fun, "set_compare_against", IF on THEN word ELSE 0,
                                   t.compare_against),
       count_forward     |-> SetBy(fun, "set_count_forward", on, t.count_forward),
       flag_overflow     |-> SetBy(fun, "set_flag_overunderflow",
                                   on /\ t.flag_overflow, t.flag_overflow),
       flag_underflow    |-> SetBy(fun, "set_flag_overunderflow",
                                   on /\ t.flag_underflow, t.flag_underflow),
       matched           |-> SetBy(fun, "clear_matched_flag", on /\ t.matched, t.matched),
       reset_on_match    |-> t.reset_on_match,
       interrupt_enabled |-> SetBy(fun, "set_interrupt_enabled", on, t.interrupt_enabled),
       match_toggle      |-> SetBy(fun, "set_match_toggle", on, t.match_toggle) ]

LEMMA RegWriteIs ==
  ASSUME NEW t \in Timer, NEW fun, NEW word, NEW masked
  PROVE  RegWrite(t, fun, word, masked) = Written(t, fun, word, masked)
<1>1. CASE masked # 0
  BY <1>1 DEF RegWrite, ApplySet, Written, SetBy, Timer
<1>2. CASE masked = 0
  BY <1>2 DEF RegWrite, ApplyClear, Written, SetBy, Timer
<1> QED
  BY <1>1, <1>2

(* The functions bound to one register may be applied in any order, so it  *)
(* makes no difference that handle_reg_write takes them from a hash map.   *)
THEOREM OrderIrrelevant ==
  ASSUME NEW t \in Timer, NEW f, NEW g, f # g,
         NEW word \in Tick128, NEW m, NEW n
  PROVE  RegWrite(RegWrite(t, f, word, m), g, word, n)
           = RegWrite(RegWrite(t, g, word, n), f, word, m)
<1>1. RegWrite(t, f, word, m) \in Timer /\ RegWrite(t, g, word, n) \in Timer
  BY RegWriteType
<1>2. /\ RegWrite(RegWrite(t, f, word, m), g, word, n)
           = Written(Written(t, f, word, m), g, word, n)
      /\ RegWrite(RegWrite(t, g, word, n), f, word, m)
           = Written(Written(t, g, word, n), f, word, m)
  BY <1>1, RegWriteIs
<1>3. Written(Written(t, f, word, m), g, word, n)
        = Written(Written(t, g, word, n), f, word, m)
  BY DEF Written, SetBy
<1> QED
  BY <1>2, <1>3
=============================================================================
