-------------------------- MODULE CompareMatchTimer --------------------------
(***************************************************************************)
(* The backend timer (backend/compare_match_timer.rs) as operators on one  *)
(* record.  The peripherals that embed it (the two channels of the SuperH  *)
(* CMT, timer 6 of the C166) own the record as part of their state.        *)
(*                                                                         *)
(* A 32-bit register is abstracted to the fields the functions of FunName  *)
(* are bound to: the operators take the written word and the bits of it    *)
(* the mask of the field selects.                                          *)
(***************************************************************************)
EXTENDS Integers

CONSTANT TickModulus   \* values of current_tick and compare_against: 2^128

ASSUME TickModulusAssumption == TickModulus \in Nat \ {0, 1}

Tick128 == 0 .. TickModulus - 1

Timer ==
  [ counter_start     : BOOLEAN,
    current_tick      : Tick128,
    compare_against   : Tick128,
    count_forward     : BOOLEAN,
    flag_overflow     : BOOLEAN,
    flag_underflow    : BOOLEAN,
    matched           : BOOLEAN,
    reset_on_match    : BOOLEAN,
    interrupt_enabled : BOOLEAN,
    match_toggle      : BOOLEAN ]

DefaultTimer ==
  [ counter_start     |-> FALSE,
    current_tick      |-> 0,
    compare_against   |-> 0,
    count_forward     |-> TRUE,
    flag_overflow     |-> FALSE,
    flag_underflow    |-> FALSE,
    matched           |-> FALSE,
    reset_on_match    |-> TRUE,
    interrupt_enabled |-> FALSE,
    match_toggle      |-> FALSE ]

-----------------------------------------------------------------------------
(* tick().  The counter wraps, as it does in a release build; with         *)
(* overflow checks the step that wraps panics instead.                     *)

NextTick(t) ==
  IF t.count_forward
  THEN IF t.current_tick = TickModulus - 1 THEN 0 ELSE t.current_tick + 1
  ELSE IF t.current_tick = 0 THEN TickModulus - 1 ELSE t.current_tick - 1

\* The value tick() returns: the counter is running and has just matched.
TickMatches(t) == t.counter_start /\ NextTick(t) = t.compare_against

\* Mutant of Tick: the match test comes after the counter, without the wrap.
TickUnbounded(t) ==
  IF t.counter_start /\ t.current_tick + 1 = t.compare_against
  THEN [t EXCEPT !.matched = TRUE, !.match_toggle = ~t.match_toggle,
                 !.current_tick = IF t.reset_on_match THEN 0 ELSE @ + 1]
  ELSE [t EXCEPT !.current_tick = IF t.counter_start THEN @ + 1 ELSE @]

\* Mutant of Tick: a match leaves the toggle alone.
TickSilent(t) ==
  IF TickMatches(t)
  THEN [t EXCEPT !.matched      = TRUE,
                 !.current_tick = IF t.reset_on_match THEN 0 ELSE NextTick(t)]
  ELSE [t EXCEPT !.current_tick = IF t.counter_start THEN NextTick(t) ELSE @]

\* Mutant of Tick: a match lets the counter go on.
TickOnward(t) ==
  IF TickMatches(t)
  THEN [t EXCEPT !.matched      = TRUE,
                 !.match_toggle = ~t.match_toggle,
                 !.current_tick = NextTick(t)]
  ELSE [t EXCEPT !.current_tick = IF t.counter_start THEN NextTick(t) ELSE @]

Tick(t) ==
  IF TickMatches(t)
  THEN [t EXCEPT !.matched      = TRUE,
                 !.match_toggle = ~t.match_toggle,
                 !.current_tick = IF t.reset_on_match THEN 0 ELSE NextTick(t)]
  ELSE [t EXCEPT !.current_tick = IF t.counter_start THEN NextTick(t) ELSE @]

\* A stopped counter hides its match flag; the flag itself is kept.
IsMatched(t) == t.counter_start /\ t.matched

-----------------------------------------------------------------------------
(* handle_reg_write: what each bound function does to the timer.           *)

\* The field bound to the function name takes a new value when that function
\* is applied, and keeps the old one otherwise.
SetBy(fun, name, new, old) == IF fun = name THEN new ELSE old

\* Some masked bit is set.  A counter takes the whole written word, not its
\* masked part; setting the match flag has no effect.
ApplySet(t, fun, word) ==
  [t EXCEPT
     !.counter_start     = SetBy(fun, "set_enable", TRUE, @),
     !.interrupt_enabled = SetBy(fun, "set_interrupt_enabled", TRUE, @),
     !.compare_against   = SetBy(fun, "set_compare_against", word, @),
     !.current_tick      = SetBy(fun, "set_current_tick", word, @),
     !.count_forward     = SetBy(fun, "set_count_forward", TRUE, @),
     !.match_toggle      = SetBy(fun, "set_match_toggle", TRUE, @)]

\* Every masked bit is clear.
ApplyClear(t, fun) ==
  [t EXCEPT
     !.counter_start     = SetBy(fun, "set_enable", FALSE, @),
     !.interrupt_enabled = SetBy(fun, "set_interrupt_enabled", FALSE, @),
     !.compare_against   = SetBy(fun, "set_compare_against", 0, @),
     !.current_tick      = SetBy(fun, "set_current_tick", 0, @),
     !.matched           = SetBy(fun, "clear_matched_flag", FALSE, @),
     !.count_forward     = SetBy(fun, "set_count_forward", FALSE, @),
     !.match_toggle      = SetBy(fun, "set_match_toggle", FALSE, @),
     !.flag_overflow     = SetBy(fun, "set_flag_overunderflow", FALSE, @),
     !.flag_underflow    = SetBy(fun, "set_flag_overunderflow", FALSE, @)]

RegWrite(t, fun, word, masked) ==
  IF masked # 0 THEN ApplySet(t, fun, word) ELSE ApplyClear(t, fun)
=============================================================================
