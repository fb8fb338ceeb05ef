# A verification development for fuguex-peripheral

`fuguex-peripheral` is a Rust library of peripherals for the emulator
*metaemu*/*fugue*: timers, a CAN controller, a wrapper for interrupts and a
component that gets firmware past polling loops. Every peripheral is a set of
*hooks*: the emulator calls `hook_architectural_step` before each guest
instruction, `hook_memory_read` before each guest load and `hook_memory_write`
at each guest store. A hook changes the peripheral's own state, guest memory, or
the next address to be executed.

The modules here model these hooks with the guest firmware and the host program
as their environment. TLC checks small instances; the modules whose names end in
`Proofs` hold theorems for every value of the constants, checked by TLAPS.

## Inventory

| Component (`src/src/...`) | State | Operations | Talks to |
|---|---|---|---|
| `backend/compare_match_timer.rs` | counter, compare value, run, direction, match and toggle flags, flags for overflow and underflow, maps from (register, mask) to bound functions | `tick`, setters and getters, `handle_reg_read`, `handle_reg_write` | embedded in the two timers below; writes guest memory |
| `backend/interrupt.rs` | enabled, triggered, priority, count; a handler (routine, vector or Rust override) | setters, `get_routine_address` | embedded in the two timers |
| `SuperH/compare_match_timer.rs` | two timers, two interrupts, two handlers | the three hooks; pushes SR and PC and branches | guest registers, stack and memory |
| `c166/general_purpose_timer.rs` | one timer, one interrupt that is never used | the three hooks | guest memory |
| `interrupt/mod.rs` | status (disabled, pending, fired *n* times), stack of handlers, stack of return addresses | `hook_architectural_step`, `enable`, `disable` | the wrapped interrupt's `fire` |
| `v850/rscan.rs` | queue of CAN frames, socket, mode | `handle_input`, `handle_output`, enqueue, dequeue, peek, clear, `connect`, `init` | guest memory, a CAN socket, the host |
| `polling/memory.rs`, `polling/mod.rs` | a peripheral behind `Arc<Mutex<_>>`, an address range | two memory hooks, builder | the peripheral; shared by clones and host |
| `bypass/dummy_peripheral.rs` | solving in progress or not, the last load, counters of forgiven jumps and calls, shared cache of results | `hook_operation_step` over P-code | the solver, guest memory |
| `bypass/solver.rs` | versioned symbolic variables, variables to solve | `add_pcode`, `solve` | an external SMT solver |

What is hard in this code:

- **Protocols of steps and stores.** The timers' interrupt logic is a chain of
  early returns over flags that stores, matches and returns change in any order.
  Unit tests of the repository cover two ticks of one counter and nothing else.
- **Inference.** The interrupt wrapper sees addresses and must infer from them
  that handlers were entered and left.
- **Sharing.** A polled peripheral is under a mutex, but a firmware's transaction
  takes the mutex once per register access; clones of a machine and the host are
  in between. A panic with the mutex held poisons it.
- **Staleness.** Registers live twice, in the peripheral and in guest memory, and
  are reconciled only at certain accesses.
- **Guessing at loops.** The bypass sees one operation at a time and must tell a
  polling loop from other code; what it remembers of one loop meets the next.
- **Edges.** Counters of 128 bits seen through 16, counts through 8, masks at the
  ends of a word.

There is no persistent state, so no crash recovery, and no thread of its own.
Correctness per component: routines do not nest, and each has a cause (SuperH);
a counter stays where a match can reach it (C166); a value is put where its
mask says, and nowhere else (registers); status and stacks agree
with the guest's call stack (wrapper); a frame is delivered whole, once and in
order, and one reader panics for one reason only (RSCAN); what is solved is what
the firmware reads, polling loops are left, and memory changes where a load or a
loop explains it (bypass). `PROJECT.json` lists the hazards line by line.

## Modules

`CompareMatchTimer` — the backend timer as operators on a record. `Tick` is
`tick()`, `RegWrite` one iteration of `handle_reg_write`: a function name, the
written word, and the masked bits of it. The counter's 2^128 values are
`TickModulus`; the wrap at its ends is that of a release build (with overflow
checks that step panics; it is out of a firmware's reach, 2^128 ticks away).

`SuperHCMT` — `backend`, `interrupt` are the fields of that name; `stack` holds,
for each frame the hook pushed, its channel. The hook's paths are one action
each: `StepEarly` (both early exits), `StepTriggered0`, `StepTriggered1`,
`StepDeliver`. They include the instruction that executes when the hook passes,
because an RTE pops the frame. `WriteCMSTR`, `WriteCMCSR`, `WriteCMCNT`,
`WriteCMCOR` are the stores. The hash map of functions bound to one register
yields them in any order; in CMCSR the two commute. Abstractions: the vector's
target, SR and the priority bits are left out; the firmware executes RTE only
inside a routine; stores go to addresses functions are bound to.
`rte_word` is what the 32 bits at an RTE's address hold, chosen at the start from
`RteWords`: `Rte16` is the encoding of the instruction set followed by its delay
slot, `Rte32` the word the hook compares with. With the first no return is ever
seen, so what needs a return to be seen (`Channel0Served`) says so in its premise;
all other properties hold for both.

`C166GPT` — timer 6, T6CON and T6 in the timer and in memory, with word and byte
accesses. An access to an upper byte has another address and misses the hook, so
of T6CON the toggle bit in memory goes stale; `RunInStep` says that the run bit
does not. `panicked` is the failed conversion of a counter beyond 32 bits.

`RegisterField` — `get_mask_start_bit` as a loop (one `Scan` per iteration) and
`set_bits_val`. Words are sets of bit numbers.

`InterruptWrapper` — `status`, `handler_stack`, `returns_stack` are the fields;
`pc` and `frames` are the guest: the address of the next step and the return
addresses of handlers really running. `StepEntry`, `StepDecline`, `StepFire`,
`StepError` are the exits of the hook, each with the pop that precedes it and the
guest instruction that follows it. `FiresAt` says at which counts `fire` may
name a handler. `host_disables`, whether the host calls `disable`, and
`shares_code`, whether the program runs through `SharedCode` as the handlers do,
are chosen at the start, so one run sees all four cases; a property that needs one
of them says so. `can_fire` and `allow_nesting` are consulted nowhere in the
crate and have no part in the model.

`RSCan` — the receive FIFO and the transmit request with the mutex of the polling
wrapper. `rfsts0` is per machine (memory belongs to a machine), the controller is
shared. `setting` is chosen at the start and never changes: the mode
(`select_vcan_mode`), the firmware's `loop`, the machines that run, what the host
does besides enqueueing, and a bound on the frames; so one run sees both modes and
several firmwares, and `OneReader` names the settings a mailbox is about. Each
register access is one action, as each takes the mutex once. The firmware is
external: a `loop` of accesses a round,
assembling one frame in `got` and appending it to `received`. A panic sets
`poisoned` and ends all access. A failing `connect` is an error the caller sees
with nothing changed, a stutter. `WriteTMC0` is a store without or with the
request bit; a request panics at lines 503-504, before the lines that would send,
so those have no state to model. Registers are accessed as words.
The data words are laid out for a little-endian guest (the V850 is one).
`Seen` is a frame as a receiver of the code sees it: an extended identifier is
not delivered. `Mailbox` is the abstract specification: pending and delivered
frames.

`PCode` — the operations the bypass tells apart, on operands and memory made of
bytes. One operation computes: a function of two operands stands for every Int,
Bool, Copy and extension operation; beside it stands the function the solver
builds (`sym`), which for a Subpiece that throws low bytes away is another one. Loads
and stores have the size of the operand and the address its pointer holds at
run time (`AddressOf`); a pointer is an operand like any other.

`Firmware` — the abstract specification: code that executes on a memory, in which
bytes change between two operations in two cases only (`Open`): those about to be
loaded and, where a conditional branch goes back to the remembered first load or
beyond, those at the addresses of remembered loads, each by the size of the first.
What is remembered only grows at loads and may be forgotten at any time.

`ConstraintSolver` — `bypass/solver.rs` as operators on a record. `version` and
`expr` are `var_list`, `to_solve` is `var_to_solve`, keyed by operands as the code
keys by names: a load puts its variable under the name of its pointer, a store its
value. An expression is what it means, a function from valuations of the symbolic
variables to contents. `View` is what `var_list_get` takes for an operand it does
not know: its default, else of a register one byte, the one at the lowest address,
whatever the register's size. The external SMT solver may give any solution
(`Answers`), one for each marked variable, as the code asks one question for each.

`DummyPeripheral` — `hook_operation_step`, one action for each branch of it, with
the operation that executes after the hook. Fields keep their names. `setup` is
the program, what operands and memory hold at first, and the options the bypass
was built with; it never changes. Every action ends in `Finish`: the lines 381-387
add the operation to the solver, and the operation executes on what the hook left
in memory, or the hook panics. `Patched` writes each answer with the size of the
episode's first load, whatever was loaded there, in the order of a hash map
(`Orders`). `CloneStep` is what clones of the machine do to the cache they share:
of their state the model keeps on which registers they are in an episode
(`clone_episodes`), and what they insert may be any value. Each operation is at an
address of its own.

`DummyPeripheralTree` — adds the history variable `exact`: the operands whose
expressions the solver builds as the firmware computes their contents. Left out
are pointers that were loaded or stored through (they have the word in memory for
their expression), registers of which one byte was read that is not all of
their contents, Subpieces from another place, and what is computed from any of
these. It changes nothing of what the system does; `TreeMatches` speaks of it.

`MCSuperHCMT`, `MCRSCan` and `MCDummyPeripheral` give constants their values. A
definition whose comment begins *Mutant of* is a plausible bug, kept beside the
definition it would replace to show that a property depends on it.

Composition: `SuperHCMT` and `C166GPT` extend `CompareMatchTimer`; `RSCan`
instantiates `Mailbox` under the refinement mapping pending <- `SeenAll(data_queue)`,
delivered <- `received` (in a setting that is not `OneReader`'s both are empty).
`DummyPeripheral` extends `ConstraintSolver` and
instantiates `Firmware` with `pc`, `reg` and `mem` as they are, loads <- the
addresses of the episode's marks, first <- the load that started it: every step of
the bypass, the ones that write answers or cached results included, must be a step
of a firmware beside a device.

## Runs

| Run | Shows |
|---|---|
| `SuperHCMT_safety` | `NoNesting`, `EnableInStep`, `EntryJustified` for both channels and both encodings of RTE; `Channel0Served` (liveness) for a firmware that starts channel 0 alone and whose RTE is the word the hook compares with |
| `SuperHCMT_disabled_taken` | *violated*: a disabled channel's routine is entered (line 158) |
| `SuperHCMT_lost_return` | *violated*: of two simultaneous matches one is lost and its mark stays (lines 181-204) |
| `SuperHCMT_return_unseen` | *violated*: with the 16-bit RTE a return leaves the channel's mark (lines 169-174), after which no match is served |
| `InterruptWrapper_orders` | `StatusFromReturns`, `RunningIsFired`, `EntryExecutes` with nesting, errors, disabling and shared code |
| `RSCan_settings` | with one reader in queued mode `BoxSpec` (refinement), `PanicsOnlyWhenFull`, `EveryFrameDelivered` (liveness); in vcan mode `PollingIsDeaf`: a firmware that polls never sees a frame. Two machines, a host that removes messages, bad, extended and short frames, and transmissions are in the same run |
| `RSCan_vcan_torn` | *violated*: in vcan mode the identifier and the data words of a round are of different frames (line 441) |
| `C166GPT_timer6` | `RunInStep` and `OnlyFullCountOvershoots` with word and byte stores, to the wrap and the panic; `KeepsToggling` (liveness) |
| `DummyPeripheral_episodes` | `TreeMatches`, `ResultIsFinal`, `BlindForever`, `FirmwareSpec` (refinement) and `LoopIsLeft` (liveness), for programs of five operations with accesses of mixed sizes and for polling loops on registers of one, two and four bytes in every configuration, with clones beside some of them |
| `DummyPeripheral_spill` | *violated*: RAM that a polling loop reads is solved for and overwritten (`solver.rs`, line 240) |
| `DummyPeripheral_two_conditions` | *violated*: a loop with two exits on different conditions is not left (`dummy_peripheral.rs`, lines 299-304) |
| `RegisterField_bits` | `Field`, `OthersKept` for all words of 5 bits |

A violated property quotes a comment of the repository; the `findings` of
`PROJECT.json` say what the code does instead.

### Read off the models, without a run

While modelling, further places came up where a comment and the code disagree;
they are in the models as the code has them:

- A mark of channel 1 alone is not seen by the first early exit, which tests
  channel 0 twice (`SuperH/compare_match_timer.rs:153`), so it may outlive its
  routine until the next match.
- The overflow flag announced at `backend/compare_match_timer.rs:17-19` is never
  set.
- "Return the index of start and end bit of the mask"
  (`backend/compare_match_timer.rs:244`): for the mask 0x1 and for every mask whose
  run reaches bit 31 the scan returns none and `set_bits_val` panics; line 325
  takes the mask of the whole register, which is one of them, for the usual one.
  `RegisterField_bits` checks what is stored under accepted masks and calls no
  refusal right; `RefusedExactly` proves which masks are refused.
- A disabled wrapper notices no return, so it may report *fired* after everything
  returned (`interrupt/mod.rs:110`).
- With clones or a clearing host the `expect`s at `v850/rscan.rs:421` and 399 and
  the `unwrap` at 528 can fail; RFSTS0 in vcan mode always reports empty (383);
  `init` clears the empty mark it has just set (355); the identifier of an
  extended frame is not delivered (432). A transmit request panics: `read_u64`
  of four bytes (503-506).
- "We are back at the point we got fired from; pop" (`interrupt/mod.rs:166`): a
  handler that runs through the interrupted address, in a subroutine both use, is
  taken for having returned.
- A branch within one instruction, for which the bypass does not care
  (`dummy_peripheral.rs:253-254`), is taken for a backward jump to address 0.
- A cached result is written as an empty slice for one byte and for big-endian
  values (195, 204-206), and two bytes panic (198); the loop is then not left.
- `forgive_fun_call` is kept when an episode starts (224 resets `forgive_jump`
  only). An indirect call that is "forgiven" (360) reaches the solver and panics
  (`solver.rs:482-484`).
- A register the solver does not know is read as one byte whatever its size
  (`solver.rs:195-199`); a Subpiece is an extraction from bit 0 whatever its amount
  (380, with a TODO); a pointer that was loaded through has the loaded variable
  for its expression (235). The tree is then not the firmware's.
- Answers are written with the size of the episode's first load
  (`dummy_peripheral.rs:329-334`), over neighbours nobody loaded or only in part; of
  several answers the last one in a hash map's order is cached (345). Answers for
  several variables are solved separately (`solver.rs:517`) and need not be parts of one
  solution.

### Bounds

- Counters of 4 values with registers of 2 bits' mask (`TickModulus`,
  `RegModulus`) have every relation of counter, compare value and wrap; the
  theorems do without the bound. `C166GPT` uses bytes of 2 values, so a word
  has 4, and counters of 20 values, beyond the 32-bit limit (16 there).
- `MaxDepth` bounds firings in flight at 4; a nested handler inside a nested
  handler is depth 3. It is a guard of `StepFire`.
- `CounterMax` stands for 255 and `MaxFrames` bounds frames in existence, in each
  setting by `frames`; for the one reader it exceeds `CounterMax`, so that the
  count overflows. Two frames that agree in no
  field suffice to tell a torn frame or swapped words from a whole one. The
  settings with two machines, an interfering host and transmissions have two frames.
- `DummyPeripheral`: bytes of two values, and two bytes (`Width`, `Cells`) for any
  operand wider than one, which is enough for a lowest byte, a neighbour and either
  byte order; an operand of two bytes and one of four differ in the cases the code
  distinguishes, not in bytes. Six addresses: two watched registers and a word of RAM.
  The code compares conditions with 0 and 1 only. `SymVar` names variables of two
  pointers, one of which is loaded through twice; `MaxVersion` (4) and `MaxCalls` (2)
  bound the versions of an operand and the count of calls; steps beyond them are cut
  off by guards in `Finish` and `Counted`. Programs with `cloned` registers have
  clones: the polling loops, and loops that load one register twice, so that the second load may find what a
  clone has cached meanwhile. Episodes follow each other in every program, with
  whatever the earlier ones left. Accesses of eight bytes occur in the theorems only.
- The `RSCan` and `DummyPeripheral` runs and `C166GPT_timer6`, where a panic or a
  bound stops the system, do not check deadlock. All others do.

### Fairness

The emulator executes instructions without end, and calls the hooks for each:
weak fairness of the step (`SuperHCMT`, `C166GPT`, `DummyPeripheral`) and of each
machine's next access (`RSCan`). Nothing is assumed of stores, of returns from routines, or of
the host. `KeepsToggling` is conditional on a firmware that in the end leaves
the timer running within its period, `Channel0Served` on one that
never starts channel 1 and on an RTE the hook recognises, `EveryFrameDelivered` on
no panic, and `LoopIsLeft` on loops whose exits test one condition (`PollingCode`;
`DummyPeripheral_two_conditions` shows what becomes of another),
no default values, no clones (what a clone has cached may be what another loop
waits for) and a cache whose results reach memory, if there is one (little-endian, four
or eight bytes; with others a loop may not be left). The
polling loops of `LoopIsLeft` stay within the bounds of the solver, so that no
guard of a bound stops them.

## Proofs

No theorem bounds a counter, a queue, a program or the number of machines; a
condition beyond the types of the constants is named here, in the theorem or in the
property it is about. Every invariant and action property of a passing run is the conclusion of one.

- `CompareMatchTimerProofs`: lemmas on `Tick` and `RegWrite` the next two cite,
  and `OrderIrrelevant` — writes through two functions of one register commute,
  so the order in which the code's hash map yields them makes no difference.
- `SuperHCMTProofs`: `TypeCorrect`; `NeverNested` — `NoNesting` is inductive given
  types, since only `StepDeliver` pushes and needs both marks down, and a mark
  falls only at a recognised RTE, which pops the frame; `EnableNeverStale`;
  `EveryEntryJustified` from the guard of `StepDeliver`. No assumption beyond the
  constants' types: any encoding of RTE, any stored words. `OneRoutineOnly`: if
  the hook does not recognise the guest's RTE (`rte_word # INST_RTE`), as it does not
  recognise the 16-bit encoding, the first routine entered is the last. `ServedAtOnce` is the
  safety core of `Channel0Served`: the step that finds channel 0 pending and no
  mark enters its routine.
- `C166GPTProofs`: `TypeCorrect`; `ConfigurationKept` — no step changes compare
  value, direction and reset; from both `FullCountAlone`, that only the store of
  the compare value as a word leaves the period, and `CounterNeverOvershoots` for
  a firmware that never stores it (`NoFullCount`). `RunBitNeverStale`: `RunInStep`
  is inductive, since what a store takes from the low byte goes to both places.
  `PeriodToggles` is the safety core of `KeepsToggling`: a tick within the period
  counts one up, or resets the counter and flips the latch.
- `RegisterFieldProofs`: `ScanInv` says what the scan knows of the bits it passed
  and how it stopped; from it `FieldIsPlaced`, `RefusedExactly`,
  `OthersNeverChange`, for every width above two (at width two the last-bit
  special case accepts a run that should be refused).
- `InterruptWrapperProofs`: `TypeCorrect`; `StatusNeverDrifts`; for a program that
  shares no code with the handlers (`~shares_code`, in the properties)
  `RunningIsKnown`, whatever the host disables and enables, and `EntryNeverNested`
  for a host that leaves the wrapper enabled, by an invariant on the layout of the
  three stacks (`Layout`) and one on the step after a firing (`Entering`); under
  `Heeds` as well `TrackingIsExact`, for which there is no run.
- `RSCanProofs`: `TypeCorrect`; for the settings `OneReader` names (one machine,
  queued mode, a host that only enqueues, any firmware that polls first,
  acknowledges last and reads identifier and data in between, in any order and as
  often as it likes) `QueuedModeIsMailbox` — the invariant `Rounds` says the
  assembled fields are those of the oldest message — and, without transmissions,
  `OnlyFullPanics`. For any machines and hosts, `VcanPollingIsDeaf`.
- `DummyPeripheralProofs`, for every program, accesses of any sizes, every
  configuration and every answer of the solver: `TypeCorrect`; `ImplementsFirmware` —
  a step of the hook writes where a load goes or, at a branch that goes back, at the
  addresses of marks and by the size of the first load, and marks are the loads
  `Firmware` remembers; a step that panics or ends an episode only forgets;
  `ResultsFinal` — a result is replaced only while this machine or a clone is in
  an episode on its register, and a register that has a result starts none; of a
  machine alone `NotCached` says that it is never replaced; `ReturnsBlind` — with a
  negative count nothing is added to a new solver (`Blank`), so none of its
  answers is written. The invariant of all of these is `Sound`.
- `DummyPeripheralTreeProofs`: `TreeIsFirmwares`. `TreeMatches` is not
  inductive: a new variable must be free to take the value its load finds. The
  invariant `Tree` adds that no expression depends on a variable not yet named
  (`FreshIn`, `Independent`) and that every exact operand is one the solver knows
  (`Fits`); each operation then extends the valuation at one fresh name at most.
  What it says of the register holds until a clone caches a result for the
  register of the episode (`Overtaken`): a second load within the episode then changes
  that register; and where memory is accessed in words of one size (`OneSize`), since
  a store or a cached word of another size may change the register in part.

The violation runs refute six claims of the repository's comments. Four are also
proved, under the condition they need:

| Claim | holds for | by |
|---|---|---|
| `TriggeredMeansInRoutine` | channel 0 alone in use, an RTE the hook recognises (`RteWords = {INST_RTE}`) | `MarksOfChannel0` |
| `DisabledNotTaken` | channel 0 alone in use | `DisabledNotTakenAlone` |
| `WholeFrames` | one reader in every setting (`ReadersOnly`) and standard identifiers | `QueuedFramesWhole` |
| `OnlyTargetSolved` | programs that load only where a word of any size is watched | `OnlyTargetSolvedIfWatched` |

`ReturnDisablesTriggered` and `LoopIsLeft` have no such theorem: for the first
`OneRoutineOnly` says what follows from its failure, and the second is liveness,
which `DummyPeripheral_episodes` checks for loops on one condition.

Only model-checked: the liveness properties `Channel0Served`, `KeepsToggling`,
`EveryFrameDelivered` and `LoopIsLeft`. Fairness and `ENABLED` are out of the
prover's reach. So is induction over data, which no theorem here needs: the
models have no recursive definitions, and what a queue or a program of any length
holds is stated by quantifiers over its indices.

## Not modelled, and the plan

Not modelled: the guest's register memory around the SuperH timer (byte order and
windows of `handle_reg_read`, accesses to unbound addresses); a host that writes
to the bypass's cache; operands of P-code that are addresses, registers with one name
for several sizes or overlapping bytes under several names, and loads wider than
their pointer; byte accesses to RSCAN's registers; the builder and the address range of the polling wrapper,
which act before the machine runs or let an access pass; module glue. Formatting,
logging and error texts have no counterpart. *metaemu*, *fugue*, *socketcan* and
the SMT solver are external: they appear only through how this crate uses them.

Done: `CompareMatchTimer`, `SuperHCMT`, `InterruptWrapper`, `RSCan` with
`Mailbox`, `C166GPT`, `RegisterField`, `DummyPeripheral` with `ConstraintSolver`,
`Firmware` and `DummyPeripheralTree`, and their theorems. Left, in order:

1. `SuperHRegs`: the guest's register memory under big-endian 32-bit windows;
   what a load returns and what it overwrites.
2. Byte accesses in `RSCan`.
3. Names of registers that overlap in `ConstraintSolver`.
