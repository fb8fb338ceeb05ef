--------------------------- MODULE DummyPeripheral ---------------------------
(***************************************************************************)
(* The bypass of polling loops (bypass/dummy_peripheral.rs).  Before each  *)
(* P-code operation hook_operation_step looks at it.  A load from the      *)
(* watched addresses starts an episode: the operations that follow are     *)
(* added to a solver, until a conditional branch goes back.  That is taken *)
(* for a polling loop; the solver finds values of what was loaded with    *)
(* which the branch is not taken, and the hook writes them into memory.    *)
(*                                                                         *)
(* A step is the hook and the operation itself.  A panic of the hook ends  *)
(* the emulation.  Clones of the machine share its cache of results and    *)
(* nothing else: they are the environment.                                 *)
(***************************************************************************)
EXTENDS ConstraintSolver, Functions

CONSTANTS
  Device,         \* address_range_list: the watched addresses
  NoAddress,      \* the address of no load yet
  NoResult,       \* an address that solving_results does not contain
  Configuration,  \* programs and how the bypass is set up for them
  PollingCode,    \* the programs that are polling loops, left for their last operation
  MaxCalls        \* bound: forgive_fun_call, either way

ASSUME DummyAssumption ==
  /\ Device \subseteq Address
  /\ NoAddress \notin Address
  /\ NoResult \notin Val
  /\ MaxCalls \in Nat
  /\ \A c \in Configuration :
       /\ Program(c.code)
       /\ c.little \in BOOLEAN           \* byte order
       /\ c.reg \in [Operand -> Val]     \* what operands and memory hold at first
       /\ c.mem \in [Address -> Byte]
       /\ c.caching \in BOOLEAN          \* solving_results_cache_enable
       /\ c.cloned \subseteq Device      \* registers that clones of the machine poll
       /\ \E D \in SUBSET Operand : c.default \in [D -> Val]  \* solver_default_vars

VARIABLES
  setup,                     \* the configuration
  pc, reg, mem,              \* the firmware
  solving_started,           \* an episode is on
  forgive_jump,              \* forward branches of the episode
  forgive_fun_call,          \* calls less returns, of all episodes
  forgive_branch_condition,  \* the condition of the forward branch
  last_mem_read_event,       \* the load that started the episode
  solving_results,           \* the cache
  clone_episodes,            \* the registers on which clones are in an episode
  solver,
  panicked

firmware == <<pc, reg, mem>>
forgiven == <<forgive_jump, forgive_fun_call, forgive_branch_condition>>
episode == <<solving_started, forgiven, last_mem_read_event>>
machine == <<setup, firmware, episode, solver, panicked>>
vars == <<machine, solving_results, clone_episodes>>

\* A load of an episode is remembered by its mark.
Remembered == IF solving_started THEN {t.address : t \in solver.to_solve} ELSE {}
FirstLoad == [pc |-> last_mem_read_event.pc, size |-> last_mem_read_event.size]

Bus == INSTANCE Firmware WITH
  code <- setup.code, little <- setup.little, loads <- Remembered, first <- FirstLoad

op == setup.code[pc]

\* Where a load or a store goes, and the bytes it goes to.
Pointed == AddressOf[reg[IF op.kind = "load" THEN op.source ELSE op.destination]]
Accessed ==
  Span(Pointed, SizeOf[IF op.kind = "load" THEN op.destination ELSE op.source])

TypeOK ==
  /\ setup \in Configuration
  /\ pc \in DOMAIN setup.code
  /\ reg \in [Operand -> Val]
  /\ mem \in [Address -> Byte]
  /\ solving_started \in BOOLEAN
  /\ forgive_jump \in 0 .. 2
  /\ forgive_fun_call \in -MaxCalls .. MaxCalls
  /\ forgive_branch_condition \in Byte
  /\ last_mem_read_event \in [pc : Nat, address : Address \cup {NoAddress}, size : Size \cup {0}]
  /\ solving_results \in [Address -> Val \cup {NoResult}]
  /\ clone_episodes \subseteq Device
  /\ solver \in Solver
  /\ panicked \in BOOLEAN

Init ==
  /\ setup \in Configuration
  /\ pc = 1
  /\ reg = setup.reg
  /\ mem = setup.mem
  /\ solving_started = FALSE
  /\ forgive_jump = 0
  /\ forgive_fun_call = 0
  /\ forgive_branch_condition = 0
  /\ last_mem_read_event = [pc |-> 0, address |-> NoAddress, size |-> 0]
  /\ solving_results = [a \in Address |-> NoResult]
  /\ clone_episodes = {}
  /\ solver = NewSolver
  /\ panicked = FALSE

-----------------------------------------------------------------------------
(* The end of the hook, and the operation itself. *)

Die ==
  /\ panicked' = TRUE
  /\ UNCHANGED firmware

\* Whether the operation is added, once the hook has looked at it.
Building == solving_started /\ forgive_jump = 0 /\ forgive_fun_call >= 0

\* What the solver takes an operand to hold that it does not know.
Seen == View(setup.default, reg, setup.little)

\* The hook leaves memory m and solver s, to which the operation may be added.
Finish(m, s) ==
  /\ UNCHANGED setup
  /\ \/ /\ ~Building'
        /\ solver' = s
        /\ Bus!Execute(m)
        /\ UNCHANGED panicked
     \/ /\ Building' /\ Supported(s, op, setup.default)
        /\ WithinBounds(s, op)
        /\ solver' = AddPcode(s, op, Pointed, Seen)
        /\ Bus!Execute(m)
        /\ UNCHANGED panicked
     \/ /\ Building' /\ ~Supported(s, op, setup.default)
        /\ solver' = s
        /\ Die

-----------------------------------------------------------------------------
(* Load *)

Watched == op.kind = "load" /\ Pointed \in Device

Hit == Watched /\ setup.caching /\ solving_results[Pointed] # NoResult

LoadUnwatched ==
  /\ op.kind = "load" /\ ~Watched
  /\ UNCHANGED <<episode, solving_results>>
  /\ Finish(mem, solver)

\* An episode starts, with calls less returns at calls.
Start(calls) ==
  /\ Watched
  /\ last_mem_read_event' =
       [pc |-> pc, address |-> Pointed, size |-> SizeOf[op.destination]]
  /\ solving_started' = TRUE
  /\ forgive_jump' = 0
  /\ forgive_fun_call' = calls
  /\ UNCHANGED <<forgive_branch_condition, solving_results>>
  /\ Finish(mem, NewSolver)

\* Mutants of LoadWatched: calls and returns are counted afresh; the cache is
\* not asked.
LoadWatchedAfresh == ~Hit /\ Start(0)
LoadWatchedUncached == Start(forgive_fun_call)

\* Calls and returns stay counted.
LoadWatched == ~Hit /\ Start(forgive_fun_call)

\* A cached result reaches memory as a little-endian value of four or eight
\* bytes.  Of other values an empty slice is written, and two bytes panic.
\* An episode that is on goes on.
LoadCached ==
  /\ Hit
  /\ UNCHANGED <<episode, solving_results>>
  /\ LET n == SizeOf[op.destination]
     IN \/ /\ n = 2
           /\ Die
           /\ UNCHANGED <<setup, solver>>
        \/ /\ n \in {4, 8} /\ setup.little
           /\ Finish(Put(mem, Pointed, n, solving_results[Pointed], TRUE), solver)
        \/ /\ n # 2
           /\ n = 1 \/ ~setup.little
           /\ Finish(mem, solver)

-----------------------------------------------------------------------------
\* Mutant of Store: a store to the register goes unnoticed.
StoreUnnoticed ==
  /\ op.kind = "store"
  /\ UNCHANGED <<episode, solving_results>>
  /\ Finish(mem, solver)

\* A store to the register ends the episode: one to its first byte, not to others.
Store ==
  /\ op.kind = "store"
  /\ solving_started' = (solving_started /\ Pointed # last_mem_read_event.address)
  /\ UNCHANGED <<forgiven, last_mem_read_event, solving_results>>
  /\ Finish(mem, solver)

-----------------------------------------------------------------------------
(* CBranch *)

\* A destination that is no address counts as address 0.
Backward == (IF op.internal THEN 0 ELSE op.target) <= last_mem_read_event.pc

CBranchIdle ==
  /\ op.kind = "cbranch" /\ ~solving_started
  /\ UNCHANGED <<episode, solving_results>>
  /\ Finish(mem, solver)

\* Mutant of Expected: the condition is expected to send the loop round.
ExpectedAgain == One

\* The value this branch's condition is to have: that with which it is not taken,
\* or after a forward branch, the one that branch did not have.
Expected ==
  IF forgive_jump = 0 \/ forgive_branch_condition # 0 THEN Zero ELSE One

\* Answers are written in any order: one that rearranges their addresses, of which
\* the last one written has the least.
Orders(answer) == Injection(DOMAIN answer, DOMAIN answer)
LastOf(S, order) == CHOOSE a \in S : \A c \in S : order[a] <= order[c]

\* Mutant of Patched: all bytes of the answer are written.
PatchedWhole(answer, order) ==
  LET over(b) == {a \in DOMAIN answer : b \in Span(a, 8)}
  IN [b \in Address |->
        IF over(b) = {} THEN mem[b]
        ELSE LET a == LastOf(over(b), order)
             IN answer[a][Place(b - a + 1, 8, setup.little)]]

\* Every answer is written with the size of the load that started the episode,
\* whatever was loaded at its address.
Patched(answer, order) ==
  LET n == last_mem_read_event.size
      over(b) == {a \in DOMAIN answer : b \in Span(a, n)}
  IN [b \in Address |->
        IF over(b) = {} THEN mem[b]
        ELSE LET a == LastOf(over(b), order)
             IN answer[a][Place(b - a + 1, n, setup.little)]]

\* Every answer is cached under the address of that load: the last one remains.
Results(answer, order) ==
  IF setup.caching /\ DOMAIN answer # {}
  THEN [solving_results EXCEPT
          ![last_mem_read_event.address] = answer[LastOf(DOMAIN answer, order)]]
  ELSE solving_results

\* The branch goes back to the load or beyond: the loop is solved, and the
\* answers are written.
CloseLoop ==
  /\ op.kind = "cbranch" /\ solving_started /\ Backward
  /\ solving_started' = FALSE
  /\ UNCHANGED <<forgiven, last_mem_read_event>>
  /\ \/ /\ ~Readable(solver, op.condition, setup.default)
        /\ Die
        /\ UNCHANGED <<setup, solving_results, solver>>
     \/ /\ Readable(solver, op.condition, setup.default)
        /\ LET s == Touch(solver, op.condition, Seen)
           IN \E answer \in Answers(s, s.expr[op.condition], Expected) :
                \E order \in Orders(answer) :
                   /\ solving_results' = Results(answer, order)
                   /\ Finish(Patched(answer, order), s)

\* Mutant of Forgives: one branch too many.
ForgivesTwo == forgive_jump <= 1

Forgives == forgive_jump = 0

\* One forward branch is forgiven, but nothing is added after it.
Forward ==
  /\ op.kind = "cbranch" /\ solving_started /\ ~Backward
  /\ forgive_jump' = forgive_jump + 1
  /\ solving_started' = Forgives
  /\ forgive_branch_condition' =
       IF Forgives
       THEN reg[op.condition][Place(1, SizeOf[op.condition], setup.little)]
       ELSE forgive_branch_condition
  /\ UNCHANGED <<forgive_fun_call, last_mem_read_event, solving_results>>
  /\ Finish(mem, solver)

-----------------------------------------------------------------------------
(* Indirect calls, returns, and everything else. *)

\* The count is kept while no episode is on.
Counted(change) ==
  IF solving_started
  THEN /\ forgive_fun_call' = forgive_fun_call + change
       /\ forgive_fun_call' \in -MaxCalls .. MaxCalls
       /\ solving_started' = (forgive_fun_call' = 0)
  ELSE UNCHANGED <<forgive_fun_call, solving_started>>

ICall ==
  /\ op.kind = "icall"
  /\ Counted(1)
  /\ UNCHANGED <<forgive_jump, forgive_branch_condition, last_mem_read_event, solving_results>>
  /\ Finish(mem, solver)

Return ==
  /\ op.kind = "return"
  /\ Counted(-1)
  /\ UNCHANGED <<forgive_jump, forgive_branch_condition, last_mem_read_event, solving_results>>
  /\ Finish(mem, solver)

Other ==
  /\ op.kind \in {"calc", "branch", "unsupported"}
  /\ UNCHANGED <<episode, solving_results>>
  /\ Finish(mem, solver)

Step ==
  /\ ~panicked
  /\ UNCHANGED clone_episodes
  /\ \/ LoadUnwatched \/ LoadWatched \/ LoadCached
     \/ Store
     \/ CBranchIdle \/ CloseLoop \/ Forward
     \/ ICall \/ Return
     \/ Other

-----------------------------------------------------------------------------
(* Clones.  Of a clone that cannot find a register in the cache the model  *)
(* keeps that it is in an episode; what it solves may be any value.        *)

\* A machine that would cache the value of a is in an episode on it.
Solving(a) ==
  \/ a \in clone_episodes
  \/ setup.caching /\ solving_started /\ last_mem_read_event.address = a

\* A clone loads the register, or is made of a machine in an episode.
CloneStarts(a) ==
  /\ solving_results[a] = NoResult \/ Solving(a)
  /\ clone_episodes' = clone_episodes \cup {a}
  /\ UNCHANGED solving_results

CloneLeaves(a) ==
  /\ clone_episodes' = clone_episodes \ {a}
  /\ UNCHANGED solving_results

\* The result is inserted whether or not another has got there first; other
\* clones may still be in an episode.
CloneCaches(a) ==
  /\ a \in clone_episodes
  /\ clone_episodes' \in {clone_episodes, clone_episodes \ {a}}
  /\ \E value \in Val : solving_results' = [solving_results EXCEPT ![a] = value]

CloneStep ==
  /\ \E a \in setup.cloned : CloneStarts(a) \/ CloneLeaves(a) \/ CloneCaches(a)
  /\ UNCHANGED machine

Next == Step \/ CloneStep

Spec == Init /\ [][Next]_vars

\* The emulator goes on executing.
FairSpec == Spec /\ WF_vars(Step)
-----------------------------------------------------------------------------
(* A cached result is final once no machine is in an episode on its        *)
(* register: none ever gets into one again, and no later loop replaces it, *)
(* so a loop that waits for another value is never solved.  Until then,    *)
(* and not if the machine has no clones, another may take its place.       *)
ResultIsFinal ==
  [][ \A a \in Address :
        solving_results[a] # NoResult /\ (a \in setup.cloned => ~Solving(a)) =>
          solving_results'[a] = solving_results[a] /\ ~Solving(a)' ]_vars

\* A byte that changes in a step but by the firmware's own store.
WrittenByHook(b) == mem'[b] # mem[b] /\ ~(op.kind = "store" /\ b \in Accessed)

(* forgive_fun_call is never reset: a firmware that once returned out of   *)
(* an episode gets no loop solved again.  An indirect call would restore   *)
(* the balance, but it is handed to the solver and panics, unless a        *)
(* forward branch of the same episode has been forgiven.                   *)
BlindForever ==
  [][ forgive_fun_call < 0 =>
        \/ panicked'
        \/ CloneStep
        \/ /\ forgive_fun_call' >= 0 => op.kind = "icall" /\ forgive_jump = 1
           /\ solving_results' = solving_results
           /\ \A b \in Address : WrittenByHook(b) => Hit /\ b \in Accessed ]_vars

(* To the firmware the bypass is a memory in which a word changes as it is *)
(* loaded, or the words loaded since an episode began where it ends at a   *)
(* backward branch, and at no other time; each of these by as many bytes   *)
(* as the episode's first load had, which may be more than were loaded     *)
(* there.                                                                  *)
FirmwareSpec == Bus!Spec

(* The bypass does its work: a firmware that waits for a register, again   *)
(* and again, leaves its loop every time.  Needs that a cached result, if  *)
(* results are cached, reaches memory: little-endian, four or eight bytes, *)
(* and that it is the machine's own, not what another's loop waits for.    *)
Helped ==
  /\ setup.code \in PollingCode
  /\ setup.cloned = {}
  /\ DOMAIN setup.default = {}
  /\ setup.caching =>
       /\ setup.little
       /\ \A i \in DOMAIN setup.code :
            setup.code[i].kind = "load" => SizeOf[setup.code[i].destination] \in {4, 8}

LoopIsLeft == Helped => []<>(pc = Len(setup.code))

(* "When loading a variable from target memory, create a new variable to   *)
(* solve" (solver.rs, line 231): memory beside the watched registers is    *)
(* the firmware's alone.                                                   *)
OnlyTargetSolved == [][ \A b \in Address : WrittenByHook(b) => b \in Device ]_vars
=============================================================================
