-------------------------- MODULE DummyPeripheralTree --------------------------
(***************************************************************************)
(* What the tree of the solver says of the firmware.  The history variable *)
(* exact holds the operands whose expressions the solver builds as the     *)
(* firmware computes their contents.  The others are: a pointer loaded     *)
(* through or stored through, whose name the solver gives to the word in   *)
(* memory; a register that is read with only one of its bytes; what a      *)
(* Subpiece takes from another place; and what is computed from any of     *)
(* these.                                                                  *)
(***************************************************************************)
EXTENDS DummyPeripheral

VARIABLE exact

treeVars == <<vars, exact>>

StartsEpisode == Watched /\ ~Hit

\* Of the operands the operation reads, those that are exact once it has.
Read ==
  exact \cup {k \in Reads(op) : ~Tracked(solver, k) /\ Seen[k] = reg[k]}

ExactAfter ==
  IF ~Building' THEN {}
  ELSE IF op.kind = "load"
    THEN ((IF StartsEpisode THEN {} ELSE exact) \ {op.source}) \cup {op.destination}
  ELSE IF op.kind = "store" THEN Read \ {op.destination}
  ELSE IF op.kind = "calc" /\ op.sym = op.fun /\ Reads(op) \subseteq Read
    THEN Read \cup {op.result}
  ELSE IF op.kind = "calc" THEN Read \ {op.result}
  ELSE exact

TreeStep == Step /\ exact' = IF panicked' THEN exact ELSE ExactAfter

TreeInit == Init /\ exact = {}
TreeNext == TreeStep \/ (CloneStep /\ UNCHANGED exact)
TreeSpec == TreeInit /\ [][TreeNext]_treeVars

\* The emulator goes on executing.
FairTreeSpec == TreeSpec /\ WF_treeVars(TreeStep)
-----------------------------------------------------------------------------
\* A clone has solved the register that the episode is about.
Overtaken ==
  LET a == last_mem_read_event.address
  IN a \in setup.cloned /\ setup.caching /\ solving_results[a] # NoResult

\* Loads and stores have one size, and no two words of it overlap.
OneSize ==
  \E n \in Size :
    /\ \A i \in DOMAIN setup.code :
         /\ setup.code[i].kind = "load" => SizeOf[setup.code[i].destination] = n
         /\ setup.code[i].kind = "store" => SizeOf[setup.code[i].source] = n
    /\ \A u, v \in Val : AddressOf[u] # AddressOf[v] =>
         Span(AddressOf[u], n) \cap Span(AddressOf[v], n) = {}

\* The variables of the watched register have its contents.
RegisterIs(v) ==
  LET a == last_mem_read_event.address
      n == last_mem_read_event.size
  IN \A t \in solver.to_solve :
       t.address = a => Low(v[t.name], n) = Word(mem, a, n, setup.little)

(* The tree the solver is given is the firmware's: while an episode is on  *)
(* and no branch is forgiven, some value of the variables makes every      *)
(* exact expression what its operand holds.  If memory is accessed in      *)
(* words of one size, and no clone has solved the register meanwhile       *)
(* (loaded once more, it would change to what the clone has cached), it    *)
(* also makes the watched register's variables what the register holds:    *)
(* the value read and the value solved for are of one thing.               *)
TreeMatches ==
  solving_started /\ forgive_jump = 0 =>
    LET whole == OneSize /\ ~Overtaken
    IN \E v \in Valuation :
         /\ \A k \in exact : solver.expr[k][v] = reg[k]
         /\ whole => RegisterIs(v)
=============================================================================
