--------------------------- MODULE ConstraintSolver ---------------------------
(***************************************************************************)
(* The solver of the bypass (bypass/solver.rs) as operators on a record.   *)
(*                                                                         *)
(* A symbolic expression is modelled by what it means: its value for every *)
(* value of the symbolic variables.  Of the expressions an operand had,    *)
(* only the last is ever looked at.  The satisfiability solver is external *)
(* and may answer with any solution.                                       *)
(***************************************************************************)
EXTENDS PCode

CONSTANTS
  SymVar,     \* bound: the names fresh variables may get, <<operand, version>>
  MaxVersion  \* bound: the versions of an operand

ASSUME SolverAssumption == SymVar \subseteq Operand \X Nat /\ MaxVersion \in Nat

Valuation == [SymVar -> Val]
Expr == [Valuation -> Val]

\* version -1: the operand is not in var_list.
Solver ==
  [version : [Operand -> -1 .. MaxVersion], expr : [Operand -> Expr],
   to_solve : SUBSET [source : Operand, name : SymVar, address : Address]]

Constant(c) == [v \in Valuation |-> c]
Apply(fun, e, f) == [v \in Valuation |-> fun[<<e[v], f[v]>>]]
Sized(e, n) == [v \in Valuation |-> Low(e[v], n)]

\* The value of variable x, which is as wide as the operand it is named after.
Value(v, x) == Low(v[x], SizeOf[x[1]])
Variable(x) == [v \in Valuation |-> Value(v, x)]

NewSolver ==
  [version |-> [k \in Operand |-> -1], expr |-> [k \in Operand |-> Constant(Zero)],
   to_solve |-> {}]

Tracked(s, k) == s.version[k] >= 0

\* var_list_insert
Insert(s, k, e) ==
  [version |-> [s.version EXCEPT ![k] = @ + 1],
   expr |-> [s.expr EXCEPT ![k] = e],
   to_solve |-> s.to_solve]

WithMarks(s, marks) == [version |-> s.version, expr |-> s.expr, to_solve |-> marks]

\* The variable of the operand's next version.
Fresh(s, k) == <<k, s.version[k] + 1>>

\* var_list_get: an operand that is not known, has no default and is no
\* register panics.
Readable(s, k, default) ==
  Tracked(s, k) \/ k \in DOMAIN default \/ k \in Register

\* What an operand that is not known is taken to hold: its default, else of the
\* register's bytes the one at the lowest address, whatever the register's size.
View(default, reg, little) ==
  [k \in Operand |->
     IF k \in DOMAIN default THEN Low(default[k], SizeOf[k])
     ELSE [Zero EXCEPT ![1] = reg[k][Place(1, SizeOf[k], little)]]]

\* Reading an operand puts it on the list.
Touch(s, k, view) == IF Tracked(s, k) THEN s ELSE Insert(s, k, Constant(view[k]))

-----------------------------------------------------------------------------
(* add_pcode *)

\* A load puts a fresh variable under the name of its pointer, which the pointer
\* then has for its expression, and marks it to be solved, whatever its address;
\* a later load with the same pointer takes the mark over.
AddLoad(s, op, address) ==
  LET x == Fresh(s, op.source)
      named == Insert(s, op.source, Variable(x))
      others == {t \in s.to_solve : t.source # op.source}
      mark == [source |-> op.source, name |-> x, address |-> address]
  IN Insert(WithMarks(named, others \cup {mark}), op.destination,
            Sized(Variable(x), SizeOf[op.destination]))

\* A store puts its value under the name of its pointer.
AddStore(s, op, view) ==
  LET t == Touch(s, op.source, view)
  IN Insert(t, op.destination, t.expr[op.source])

AddCalc(s, op, view) ==
  LET one == Touch(s, op.operands[1], view)
      two == Touch(one, op.operands[2], view)
      e == Apply(op.sym, two.expr[op.operands[1]], two.expr[op.operands[2]])
  IN Insert(two, op.result, Sized(e, SizeOf[op.result]))

\* address is where a load goes.  Anything else has no effect.
AddPcode(s, op, address, view) ==
  IF op.kind = "load" THEN AddLoad(s, op, address)
  ELSE IF op.kind = "store" THEN AddStore(s, op, view)
  ELSE IF op.kind = "calc" THEN AddCalc(s, op, view)
  ELSE s

\* The operands add_pcode reads; op.operands is a pair.
Reads(op) ==
  IF op.kind = "store" THEN {op.source}
  ELSE IF op.kind = "calc" THEN {op.operands[1], op.operands[2]}
  ELSE {}

\* add_pcode does not panic: the operation is supported and its operands known.
Supported(s, op, default) ==
  /\ op.kind \notin {"icall", "unsupported"}
  /\ \A k \in Reads(op) : Readable(s, k, default)

\* The bounds allow adding op to s.
WithinBounds(s, op) ==
  /\ op.kind = "load" => Fresh(s, op.source) \in SymVar
  /\ \A k \in Operand : s.version[k] + 1 < MaxVersion

-----------------------------------------------------------------------------
(* solve: the answers it may give when e is expected to be 0 or 1.  Every  *)
(* marked variable is solved by itself, so two answers need not go         *)
(* together; of two variables with one address either may come last.  No   *)
(* solution is no answer.                                                  *)
Answers(s, e, expected) ==
  LET sat == {v \in Valuation : e[v] = expected}
      targets == IF sat = {} THEN {} ELSE {t.address : t \in s.to_solve}
  IN { answer \in [targets -> Val] :
         \A a \in targets : \E t \in s.to_solve, v \in sat :
            t.address = a /\ answer[a] = Value(v, t.name) }
=============================================================================
