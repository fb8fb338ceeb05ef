------------------------ MODULE DummyPeripheralProofs ------------------------
(***************************************************************************)
(* Theorems about DummyPeripheral and the solver, for every program, every *)
(* configuration and every bound.                                          *)
(***************************************************************************)
EXTENDS DummyPeripheral, WellFoundedInduction, TLAPS

-----------------------------------------------------------------------------
(* Bytes and words. *)

LEMMA PlaceInRange ==
  ASSUME NEW n \in Size, NEW i \in 1 .. Cells[n], NEW little
  PROVE  Place(i, n, little) \in 1 .. Cells[n] /\ Place(i, n, little) \in 1 .. Width
<1>1. Cells[n] \in 1 .. Width /\ Width \in Nat
  BY PCodeAssumption
<1> QED
  BY <1>1 DEF Place

LEMMA PlaceInSpan ==
  ASSUME NEW n \in Size, NEW a \in Address, NEW b \in Span(a, n), NEW little
  PROVE  Place(b - a + 1, n, little) \in 1 .. Width
<1>1. Cells[n] \in 1 .. Width /\ Width \in Nat /\ a \in Nat
  BY PCodeAssumption
<1>2. b - a + 1 \in 1 .. Cells[n]
  BY <1>1 DEF Span
<1> QED
  BY <1>2, PlaceInRange

LEMMA SmallValues == Zero \in Val /\ One \in Val
BY PCodeAssumption DEF Zero, One, Val

LEMMA LowType ==
  ASSUME NEW v \in Val, NEW n \in Size
  PROVE  Low(v, n) \in Val
BY PCodeAssumption DEF Low, Val

LEMMA WordType ==
  ASSUME NEW m \in [Address -> Byte], NEW n \in Size, NEW v \in Val, NEW little
  PROVE  Word(m, AddressOf[v], n, little) \in Val
<1> DEFINE a == AddressOf[v]
<1>1. /\ Cells[n] \in 1 .. Width /\ Width \in Nat /\ a \in Nat
      /\ Span(a, n) \subseteq Address /\ 0 \in Byte
  BY PCodeAssumption
<1> HIDE DEF a
<1>2. ASSUME NEW i \in 1 .. Width, i <= Cells[n]
      PROVE  m[a + Place(i, n, little) - 1] \in Byte
  <2>1. Place(i, n, little) \in 1 .. Cells[n]
    BY <1>1, <1>2, PlaceInRange
  <2>2. a + Place(i, n, little) - 1 \in Span(a, n)
    BY <1>1, <2>1 DEF Span
  <2> QED
    BY <1>1, <2>2
<1> QED
  BY <1>1, <1>2 DEF Word, Val, a

LEMMA PutType ==
  ASSUME NEW m \in [Address -> Byte], NEW n \in Size, NEW a \in Address, NEW v \in Val,
         NEW little
  PROVE  Put(m, a, n, v, little) \in [Address -> Byte]
<1>1. \A b \in Span(a, n) : v[Place(b - a + 1, n, little)] \in Byte
  BY PlaceInSpan DEF Val
<1> QED
  BY <1>1 DEF Put

\* The abstract firmware's words are these.
LEMMA SameWords ==
  /\ Bus!Operand = Operand /\ Bus!Val = Val /\ Bus!Zero = Zero
  /\ \A a, n : Bus!Span(a, n) = Span(a, n)
  /\ \A v, n : Bus!Low(v, n) = Low(v, n)
  /\ \A m, a, n, l : Bus!Word(m, a, n, l) = Word(m, a, n, l)
  /\ \A m, a, n, v, l : Bus!Put(m, a, n, v, l) = Put(m, a, n, v, l)
BY DEF Bus!Operand, Operand, Bus!Val, Val, Bus!Zero, Zero, Bus!Span, Span, Bus!Low, Low,
       Bus!Word, Word, Bus!Put, Put, Bus!Place, Place

-----------------------------------------------------------------------------
(* Operations. *)

\* What each kind of operation consists of.
OpFields(o) ==
  /\ o.kind \in {"load", "store", "calc", "cbranch"} \cup JumpKind
  /\ o.kind \in {"load", "store"} => o.source \in Operand /\ o.destination \in Operand
  /\ o.kind = "calc" =>
       /\ o.fun \in [Val \X Val -> Val] /\ o.sym \in [Val \X Val -> Val]
       /\ o.result \in Operand
       /\ o.operands[1] \in Operand /\ o.operands[2] \in Operand
  /\ o.kind = "cbranch" =>
       o.condition \in Operand /\ o.target \in Nat /\ o.internal \in BOOLEAN

LEMMA OpHasFields ==
  ASSUME NEW o \in Op
  PROVE  OpFields(o)
<1>1. CASE o \in [kind : {"load"}, source : Operand, destination : Operand]
  BY <1>1 DEF OpFields
<1>2. CASE o \in [kind : {"store"}, source : Operand, destination : Operand]
  BY <1>2 DEF OpFields
<1>3. CASE o \in [kind : {"calc"}, fun : [Val \X Val -> Val], sym : [Val \X Val -> Val],
                  operands : Operand \X Operand, result : Operand]
  BY <1>3 DEF OpFields
<1>4. CASE o \in [kind : {"cbranch"}, condition : Operand, target : Nat,
                  internal : BOOLEAN]
  BY <1>4 DEF OpFields
<1>5. CASE o \in [kind : JumpKind, target : Nat]
  BY <1>5 DEF OpFields, JumpKind
<1> QED
  BY <1>1, <1>2, <1>3, <1>4, <1>5 DEF Op

LEMMA OpInProgram ==
  ASSUME TypeOK
  PROVE  /\ op \in Op /\ OpFields(op)
         /\ setup.code \in Seq(Op) /\ pc \in Nat /\ pc \in 1 .. Len(setup.code)
         /\ op.kind \in JumpKind \cup {"cbranch"} => op.target \in DOMAIN setup.code
         /\ op.kind \notin JumpKind => pc + 1 \in DOMAIN setup.code
<1>1. Program(setup.code)
  BY DummyAssumption DEF TypeOK
<1>2. /\ setup.code \in Seq(Op) /\ Len(setup.code) \in Nat
      /\ DOMAIN setup.code = 1 .. Len(setup.code)
      /\ setup.code[Len(setup.code)].kind \in JumpKind
      /\ \A i \in DOMAIN setup.code :
           Jumps(setup.code[i]) => setup.code[i].target \in DOMAIN setup.code
  BY <1>1 DEF Program
<1>3. pc \in 1 .. Len(setup.code) /\ op \in Op
  BY <1>2 DEF TypeOK, op
<1>4. op.kind \notin JumpKind => pc # Len(setup.code)
  BY <1>2 DEF op
<1> QED
  BY <1>2, <1>3, <1>4, OpHasFields DEF op, Jumps

\* A load or a store goes to memory.
LEMMA PointedAt ==
  ASSUME TypeOK, op.kind \in {"load", "store"}
  PROVE  /\ Pointed \in Address
         /\ \A n \in Size : Span(Pointed, n) \subseteq Address
         /\ SizeOf[op.destination] \in Size /\ SizeOf[op.source] \in Size
         /\ reg[op.source] \in Val /\ reg[op.destination] \in Val
<1>1. op.source \in Operand /\ op.destination \in Operand /\ reg \in [Operand -> Val]
  BY OpInProgram DEF OpFields, TypeOK
<1> QED
  BY <1>1, PCodeAssumption DEF Pointed

\* The firmware's part of a step.
LEMMA ExecuteIs ==
  ASSUME TypeOK, NEW m, Bus!Execute(m)
  PROVE  /\ pc' = IF op.kind \in JumpKind \/ (op.kind = "cbranch" /\ reg[op.condition] # Zero)
                  THEN op.target ELSE pc + 1
         /\ op.kind = "load" =>
              reg' = [reg EXCEPT ![op.destination] =
                        Word(m, Pointed, SizeOf[op.destination], setup.little)]
         /\ op.kind = "calc" =>
              reg' = [reg EXCEPT ![op.result] =
                        Low(op.fun[<<reg[op.operands[1]], reg[op.operands[2]]>>],
                            SizeOf[op.result])]
         /\ op.kind \notin {"load", "calc"} => reg' = reg
         /\ mem' = IF op.kind = "store"
                   THEN Put(m, Pointed, SizeOf[op.source], reg[op.source], setup.little)
                   ELSE m
BY SameWords DEF Bus!Execute, Bus!Taken, Bus!JumpKind, JumpKind, Bus!Pointed, Pointed, op

LEMMA ExecuteType ==
  ASSUME TypeOK, NEW m \in [Address -> Byte], Bus!Execute(m)
  PROVE  /\ pc' \in DOMAIN setup.code
         /\ reg' \in [Operand -> Val]
         /\ mem' \in [Address -> Byte]
<1>1. pc' \in DOMAIN setup.code
  BY ExecuteIs, OpInProgram
<1>2. reg' \in [Operand -> Val]
  <2>1. CASE op.kind = "load"
    <3>1. Word(m, Pointed, SizeOf[op.destination], setup.little) \in Val
      BY <2>1, PointedAt, WordType DEF Pointed
    <3> QED
      BY <2>1, <3>1, ExecuteIs DEF TypeOK
  <2>2. CASE op.kind = "calc"
    <3>1. /\ op.fun[<<reg[op.operands[1]], reg[op.operands[2]]>>] \in Val
          /\ SizeOf[op.result] \in Size
      BY <2>2, OpInProgram, PCodeAssumption DEF OpFields, TypeOK
    <3> QED
      BY <2>2, <3>1, LowType, ExecuteIs DEF TypeOK
  <2> QED
    BY <2>1, <2>2, ExecuteIs DEF TypeOK
<1>3. mem' \in [Address -> Byte]
  BY ExecuteIs, PointedAt, PutType
<1> QED
  BY <1>1, <1>2, <1>3

-----------------------------------------------------------------------------
(* The solver's operators keep its type. *)

Mark == [source : Operand, name : SymVar, address : Address]

\* A solver whose operands have versions up to n.
SolverTo(n) ==
  [version : [Operand -> -1 .. n], expr : [Operand -> Expr], to_solve : SUBSET Mark]

LEMMA SolverIs ==
  /\ Solver = SolverTo(MaxVersion)
  /\ MaxVersion \in Nat
BY SolverAssumption DEF Solver, SolverTo, Mark

\* A name is an operand's.
LEMMA NameIs ==
  ASSUME NEW x \in SymVar
  PROVE  x[1] \in Operand /\ x[2] \in Nat /\ SizeOf[x[1]] \in Size
BY SolverAssumption, PCodeAssumption

LEMMA OperatorTypes ==
  /\ \A c \in Val : Constant(c) \in Expr
  /\ \A x \in SymVar : Variable(x) \in Expr
  /\ \A v \in Valuation, x \in SymVar : Value(v, x) \in Val
  /\ \A fun \in [Val \X Val -> Val], e, f \in Expr : Apply(fun, e, f) \in Expr
  /\ \A e \in Expr, n \in Size : Sized(e, n) \in Expr
<1>1. \A v \in Valuation, x \in SymVar : Value(v, x) \in Val
  BY NameIs, LowType DEF Value, Valuation
<1>2. \A e \in Expr, n \in Size : Sized(e, n) \in Expr
  BY LowType DEF Sized, Expr
<1> QED
  BY <1>1, <1>2 DEF Constant, Variable, Apply, Expr

LEMMA NewSolverType == NewSolver \in Solver
<1>1. Constant(Zero) \in Expr
  BY OperatorTypes, SmallValues
<1>2. MaxVersion \in Nat
  BY SolverAssumption
<1> QED
  BY <1>1, <1>2 DEF NewSolver, Solver

LEMMA InsertType ==
  ASSUME NEW n \in Int, NEW s \in SolverTo(n), NEW k \in Operand, NEW e \in Expr
  PROVE  Insert(s, k, e) \in SolverTo(n + 1)
<1>1. [s.version EXCEPT ![k] = @ + 1] \in [Operand -> -1 .. n + 1]
  BY DEF SolverTo
<1>2. [s.expr EXCEPT ![k] = e] \in [Operand -> Expr]
  BY DEF SolverTo
<1> QED
  BY <1>1, <1>2 DEF Insert, SolverTo

LEMMA InsertIs ==
  ASSUME NEW n \in Int, NEW s \in SolverTo(n), NEW k \in Operand, NEW e
  PROVE  /\ Insert(s, k, e).version = [s.version EXCEPT ![k] = @ + 1]
         /\ Insert(s, k, e).expr = [s.expr EXCEPT ![k] = e]
         /\ Insert(s, k, e).to_solve = s.to_solve
BY DEF Insert

\* Reading an operand leaves it on the list.
LEMMA TouchType ==
  ASSUME NEW n \in Nat, NEW s \in SolverTo(n), NEW k \in Operand,
         NEW view \in [Operand -> Val]
  PROVE  /\ Touch(s, k, view) \in SolverTo(n)
         /\ Touch(s, k, view).to_solve = s.to_solve
         /\ Tracked(Touch(s, k, view), k)
         /\ \A j \in Operand : Tracked(s, j) => Tracked(Touch(s, k, view), j)
<1>1. CASE Tracked(s, k)
  BY <1>1 DEF Touch
<1>2. CASE ~Tracked(s, k)
  <2> DEFINE e == Constant(view[k])
  <2>1. e \in Expr
    BY OperatorTypes
  <2> HIDE DEF e
  <2>2. Touch(s, k, view) = Insert(s, k, e)
    BY <1>2 DEF Touch, e
  <2>3. s.version[k] = -1
    BY <1>2 DEF Tracked, SolverTo
  <2>4. /\ Insert(s, k, e).version = [s.version EXCEPT ![k] = 0]
        /\ Insert(s, k, e).expr = [s.expr EXCEPT ![k] = e]
        /\ Insert(s, k, e).to_solve = s.to_solve
    BY <2>3, InsertIs
  <2>5. Insert(s, k, e) \in SolverTo(n)
    <3>1. [s.version EXCEPT ![k] = 0] \in [Operand -> -1 .. n]
      BY DEF SolverTo
    <3>2. [s.expr EXCEPT ![k] = e] \in [Operand -> Expr]
      BY <2>1 DEF SolverTo
    <3> QED
      BY <2>4, <3>1, <3>2 DEF Insert, SolverTo
  <2>6. Tracked(Insert(s, k, e), k)
    BY <2>4 DEF Tracked, SolverTo
  <2>7. \A j \in Operand : Tracked(s, j) => Tracked(Insert(s, k, e), j)
    BY <2>4 DEF Tracked, SolverTo
  <2> QED
    BY <2>2, <2>4, <2>5, <2>6, <2>7
<1> QED
  BY <1>1, <1>2

\* A load puts a variable under two names and marks it.
LEMMA AddLoadIs ==
  ASSUME NEW s \in Solver, NEW o \in Op, OpFields(o), o.kind = "load",
         WithinBounds(s, o), NEW a \in Address
  PROVE  /\ AddLoad(s, o, a) \in Solver
         /\ Fresh(s, o.source) \in SymVar
         /\ AddLoad(s, o, a).to_solve =
              {t \in s.to_solve : t.source # o.source}
              \cup {[source |-> o.source, name |-> Fresh(s, o.source), address |-> a]}
<1> DEFINE x == Fresh(s, o.source)
           named == Insert(s, o.source, Variable(x))
           mark == [source |-> o.source, name |-> x, address |-> a]
           marks == {t \in s.to_solve : t.source # o.source} \cup {mark}
           marked == WithMarks(named, marks)
           e == Sized(Variable(x), SizeOf[o.destination])
<1>1. o.source \in Operand /\ o.destination \in Operand /\ x \in SymVar
  BY DEF OpFields, WithinBounds
<1>2. s \in SolverTo(MaxVersion - 2) /\ MaxVersion - 2 \in Int
  BY SolverAssumption DEF WithinBounds, Solver, SolverTo, Mark
<1>3. Variable(x) \in Expr /\ e \in Expr
  BY <1>1, OperatorTypes, PCodeAssumption
<1>4. named \in SolverTo((MaxVersion - 2) + 1)
  BY <1>1, <1>2, <1>3, InsertType
<1>5. mark \in Mark
  BY <1>1 DEF Mark
<1>6. marks \in SUBSET Mark
  BY <1>2, <1>5 DEF SolverTo
<1>7. marked \in SolverTo(MaxVersion - 1) /\ MaxVersion - 1 \in Int
  <2> HIDE DEF named, marks
  <2>1. (MaxVersion - 2) + 1 = MaxVersion - 1 /\ MaxVersion - 1 \in Int
    BY SolverAssumption
  <2>2. named \in SolverTo(MaxVersion - 1)
    BY <1>4, <2>1
  <2> QED
    BY <1>6, <2>1, <2>2 DEF SolverTo, WithMarks
<1>8. AddLoad(s, o, a) = Insert(marked, o.destination, e) /\ marked.to_solve = marks
  BY DEF AddLoad, WithMarks
<1> HIDE DEF marked, e
<1>9. /\ Insert(marked, o.destination, e) \in SolverTo((MaxVersion - 1) + 1)
      /\ Insert(marked, o.destination, e).to_solve = marked.to_solve
  <2> HIDE DEF x
  <2>1. Insert(marked, o.destination, e) \in SolverTo((MaxVersion - 1) + 1)
    BY <1>1, <1>3, <1>7, InsertType
  <2> QED
    BY <2>1 DEF Insert
<1>10. (MaxVersion - 1) + 1 = MaxVersion
  BY SolverAssumption
<1> QED
  BY <1>1, <1>8, <1>9, <1>10, SolverIs

\* What every operation but a load does to the solver's type.
LEMMA AddOtherType ==
  ASSUME NEW s \in Solver, NEW o \in Op, OpFields(o), o.kind \in {"store", "calc"},
         WithinBounds(s, o), NEW a, NEW view \in [Operand -> Val]
  PROVE  /\ AddPcode(s, o, a, view) \in Solver
         /\ AddPcode(s, o, a, view).to_solve = s.to_solve
<1> DEFINE n == MaxVersion - 1
<1>0. n + 1 = MaxVersion
  BY SolverAssumption
<1>1. CASE o.kind = "store"
  <2> DEFINE t == Touch(s, o.source, view)
  <2>1. o.source \in Operand /\ o.destination \in Operand
    BY <1>1 DEF OpFields
  <2>2. s \in SolverTo(n) /\ n \in Nat /\ n \in Int
    BY <2>1, SolverAssumption DEF WithinBounds, Solver, SolverTo, Mark
  <2> HIDE DEF n
  <2>3. t \in SolverTo(n) /\ t.to_solve = s.to_solve
    BY <2>1, <2>2, TouchType
  <2> HIDE DEF t
  <2>4. t.expr[o.source] \in Expr
    BY <2>1, <2>3 DEF SolverTo
  <2>5. /\ Insert(t, o.destination, t.expr[o.source]) \in SolverTo(n + 1)
        /\ Insert(t, o.destination, t.expr[o.source]).to_solve = t.to_solve
    <3>1. Insert(t, o.destination, t.expr[o.source]) \in SolverTo(n + 1)
      BY <2>1, <2>2, <2>3, <2>4, InsertType
    <3> QED
      BY <3>1 DEF Insert
  <2>6. AddPcode(s, o, a, view) = Insert(t, o.destination, t.expr[o.source])
    BY <1>1 DEF AddPcode, AddStore, t
  <2> QED
    BY <1>0, <2>3, <2>5, <2>6, SolverIs
<1>2. CASE o.kind = "calc"
  <2> DEFINE one == Touch(s, o.operands[1], view)
             two == Touch(one, o.operands[2], view)
             e == Sized(Apply(o.sym, two.expr[o.operands[1]], two.expr[o.operands[2]]),
                        SizeOf[o.result])
  <2>1. /\ o.operands[1] \in Operand /\ o.operands[2] \in Operand /\ o.result \in Operand
        /\ o.sym \in [Val \X Val -> Val] /\ SizeOf[o.result] \in Size
    BY <1>2, PCodeAssumption DEF OpFields
  <2>2. s \in SolverTo(n) /\ n \in Nat /\ n \in Int
    BY <2>1, SolverAssumption DEF WithinBounds, Solver, SolverTo, Mark
  <2> HIDE DEF n
  <2>3. one \in SolverTo(n) /\ one.to_solve = s.to_solve
    BY <2>1, <2>2, TouchType
  <2> HIDE DEF one
  <2>4. two \in SolverTo(n) /\ two.to_solve = s.to_solve
    BY <2>1, <2>2, <2>3, TouchType
  <2> HIDE DEF two
  <2>5. two.expr[o.operands[1]] \in Expr /\ two.expr[o.operands[2]] \in Expr
    BY <2>1, <2>4 DEF SolverTo
  <2>6. e \in Expr
    BY <2>1, <2>5, OperatorTypes
  <2> HIDE DEF e
  <2>7. /\ Insert(two, o.result, e) \in SolverTo(n + 1)
        /\ Insert(two, o.result, e).to_solve = two.to_solve
    <3>1. Insert(two, o.result, e) \in SolverTo(n + 1)
      BY <2>1, <2>2, <2>4, <2>6, InsertType
    <3> QED
      BY <3>1 DEF Insert
  <2>8. AddPcode(s, o, a, view) = Insert(two, o.result, e)
    BY <1>2 DEF AddPcode, AddCalc, one, two, e
  <2> QED
    BY <1>0, <2>4, <2>7, <2>8, SolverIs
<1> QED
  BY <1>1, <1>2

-----------------------------------------------------------------------------
(* Types. *)

LEMMA SeenType ==
  ASSUME TypeOK
  PROVE  Seen \in [Operand -> Val]
<1> DEFINE D == setup.default
<1>1. PICK E \in SUBSET Operand : D \in [E -> Val]
  BY DummyAssumption DEF TypeOK
<1>2. ASSUME NEW k \in Operand
      PROVE  (IF k \in DOMAIN D THEN Low(D[k], SizeOf[k])
              ELSE [Zero EXCEPT ![1] = reg[k][Place(1, SizeOf[k], setup.little)]]) \in Val
  <2>1. SizeOf[k] \in Size /\ reg[k] \in Val
    BY PCodeAssumption DEF TypeOK
  <2>2. k \in DOMAIN D => Low(D[k], SizeOf[k]) \in Val
    BY <1>1, <2>1, LowType
  <2>3. reg[k][Place(1, SizeOf[k], setup.little)] \in Byte
    <3>1. 1 \in 1 .. Cells[SizeOf[k]]
      BY <2>1, PCodeAssumption
    <3> QED
      BY <2>1, <3>1, PlaceInRange DEF Val
  <2>4. [Zero EXCEPT ![1] = reg[k][Place(1, SizeOf[k], setup.little)]] \in Val
    BY <2>3, SmallValues DEF Val
  <2> QED
    BY <2>2, <2>4
<1> QED
  BY <1>2 DEF Seen, View

LEMMA AddPcodeType ==
  ASSUME TypeOK, NEW s \in Solver, WithinBounds(s, op)
  PROVE  AddPcode(s, op, Pointed, Seen) \in Solver
<1>1. op \in Op /\ OpFields(op) /\ Seen \in [Operand -> Val]
  BY OpInProgram, SeenType
<1>2. CASE op.kind = "load"
  BY <1>1, <1>2, AddLoadIs, PointedAt DEF AddPcode
<1>3. CASE op.kind \in {"store", "calc"}
  BY <1>1, <1>3, AddOtherType
<1>4. CASE op.kind \notin {"load", "store", "calc"}
  BY <1>4 DEF AddPcode
<1> QED
  BY <1>2, <1>3, <1>4

LEMMA FinishType ==
  ASSUME TypeOK, NEW m \in [Address -> Byte], NEW s \in Solver, Finish(m, s)
  PROVE  /\ setup' = setup
         /\ pc' \in DOMAIN setup.code
         /\ reg' \in [Operand -> Val]
         /\ mem' \in [Address -> Byte]
         /\ solver' \in Solver
         /\ panicked' \in BOOLEAN
<1>1. setup' = setup
  BY DEF Finish
<1>2. CASE Bus!Execute(m) /\ UNCHANGED panicked /\ solver' = s
  BY <1>1, <1>2, ExecuteType DEF TypeOK
<1>3. CASE /\ Bus!Execute(m) /\ UNCHANGED panicked /\ WithinBounds(s, op)
           /\ solver' = AddPcode(s, op, Pointed, Seen)
  BY <1>1, <1>3, ExecuteType, AddPcodeType DEF TypeOK
<1>4. CASE Die /\ solver' = s
  BY <1>1, <1>4 DEF TypeOK, Die, firmware
<1> QED
  BY <1>2, <1>3, <1>4 DEF Finish

\* The last of some answers is one of them.
LEMMA LastIs ==
  ASSUME NEW D \in SUBSET Nat, NEW order \in [D -> D], NEW S \in SUBSET D, S # {}
  PROVE  LastOf(S, order) \in S
<1> DEFINE T == {order[a] : a \in S}
           R == OpToRel(<, Nat)
<1>1. T \subseteq Nat /\ T # {}
  OBVIOUS
<1>2. PICK x \in T : \A y \in T : ~ (<<y, x>> \in R)
  BY <1>1, NatLessThanWellFounded, WFMin
<1>3. ASSUME NEW y \in T PROVE x <= y
  <2>1. x \in Nat /\ y \in Nat /\ <<y, x>> \notin R
    BY <1>1, <1>2
  <2> HIDE DEF T, R
  <2>2. R = {ss \in Nat \X Nat : ss[1] < ss[2]}
    BY DEF R, OpToRel
  <2>3. ~(y < x)
    BY <2>1, <2>2
  <2> QED
    BY <2>1, <2>3
<1>4. PICK a \in S : x = order[a]
  BY <1>2
<1>5. \A c \in S : order[a] <= order[c]
  BY <1>3, <1>4
<1> QED
  BY <1>5 DEF LastOf

\* What is written, and where.
LEMMA PatchedType ==
  ASSUME TypeOK, last_mem_read_event.size \in Size,
         NEW s \in Solver, NEW e \in Expr, NEW answer \in Answers(s, e, Expected),
         NEW order \in Orders(answer)
  PROVE  /\ Patched(answer, order) \in [Address -> Byte]
         /\ DOMAIN answer \subseteq {t.address : t \in s.to_solve}
         /\ Results(answer, order) \in [Address -> Val \cup {NoResult}]
         /\ \A a \in Address : a # last_mem_read_event.address =>
              Results(answer, order)[a] = solving_results[a]
         /\ \A b \in Address : Patched(answer, order)[b] # mem[b] =>
              \E a \in DOMAIN answer : b \in Span(a, last_mem_read_event.size)
<1> DEFINE D == DOMAIN answer
           n == last_mem_read_event.size
           over(b) == {a \in D : b \in Span(a, n)}
           chosen(b) == LastOf(over(b), order)
<1>1. D \subseteq {t.address : t \in s.to_solve} /\ answer \in [D -> Val]
  BY DEF Answers
<1>2. D \subseteq Address /\ D \in SUBSET Nat
  BY <1>1, PCodeAssumption DEF Solver
<1>3. order \in [D -> D]
  BY DEF Orders, Injection
<1>4. \A S \in SUBSET D : S # {} => LastOf(S, order) \in S
  BY <1>2, <1>3, LastIs
<1>5. ASSUME NEW b \in Address, over(b) # {}
      PROVE  answer[chosen(b)][Place(b - chosen(b) + 1, n, setup.little)] \in Byte
  <2>1. chosen(b) \in over(b)
    BY <1>4, <1>5
  <2>2. chosen(b) \in D /\ b \in Span(chosen(b), n)
    BY <2>1
  <2> HIDE DEF chosen, n
  <2>3. answer[chosen(b)] \in Val /\ chosen(b) \in Address
    BY <1>1, <1>2, <2>2
  <2>4. Place(b - chosen(b) + 1, n, setup.little) \in 1 .. Width
    BY <2>2, <2>3, PlaceInSpan DEF n
  <2> QED
    BY <2>3, <2>4 DEF Val
<1>6. Patched(answer, order) =
        [b \in Address |->
           IF over(b) = {} THEN mem[b]
           ELSE answer[chosen(b)][Place(b - chosen(b) + 1, n, setup.little)]]
  BY DEF Patched
<1>7. Patched(answer, order) \in [Address -> Byte]
  <2> HIDE DEF over, chosen, n
  <2>1. mem \in [Address -> Byte]
    BY DEF TypeOK
  <2> QED
    BY <1>5, <1>6, <2>1
<1>8. \A b \in Address : Patched(answer, order)[b] # mem[b] => over(b) # {}
  <2> HIDE DEF over, chosen, n
  <2> QED
    BY <1>6
<1>9. D # {} => answer[LastOf(D, order)] \in Val
  BY <1>1, <1>4
<1>10. Results(answer, order) \in [Address -> Val \cup {NoResult}]
  BY <1>9 DEF Results, TypeOK
<1>11. \A a \in Address : a # last_mem_read_event.address =>
         Results(answer, order)[a] = solving_results[a]
  BY DEF Results, TypeOK
<1> QED
  BY <1>1, <1>7, <1>8, <1>10, <1>11

\* The solver a branch's condition has been read from.
LEMMA ReadType ==
  ASSUME TypeOK, op.kind = "cbranch"
  PROVE  /\ Touch(solver, op.condition, Seen) \in Solver
         /\ Touch(solver, op.condition, Seen).expr[op.condition] \in Expr
         /\ Touch(solver, op.condition, Seen).to_solve = solver.to_solve
<1> DEFINE s == Touch(solver, op.condition, Seen)
<1>1. op.condition \in Operand
  BY OpInProgram DEF OpFields
<1>2. solver \in SolverTo(MaxVersion) /\ MaxVersion \in Nat
  BY SolverIs DEF TypeOK
<1>3. s \in SolverTo(MaxVersion) /\ s.to_solve = solver.to_solve
  BY <1>1, <1>2, SeenType, TouchType
<1> HIDE DEF s
<1>4. s.expr[op.condition] \in Expr
  BY <1>1, <1>3 DEF SolverTo
<1> QED
  BY <1>3, <1>4, SolverIs DEF s

\* No episode goes on after its second forward branch, and an episode has begun
\* with a load.
Typed ==
  /\ TypeOK
  /\ solving_started => forgive_jump <= 1 /\ last_mem_read_event.size \in Size

LEMMA InitType == Init => Typed
<1> SUFFICES ASSUME Init PROVE Typed
  OBVIOUS
<1>1. setup \in Configuration /\ Program(setup.code)
  BY DummyAssumption DEF Init
<1>2. pc \in DOMAIN setup.code
  <2>1. setup.code \in Seq(Op) /\ setup.code # <<>> /\ Len(setup.code) \in Nat
    BY <1>1 DEF Program
  <2> QED
    BY <2>1 DEF Init
<1>3. reg \in [Operand -> Val] /\ mem \in [Address -> Byte]
  BY DummyAssumption DEF Init
<1>4. solver \in Solver
  BY NewSolverType DEF Init
<1>5. forgive_fun_call \in -MaxCalls .. MaxCalls /\ forgive_branch_condition \in Byte
  BY DummyAssumption, PCodeAssumption DEF Init
<1>6. /\ last_mem_read_event \in
           [pc : Nat, address : Address \cup {NoAddress}, size : Size \cup {0}]
      /\ solving_results \in [Address -> Val \cup {NoResult}]
      /\ clone_episodes \subseteq Device
  BY DEF Init
<1>7. /\ solving_started = FALSE /\ panicked = FALSE
      /\ forgive_jump = 0
  BY DEF Init
<1>8. TypeOK
  <2>1. 0 \in 0 .. 2 /\ FALSE \in BOOLEAN
    OBVIOUS
  <2> QED
    BY <1>1, <1>2, <1>3, <1>4, <1>5, <1>6, <1>7, <2>1 DEF TypeOK
<1> QED
  BY <1>7, <1>8 DEF Typed

\* Clones insert results and touch nothing else of this machine.
LEMMA CloneInserts ==
  ASSUME TypeOK, CloneStep
  PROVE  /\ UNCHANGED machine
         /\ solving_results' \in [Address -> Val \cup {NoResult}]
         /\ clone_episodes' \subseteq Device
         /\ clone_episodes \subseteq setup.cloned => clone_episodes' \subseteq setup.cloned
         /\ \A a \in Address \ setup.cloned : solving_results'[a] = solving_results[a]
         /\ \A a \in Address :
              solving_results[a] # NoResult => solving_results'[a] # NoResult
<1>1. PICK a \in setup.cloned : CloneStarts(a) \/ CloneLeaves(a) \/ CloneCaches(a)
  BY DEF CloneStep
<1>2. setup.cloned \subseteq Device /\ NoResult \notin Val
  BY DummyAssumption DEF TypeOK
<1>3. CASE CloneStarts(a) \/ CloneLeaves(a)
  BY <1>1, <1>2, <1>3 DEF CloneStep, CloneStarts, CloneLeaves, TypeOK
<1>4. CASE CloneCaches(a)
  BY <1>1, <1>2, <1>4 DEF CloneStep, CloneCaches, TypeOK
<1> QED
  BY <1>1, <1>3, <1>4

LEMMA StepType ==
  ASSUME Typed, Step
  PROVE  Typed'
<1>0. clone_episodes' \subseteq Device
  BY DEF Typed, TypeOK, Step
<1> USE <1>0 DEF Typed
<1> USE OpInProgram DEF OpFields
<1>1. mem \in [Address -> Byte] /\ solver \in Solver
  BY DEF TypeOK
<1>2. CASE LoadUnwatched
  BY <1>1, <1>2, FinishType DEF LoadUnwatched, episode, forgiven, TypeOK
<1>3. CASE LoadWatched
  <2>1. Finish(mem, NewSolver) /\ op.kind = "load"
    BY <1>3 DEF LoadWatched, Start, Watched
  <2>2. /\ setup' = setup
        /\ pc' \in DOMAIN setup.code
        /\ reg' \in [Operand -> Val]
        /\ mem' \in [Address -> Byte]
        /\ solver' \in Solver
        /\ panicked' \in BOOLEAN
    BY <1>1, <2>1, NewSolverType, FinishType
  <2>3. /\ last_mem_read_event' \in
             [pc : Nat, address : Address \cup {NoAddress}, size : Size \cup {0}]
        /\ last_mem_read_event'.size \in Size
    BY <1>3, <2>1, PointedAt DEF LoadWatched, Start
  <2> QED
    BY <1>3, <2>2, <2>3 DEF LoadWatched, Start, TypeOK
<1>4. CASE LoadCached
  <2> DEFINE n == SizeOf[op.destination]
             m == Put(mem, Pointed, n, solving_results[Pointed], TRUE)
  <2>1. /\ op.kind = "load" /\ Pointed \in Address /\ n \in Size
        /\ solving_results[Pointed] \in Val
    BY <1>4, PointedAt DEF LoadCached, Hit, Watched, TypeOK
  <2>2. m \in [Address -> Byte]
    BY <1>1, <2>1, PutType
  <2> HIDE DEF m
  <2>3. CASE Finish(m, solver)
    BY <1>1, <1>4, <2>2, <2>3, FinishType DEF LoadCached, episode, forgiven, TypeOK
  <2>4. CASE Finish(mem, solver)
    BY <1>1, <1>4, <2>4, FinishType DEF LoadCached, episode, forgiven, TypeOK
  <2>5. CASE Die /\ UNCHANGED <<setup, solver>>
    BY <1>4, <2>5 DEF LoadCached, Die, firmware, episode, forgiven, TypeOK
  <2> QED
    BY <1>4, <2>3, <2>4, <2>5 DEF LoadCached, m
<1>5. CASE Store
  BY <1>1, <1>5, FinishType DEF Store, forgiven, TypeOK
<1>6. CASE CBranchIdle
  BY <1>1, <1>6, FinishType DEF CBranchIdle, episode, forgiven, TypeOK
<1>7. CASE CloseLoop
  <2> DEFINE s == Touch(solver, op.condition, Seen)
  <2>1. op.kind = "cbranch" /\ last_mem_read_event.size \in Size
    BY <1>7 DEF CloseLoop
  <2>2. CASE Die /\ UNCHANGED <<setup, solving_results, solver>>
    BY <1>7, <2>2 DEF CloseLoop, Die, firmware, forgiven, TypeOK
  <2>3. ASSUME NEW answer \in Answers(s, s.expr[op.condition], Expected),
               NEW order \in Orders(answer),
               solving_results' = Results(answer, order), Finish(Patched(answer, order), s)
        PROVE  Typed'
    <3>1. s \in Solver /\ s.expr[op.condition] \in Expr
      BY <2>1, ReadType
    <3> HIDE DEF s
    <3>2. /\ Patched(answer, order) \in [Address -> Byte]
          /\ solving_results' \in [Address -> Val \cup {NoResult}]
      BY <2>1, <2>3, <3>1, PatchedType
    <3> QED
      BY <1>7, <2>3, <3>1, <3>2, FinishType DEF CloseLoop, forgiven, TypeOK
  <2> QED
    BY <1>7, <2>2, <2>3 DEF CloseLoop
<1>8. CASE Forward
  <2>1. forgive_jump' \in 0 .. 2
    BY <1>8 DEF Forward, Forgives, TypeOK
  <2>2. forgive_branch_condition' \in Byte
    <3>1. op.kind = "cbranch" /\ reg \in [Operand -> Val]
      BY <1>8 DEF Forward, TypeOK
    <3>2. op.condition \in Operand /\ SizeOf[op.condition] \in Size
      BY <3>1, PCodeAssumption
    <3>3. 1 \in 1 .. Cells[SizeOf[op.condition]]
      BY <3>2, PCodeAssumption
    <3>4. reg[op.condition][Place(1, SizeOf[op.condition], setup.little)] \in Byte
      BY <3>1, <3>2, <3>3, PlaceInRange DEF Val
    <3> QED
      BY <1>8, <3>4 DEF Forward, TypeOK
  <2>3. /\ solving_started' \in BOOLEAN
        /\ solving_started' => forgive_jump' <= 1 /\ solving_started
    <3>1. solving_started' = (forgive_jump = 0) /\ solving_started
      BY <1>8 DEF Forward, Forgives
    <3>2. forgive_jump = 0 => forgive_jump' <= 1
      BY <1>8 DEF Forward
    <3> QED
      BY <3>1, <3>2
  <2>4. /\ setup' = setup
        /\ pc' \in DOMAIN setup.code
        /\ reg' \in [Operand -> Val]
        /\ mem' \in [Address -> Byte]
        /\ solver' \in Solver
        /\ panicked' \in BOOLEAN
    BY <1>1, <1>8, FinishType DEF Forward
  <2>5. UNCHANGED <<forgive_fun_call, last_mem_read_event, solving_results>>
    BY <1>8 DEF Forward
  <2> QED
    BY <2>1, <2>2, <2>3, <2>4, <2>5 DEF TypeOK
<1>9. ASSUME NEW change \in {-1, 1}, Counted(change)
      PROVE  /\ solving_started' \in BOOLEAN
             /\ solving_started' => solving_started
             /\ forgive_fun_call' \in -MaxCalls .. MaxCalls
  BY <1>9 DEF Counted, TypeOK
<1>10. CASE ICall
  BY <1>1, <1>9, <1>10, FinishType DEF ICall, TypeOK
<1>11. CASE Return
  BY <1>1, <1>9, <1>11, FinishType DEF Return, TypeOK
<1>12. CASE Other
  BY <1>1, <1>12, FinishType DEF Other, episode, forgiven, TypeOK
<1> QED
  BY <1>2, <1>3, <1>4, <1>5, <1>6, <1>7, <1>8, <1>10, <1>11, <1>12 DEF Step

LEMMA NextType == Typed /\ [Next]_vars => Typed'
<1> SUFFICES ASSUME Typed, [Next]_vars PROVE Typed'
  OBVIOUS
<1>1. CASE UNCHANGED vars
  BY <1>1 DEF vars, machine, firmware, episode, forgiven, Typed, TypeOK
<1>2. CASE CloneStep
  BY <1>2, CloneInserts DEF machine, firmware, episode, forgiven, Typed, TypeOK
<1> QED
  BY <1>1, <1>2, StepType DEF Next

(* Every variable keeps its type: the solver stays one of its bounds, and  *)
(* what it answers is contents of memory.                                  *)
THEOREM TypeCorrect == Spec => []TypeOK
<1>1. Typed => TypeOK
  BY DEF Typed
<1> QED
  BY <1>1, InitType, NextType, PTL DEF Spec

-----------------------------------------------------------------------------
(* What an episode relies on. *)

\* While a loop is being followed its register has no cached result: a load
\* of one that has does not start an episode, and only a loop's end caches,
\* this machine's or a clone's.
NotCached ==
  solving_started =>
    LET a == last_mem_read_event.address
    IN /\ a \in Device
       /\ setup.caching /\ a \notin setup.cloned => solving_results[a] = NoResult

Alone == clone_episodes \subseteq setup.cloned

\* Nothing is added while fewer calls than returns are counted, and what starts
\* with an addition has the load that started it.
Blank == solving_started /\ forgive_fun_call < 0 => solver = NewSolver
Begun == Building /\ ~panicked => solver.to_solve # {}

Sound == Typed /\ NotCached /\ Alone /\ Blank /\ Begun

LEMMA FinishSolver ==
  ASSUME TypeOK, NEW m, NEW s, Finish(m, s)
  PROVE  \/ solver' = s /\ (panicked' \/ ~Building')
         \/ /\ Building' /\ WithinBounds(s, op)
            /\ solver' = AddPcode(s, op, Pointed, Seen)
BY DEF Finish, Die

\* Only a load marks anything, and it marks its address.
LEMMA FinishMarks ==
  ASSUME TypeOK, NEW m, NEW s \in Solver, Finish(m, s)
  PROVE  /\ \A t \in solver'.to_solve :
              t \in s.to_solve \/ (op.kind = "load" /\ t.address = Pointed)
         /\ Building' /\ ~panicked' =>
              (s.to_solve # {} \/ op.kind = "load" => solver'.to_solve # {})
<1>1. CASE solver' = s /\ (panicked' \/ ~Building')
  BY <1>1
<1>2. CASE WithinBounds(s, op) /\ solver' = AddPcode(s, op, Pointed, Seen)
  <2>0. op \in Op /\ OpFields(op)
    BY OpInProgram
  <2>1. CASE op.kind = "load"
    <3>1. solver' = AddLoad(s, op, Pointed)
      BY <1>2, <2>1 DEF AddPcode
    <3> DEFINE mark == [source |-> op.source, name |-> Fresh(s, op.source),
                        address |-> Pointed]
    <3>2. solver'.to_solve = {t \in s.to_solve : t.source # op.source} \cup {mark}
      BY <1>2, <2>0, <2>1, <3>1, AddLoadIs, PointedAt
    <3>3. mark.address = Pointed
      OBVIOUS
    <3> HIDE DEF mark
    <3> QED
      BY <2>1, <3>2, <3>3
  <2>2. CASE op.kind \in {"store", "calc"}
    <3>1. solver'.to_solve = s.to_solve
      BY <1>2, <2>0, <2>2, SeenType, AddOtherType
    <3> QED
      BY <2>2, <3>1
  <2>3. CASE op.kind \notin {"load", "store", "calc"}
    BY <1>2, <2>3 DEF AddPcode
  <2> QED
    BY <2>1, <2>2, <2>3
<1> QED
  BY <1>1, <1>2, FinishSolver

LEMMA InitSound == Init => Sound
<1> SUFFICES ASSUME Init PROVE Sound
  OBVIOUS
<1>1. Typed
  BY InitType
<1> QED
  BY <1>1 DEF Init, Sound, NotCached, Alone, Blank, Begun, Building

LEMMA StepBegun ==
  ASSUME Sound, Step
  PROVE  Begun'
<1>0. /\ TypeOK /\ solver \in Solver /\ ~panicked /\ forgive_jump \in 0 .. 2
      /\ forgive_fun_call \in Int /\ (Building => solver.to_solve # {})
  BY DEF Sound, Typed, TypeOK, Begun, Step
<1>1. ASSUME NEW m, Finish(m, solver), Building' => Building
      PROVE  Begun'
  BY <1>0, <1>1, FinishMarks DEF Begun
<1>2. ASSUME Die, UNCHANGED <<setup, solver>>
      PROVE  Begun'
  BY <1>2 DEF Die, Begun
<1>3. CASE LoadUnwatched \/ LoadCached \/ CBranchIdle \/ Other
  <2>1. Building' => Building
    BY <1>3 DEF LoadUnwatched, LoadCached, CBranchIdle, Other, episode, forgiven, Building
  <2> QED
    BY <1>1, <1>2, <1>3, <2>1 DEF LoadUnwatched, LoadCached, CBranchIdle, Other
<1>4. CASE LoadWatched
  <2>1. Finish(mem, NewSolver) /\ op.kind = "load"
    BY <1>4 DEF LoadWatched, Start, Watched
  <2> QED
    BY <1>0, <2>1, NewSolverType, FinishMarks DEF Begun
<1>5. CASE Store
  <2>1. Building' => Building
    BY <1>5 DEF Store, forgiven, Building
  <2> QED
    BY <1>1, <1>5, <2>1 DEF Store
<1>6. CASE CloseLoop
  BY <1>6 DEF CloseLoop, Begun, Building
<1>7. CASE Forward
  <2>1. forgive_jump' # 0
    BY <1>0, <1>7 DEF Forward
  <2> QED
    BY <2>1 DEF Begun, Building
<1>8. CASE ICall
  <2>1. Finish(mem, solver) /\ op.kind = "icall"
    BY <1>8 DEF ICall
  <2> QED
    BY <2>1 DEF Finish, Supported, Die, Begun
<1>9. CASE Return
  <2>1. Building' => Building
    <3>1. CASE solving_started
      <4>1. /\ forgive_fun_call' = forgive_fun_call + (-1) /\ forgive_jump' = forgive_jump
            /\ solving_started' = (forgive_fun_call' = 0)
        BY <1>9, <3>1 DEF Return, Counted
      <4>2. Building' => forgive_fun_call' = 0 /\ forgive_jump = 0
        BY <4>1 DEF Building
      <4>3. forgive_fun_call' = 0 => forgive_fun_call >= 0
        BY <1>0, <4>1
      <4> QED
        BY <3>1, <4>2, <4>3 DEF Building
    <3>2. CASE ~solving_started
      BY <1>9, <3>2 DEF Return, Counted, Building
    <3> QED
      BY <3>1, <3>2
  <2> QED
    BY <1>1, <1>9, <2>1 DEF Return
<1> QED
  BY <1>3, <1>4, <1>5, <1>6, <1>7, <1>8, <1>9 DEF Step

LEMMA StepNotCached ==
  ASSUME Sound, Step
  PROVE  NotCached'
<1>0. TypeOK /\ NotCached
  BY DEF Sound, Typed
<1>1. setup' = setup
  BY DEF Step, LoadUnwatched, LoadWatched, Start, LoadCached, Store, CBranchIdle,
         CloseLoop, Forward, ICall, Return, Other, Finish
<1>2. CASE LoadWatched
  <2>1. Pointed \in Device /\ ~Hit /\ Watched
    BY <1>2 DEF LoadWatched, Start, Watched
  <2>2. setup.caching => solving_results[Pointed] = NoResult
    BY <2>1 DEF Hit
  <2>3. last_mem_read_event'.address = Pointed /\ solving_results' = solving_results
    BY <1>2 DEF LoadWatched, Start
  <2> QED
    BY <1>1, <2>1, <2>2, <2>3 DEF NotCached
<1>3. CASE CloseLoop
  BY <1>3 DEF CloseLoop, NotCached
<1>4. ASSUME UNCHANGED <<last_mem_read_event, solving_results>>,
             solving_started' => solving_started
      PROVE  NotCached'
  BY <1>0, <1>1, <1>4 DEF NotCached
<1>5. CASE LoadUnwatched \/ LoadCached \/ CBranchIdle \/ Other
  BY <1>4, <1>5 DEF LoadUnwatched, LoadCached, CBranchIdle, Other, episode
<1>6. CASE Store
  BY <1>4, <1>6 DEF Store
<1>7. CASE Forward
  BY <1>4, <1>7 DEF Forward
<1>8. CASE ICall \/ Return
  BY <1>4, <1>8 DEF ICall, Return, Counted
<1> QED
  BY <1>2, <1>3, <1>5, <1>6, <1>7, <1>8 DEF Step

LEMMA StepBlank ==
  ASSUME Sound, Step
  PROVE  Blank'
<1>0. TypeOK /\ Blank
  BY DEF Sound, Typed
<1>1. ASSUME NEW m, NEW s, Finish(m, s), forgive_fun_call' < 0
      PROVE  solver' = s
  <2>1. ~Building'
    <3>1. forgive_fun_call' \in -MaxCalls .. MaxCalls /\ MaxCalls \in Nat
      BY StepType, DummyAssumption DEF Sound, Typed, TypeOK
    <3> QED
      BY <1>1, <3>1 DEF Building
  <2> QED
    BY <1>1, <2>1 DEF Finish
<1>2. CASE LoadWatched
  BY <1>1, <1>2 DEF LoadWatched, Start, Blank
<1>3. CASE CloseLoop
  BY <1>3 DEF CloseLoop, Blank
<1>4. ASSUME solving_started' => solving_started /\ forgive_fun_call' = forgive_fun_call,
             UNCHANGED solver \/ \E m : Finish(m, solver)
      PROVE  Blank'
  BY <1>0, <1>1, <1>4 DEF Blank
<1>5. CASE LoadUnwatched \/ LoadCached \/ CBranchIdle \/ Other
  BY <1>4, <1>5 DEF LoadUnwatched, LoadCached, CBranchIdle, Other, episode, forgiven
<1>6. CASE Store
  BY <1>4, <1>6 DEF Store, forgiven
<1>7. CASE Forward
  BY <1>4, <1>7 DEF Forward
<1>8. CASE ICall \/ Return
  <2>1. solving_started' => forgive_fun_call' = 0
    BY <1>8 DEF ICall, Return, Counted
  <2> QED
    BY <2>1 DEF Blank
<1> QED
  BY <1>2, <1>3, <1>5, <1>6, <1>7, <1>8 DEF Step

LEMMA NextSound == Sound /\ [Next]_vars => Sound'
<1> SUFFICES ASSUME Sound, [Next]_vars PROVE Sound'
  OBVIOUS
<1>1. Typed'
  BY NextType DEF Sound
<1>2. CASE Step
  <2>1. Alone'
    <3>1. setup' = setup /\ clone_episodes' = clone_episodes
      BY <1>2 DEF Step, LoadUnwatched, LoadWatched, Start, LoadCached, Store, CBranchIdle,
                  CloseLoop, Forward, ICall, Return, Other, Finish
    <3> QED
      BY <3>1 DEF Sound, Alone
  <2> QED
    BY <1>1, <1>2, <2>1, StepBegun, StepNotCached, StepBlank DEF Sound
<1>3. CASE CloneStep
  <2>0. TypeOK
    BY DEF Sound, Typed
  <2>1. /\ UNCHANGED machine
        /\ clone_episodes \subseteq setup.cloned => clone_episodes' \subseteq setup.cloned
        /\ \A a \in Address \ setup.cloned : solving_results'[a] = solving_results[a]
    BY <1>3, <2>0, CloneInserts
  <2>2. NotCached'
    BY <2>1, DummyAssumption DEF machine, episode, Sound, NotCached
  <2>3. Alone' /\ Blank' /\ Begun'
    BY <2>1 DEF machine, episode, forgiven, Sound, Alone, Blank, Begun, Building
  <2> QED
    BY <1>1, <2>2, <2>3 DEF Sound
<1>4. CASE UNCHANGED vars
  BY <1>1, <1>4
     DEF vars, machine, episode, forgiven, firmware, Sound, NotCached, Alone, Blank,
         Begun, Building
<1> QED
  BY <1>2, <1>3, <1>4 DEF Next

LEMMA AlwaysSound == Spec => []Sound
  BY InitSound, NextSound, PTL DEF Spec

-----------------------------------------------------------------------------
(* To the firmware the bypass is a memory. *)

\* Of an answer only what overlaps a marked load changes memory.
LEMMA CloseLoopWrites ==
  ASSUME Sound, op.kind = "cbranch", solving_started,
         NEW answer \in Answers(Touch(solver, op.condition, Seen),
                                Touch(solver, op.condition, Seen).expr[op.condition],
                                Expected),
         NEW order \in Orders(answer)
  PROVE  /\ Patched(answer, order) \in [Address -> Byte]
         /\ Results(answer, order) \in [Address -> Val \cup {NoResult}]
         /\ \A a \in Address : a # last_mem_read_event.address =>
              Results(answer, order)[a] = solving_results[a]
         /\ \A b \in Address : Patched(answer, order)[b] # mem[b] =>
              \E t \in solver.to_solve : b \in Span(t.address, last_mem_read_event.size)
<1> DEFINE s == Touch(solver, op.condition, Seen)
<1>1. TypeOK /\ last_mem_read_event.size \in Size
  BY DEF Sound, Typed
<1>2. s \in Solver /\ s.expr[op.condition] \in Expr /\ s.to_solve = solver.to_solve
  BY <1>1, ReadType
<1> HIDE DEF s
<1>3. /\ DOMAIN answer \subseteq {t.address : t \in solver.to_solve}
      /\ \A b \in Address : Patched(answer, order)[b] # mem[b] =>
           \E a \in DOMAIN answer : b \in Span(a, last_mem_read_event.size)
  BY <1>1, <1>2, PatchedType DEF s
<1>4. ASSUME NEW b \in Address, Patched(answer, order)[b] # mem[b]
      PROVE  \E t \in solver.to_solve : b \in Span(t.address, last_mem_read_event.size)
  BY <1>3, <1>4
<1> QED
  BY <1>1, <1>2, <1>4, PatchedType DEF s

\* A load is remembered as the first of an episode or as one more, and nothing is
\* remembered that was not loaded.
LEMMA StepRemembers ==
  ASSUME Sound, Step, ~panicked'
  PROVE  Bus!Remember
<1>0. TypeOK /\ solver \in Solver /\ ~panicked
  BY DEF Sound, Typed, TypeOK, Step
<1>1. Bus!Remember <=>
        \/ /\ op.kind = "load"
           /\ FirstLoad' = [pc |-> pc, size |-> SizeOf[op.destination]]
           /\ Remembered' \subseteq {Pointed}
        \/ /\ op.kind = "load" /\ Remembered # {}
           /\ Remembered' \subseteq Remembered \cup {Pointed}
           /\ FirstLoad' = FirstLoad
        \/ /\ Remembered' \subseteq Remembered
           /\ FirstLoad' = FirstLoad
  <2>1. op.kind = "load" => Bus!Pointed(op.source) = Pointed
    BY DEF Bus!Pointed, Pointed
  <2> QED
    BY <2>1 DEF Bus!Remember, op
<1>2. ASSUME NEW m, Finish(m, solver), UNCHANGED <<solving_started, forgiven>>, op.kind = "load"
      PROVE  /\ Remembered' \subseteq Remembered \cup {Pointed}
             /\ Remembered = {} => Remembered' = {}
  <2>1. \A t \in solver'.to_solve : t \in solver.to_solve \/ t.address = Pointed
    BY <1>0, <1>2, FinishMarks
  <2>2. Remembered' \subseteq Remembered \cup {Pointed}
    BY <1>2, <2>1 DEF Remembered
  <2>3. Remembered = {} => Remembered' = {}
    <3>1. SUFFICES ASSUME Remembered = {}, solving_started
                   PROVE  Remembered' = {}
      BY <1>2 DEF Remembered
    <3>2. solver.to_solve = {}
      BY <3>1 DEF Remembered
    <3>3. ~Building /\ ~Building'
      BY <1>0, <1>2, <3>2 DEF Sound, Begun, Building, forgiven
    <3> QED
      BY <1>0, <1>2, <3>2, <3>3, FinishSolver DEF Remembered, Finish
  <2> QED
    BY <2>2, <2>3
<1>3. ASSUME NEW m, NEW s \in Solver, Finish(m, s), s.to_solve = solver.to_solve,
             solving_started' => solving_started, op.kind # "load"
      PROVE  Remembered' \subseteq Remembered
  <2>1. \A t \in solver'.to_solve : t \in solver.to_solve
    BY <1>0, <1>3, FinishMarks
  <2> QED
    BY <1>3, <2>1 DEF Remembered
<1>4. CASE LoadUnwatched
  <2>1. /\ Finish(mem, solver) /\ op.kind = "load"
        /\ UNCHANGED <<solving_started, forgiven, last_mem_read_event>>
    BY <1>4 DEF LoadUnwatched, episode
  <2> QED
    BY <1>1, <1>2, <2>1 DEF FirstLoad
<1>5. CASE LoadCached
  <2>1. /\ op.kind = "load" /\ UNCHANGED <<solving_started, forgiven, last_mem_read_event>>
        /\ \E m : Finish(m, solver)
    BY <1>5 DEF LoadCached, episode, Hit, Watched, Die
  <2> QED
    BY <1>1, <1>2, <2>1 DEF FirstLoad
<1>6. CASE LoadWatched
  <2>1. /\ op.kind = "load" /\ Finish(mem, NewSolver)
        /\ last_mem_read_event' =
             [pc |-> pc, address |-> Pointed, size |-> SizeOf[op.destination]]
    BY <1>6 DEF LoadWatched, Start, Watched
  <2>2. \A t \in solver'.to_solve : t.address = Pointed
    BY <1>0, <2>1, NewSolverType, FinishMarks DEF NewSolver
  <2> QED
    BY <1>1, <2>1, <2>2 DEF FirstLoad, Remembered
<1>7. CASE CloseLoop
  <2>1. Remembered' = {} /\ FirstLoad' = FirstLoad
    BY <1>7 DEF CloseLoop, Remembered, FirstLoad
  <2> QED
    BY <1>1, <2>1
<1>8. ASSUME op.kind # "load", Finish(mem, solver), UNCHANGED last_mem_read_event,
             solving_started' => solving_started
      PROVE  Bus!Remember
  BY <1>0, <1>1, <1>3, <1>8 DEF FirstLoad
<1>9. CASE Store
  BY <1>8, <1>9 DEF Store
<1>10. CASE CBranchIdle \/ Other
  BY <1>8, <1>10 DEF CBranchIdle, Other, episode
<1>11. CASE Forward
  BY <1>8, <1>11 DEF Forward
<1>12. CASE ICall \/ Return
  BY <1>8, <1>12 DEF ICall, Return, Counted
<1> QED
  BY <1>4, <1>5, <1>6, <1>7, <1>9, <1>10, <1>11, <1>12 DEF Step

LEMMA FinishRefines ==
  ASSUME Sound, Step, NEW m \in [Address -> Byte], NEW s, Finish(m, s), ~panicked',
         \A b \in Address : m[b] # mem[b] => b \in Bus!Open
  PROVE  Bus!Next
<1> DEFINE written == [b \in Bus!Open |-> IF b \in Address THEN m[b] ELSE 0]
<1>0. mem \in [Address -> Byte] /\ 0 \in Byte
  BY PCodeAssumption DEF Sound, Typed, TypeOK
<1>1. written \in [Bus!Open -> Byte]
  BY <1>0
<1>2. m = [b \in Address |-> IF b \in Bus!Open THEN written[b] ELSE mem[b]]
  BY <1>0
<1> HIDE DEF written
<1>3. Bus!Execute(m)
  BY DEF Finish, Die
<1>4. Bus!Execute([b \in Address |-> IF b \in Bus!Open THEN written[b] ELSE mem[b]])
  BY <1>2, <1>3
<1> QED
  BY <1>1, <1>4, StepRemembers DEF Bus!Next, Bus!Operate

\* What stops the machine leaves the firmware where it is.
LEMMA PanicRefines ==
  ASSUME Sound, Step, panicked'
  PROVE  [Bus!Next]_(Bus!vars)
<1>0. ~panicked /\ UNCHANGED setup
  BY DEF Step, LoadUnwatched, LoadWatched, Start, LoadCached, Store, CBranchIdle,
         CloseLoop, Forward, ICall, Return, Other, Finish
<1>1. Die
  BY <1>0 DEF Step, LoadUnwatched, LoadWatched, Start, LoadCached, Store, CBranchIdle,
              CloseLoop, Forward, ICall, Return, Other, Finish
<1>2. UNCHANGED Bus!firmware
  BY <1>0, <1>1 DEF Die, firmware, Bus!firmware
<1>3. \/ Remembered' = {} /\ FirstLoad' = FirstLoad
      \/ UNCHANGED <<Remembered, FirstLoad>>
  <2>1. CASE LoadCached
    <3>1. UNCHANGED <<solving_started, last_mem_read_event, solver>>
      BY <1>0, <1>1, <2>1 DEF LoadCached, episode, Finish, Supported, Reads, Hit, Watched
    <3> QED
      BY <3>1 DEF Remembered, FirstLoad
  <2>2. CASE CloseLoop
    BY <2>2 DEF CloseLoop, Remembered, FirstLoad
  <2>3. CASE LoadWatched \/ LoadUnwatched
    <3>1. op.kind = "load" /\ \E s : Finish(mem, s)
      BY <2>3 DEF LoadWatched, LoadUnwatched, Start, Watched
    <3>2. FALSE
      BY <1>0, <3>1 DEF Finish, Supported, Reads
    <3> QED
      BY <3>2
  <2>4. ASSUME Finish(mem, solver), UNCHANGED last_mem_read_event,
               solving_started' => solving_started
        PROVE  UNCHANGED <<Remembered, FirstLoad>>
    <3>1. Building' /\ solver' = solver
      BY <1>0, <2>4 DEF Finish
    <3>2. UNCHANGED solving_started
      BY <2>4, <3>1 DEF Building
    <3> QED
      BY <2>4, <3>1, <3>2 DEF Remembered, FirstLoad
  <2>5. CASE Store
    BY <2>4, <2>5 DEF Store
  <2>6. CASE CBranchIdle \/ Other
    BY <2>4, <2>6 DEF CBranchIdle, Other, episode
  <2>7. CASE Forward
    BY <2>4, <2>7 DEF Forward
  <2>8. CASE ICall \/ Return
    BY <2>4, <2>8 DEF ICall, Return, Counted
  <2> QED
    BY <2>1, <2>2, <2>3, <2>5, <2>6, <2>7, <2>8 DEF Step
<1> QED
  BY <1>2, <1>3 DEF Bus!Next, Bus!Forget, Bus!vars

LEMMA NextRefines == Sound /\ [Next]_vars => [Bus!Next]_(Bus!vars)
<1> SUFFICES ASSUME Sound, Next, ~(CloneStep /\ UNCHANGED machine), ~panicked'
             PROVE  Bus!Next
  <2>1. ASSUME UNCHANGED machine
        PROVE  UNCHANGED Bus!vars
    BY <2>1 DEF machine, firmware, episode, Bus!vars, Bus!firmware, Remembered, FirstLoad
  <2>2. UNCHANGED vars => UNCHANGED machine
    BY DEF vars
  <2> QED
    BY <2>1, <2>2, PanicRefines DEF Next, CloneStep
<1>0. /\ TypeOK /\ mem \in [Address -> Byte] /\ Step
      /\ \A b \in Address : mem[b] # mem[b] => b \in Bus!Open
  BY DEF Sound, Typed, TypeOK, Next, CloneStep
<1>1. CASE LoadCached
  <2> DEFINE n == SizeOf[op.destination]
             m == Put(mem, Pointed, n, solving_results[Pointed], TRUE)
  <2>1. /\ op.kind = "load" /\ Pointed \in Address /\ n \in Size
        /\ solving_results[Pointed] \in Val
    BY <1>0, <1>1, PointedAt DEF LoadCached, Hit, Watched, TypeOK
  <2>2. m \in [Address -> Byte]
    BY <1>0, <2>1, PutType
  <2>3. Bus!Open = Span(Pointed, n)
    BY <2>1, SameWords DEF Bus!Open, Bus!Pointed, Pointed, op
  <2>4. \A b \in Address : m[b] # mem[b] => b \in Bus!Open
    BY <2>3 DEF Put
  <2> HIDE DEF m
  <2>5. CASE Finish(m, solver)
    BY <1>0, <2>2, <2>4, <2>5, FinishRefines
  <2>6. CASE Finish(mem, solver)
    BY <1>0, <2>6, FinishRefines
  <2> QED
    BY <1>1, <2>5, <2>6 DEF LoadCached, m, Die
<1>2. CASE CloseLoop
  <2> DEFINE s == Touch(solver, op.condition, Seen)
  <2>1. op.kind = "cbranch" /\ solving_started /\ Backward
    BY <1>2 DEF CloseLoop
  <2>2. PICK answer \in Answers(s, s.expr[op.condition], Expected) :
          \E order \in Orders(answer) : Finish(Patched(answer, order), s)
    BY <1>2 DEF CloseLoop, Die
  <2>3. PICK order \in Orders(answer) : Finish(Patched(answer, order), s)
    BY <2>2
  <2> HIDE DEF s
  <2>4. /\ Patched(answer, order) \in [Address -> Byte]
        /\ \A b \in Address : Patched(answer, order)[b] # mem[b] =>
             \E t \in solver.to_solve : b \in Span(t.address, last_mem_read_event.size)
    BY <2>1, <2>2, <2>3, CloseLoopWrites DEF s
  <2>5. ASSUME NEW t \in solver.to_solve
        PROVE  Span(t.address, last_mem_read_event.size) \subseteq Bus!Open
    <3>1. t.address \in Remembered
      BY <2>1 DEF Remembered
    <3>2. Bus!GoesBack(op)
      <4>1. op.target \in Nat /\ op.internal \in BOOLEAN
        BY <1>0, <2>1, OpInProgram DEF OpFields
      <4> QED
        BY <2>1, <4>1 DEF Bus!GoesBack, Backward, FirstLoad
    <3>3. Bus!Open = UNION {Span(a, last_mem_read_event.size) : a \in Remembered}
      BY <2>1, <3>1, <3>2, SameWords DEF Bus!Open, op, FirstLoad
    <3> QED
      BY <3>1, <3>3
  <2> QED
    BY <1>0, <2>3, <2>4, <2>5, FinishRefines
<1>3. ASSUME NEW s, Finish(mem, s)
      PROVE  Bus!Next
  BY <1>0, <1>3, FinishRefines
<1>4. CASE LoadUnwatched \/ LoadWatched \/ Store \/ CBranchIdle \/ Forward
  BY <1>3, <1>4 DEF LoadUnwatched, LoadWatched, Start, Store, CBranchIdle, Forward
<1>5. CASE ICall \/ Return \/ Other
  BY <1>3, <1>5 DEF ICall, Return, Other
<1> QED
  BY <1>0, <1>1, <1>2, <1>4, <1>5 DEF Step

\* The configured program and contents are ones the firmware may begin with.
LEMMA InitRefines == Init => Bus!Init
<1> SUFFICES ASSUME Init PROVE Bus!Init
  OBVIOUS
<1>1. /\ Program(setup.code) /\ setup.little \in BOOLEAN
      /\ setup.reg \in [Operand -> Val] /\ setup.mem \in [Address -> Byte]
  BY DummyAssumption DEF Init
<1>2. Bus!Program(setup.code)
  BY <1>1 DEF Bus!Program, Program, Bus!Op, Op, Bus!Operand, Operand, Bus!Val, Val,
              Bus!JumpKind, JumpKind, Bus!Jumps, Jumps
<1> QED
  BY <1>1, <1>2, SameWords DEF Init, Bus!Init, Remembered

(* The firmware executes its own code, and the bypass changes memory only  *)
(* where the code loads it, or where a branch back to the first load of an *)
(* episode ends it, at places loaded since.                                *)
THEOREM ImplementsFirmware == Spec => FirmwareSpec
  BY InitRefines, AlwaysSound, NextRefines, PTL DEF Spec, FirmwareSpec, Bus!Spec


-----------------------------------------------------------------------------
(* What the hook writes. *)

\* The firmware's store aside, memory changes where the hook has put it.
LEMMA HookWrites ==
  ASSUME TypeOK, NEW m \in [Address -> Byte], NEW s, Finish(m, s), NEW b \in Address,
         WrittenByHook(b)
  PROVE  m[b] # mem[b]
<1>1. CASE Bus!Execute(m)
  <2>1. mem' = IF op.kind = "store"
               THEN Put(m, Pointed, SizeOf[op.source], reg[op.source], setup.little)
               ELSE m
    BY <1>1, ExecuteIs
  <2>2. op.kind = "store" => Accessed = Span(Pointed, SizeOf[op.source])
    BY DEF Accessed
  <2> QED
    BY <2>1, <2>2 DEF WrittenByHook, Put
<1>2. CASE Die
  BY <1>2 DEF Die, firmware, WrittenByHook
<1> QED
  BY <1>1, <1>2 DEF Finish

\* That is a cached result, or an answer to a marked load.
LEMMA WrittenWhere ==
  ASSUME Sound, Step, NEW b \in Address, WrittenByHook(b)
  PROVE  \/ Hit /\ b \in Accessed
         \/ /\ CloseLoop
            /\ \E t \in solver.to_solve : b \in Span(t.address, last_mem_read_event.size)
<1>0. TypeOK /\ mem \in [Address -> Byte]
  BY DEF Sound, Typed, TypeOK
<1>1. ASSUME NEW s, Finish(mem, s)
      PROVE  FALSE
  BY <1>0, <1>1, HookWrites
<1>2. ~(Die /\ UNCHANGED setup)
  BY DEF Die, firmware, WrittenByHook
<1>3. CASE LoadCached
  <2> DEFINE n == SizeOf[op.destination]
             m == Put(mem, Pointed, n, solving_results[Pointed], TRUE)
  <2>1. /\ Hit /\ op.kind = "load" /\ Pointed \in Address /\ n \in Size
        /\ solving_results[Pointed] \in Val
    BY <1>0, <1>3, PointedAt DEF LoadCached, Hit, Watched, TypeOK
  <2>2. m \in [Address -> Byte]
    BY <1>0, <2>1, PutType
  <2>3. Accessed = Span(Pointed, n)
    BY <2>1 DEF Accessed
  <2>4. b \notin Accessed => m[b] = mem[b]
    BY <2>3 DEF Put
  <2> HIDE DEF m
  <2>5. Finish(m, solver)
    BY <1>1, <1>2, <1>3 DEF LoadCached, m
  <2> QED
    BY <1>0, <2>1, <2>2, <2>4, <2>5, HookWrites
<1>4. CASE CloseLoop
  <2> DEFINE s == Touch(solver, op.condition, Seen)
  <2>1. op.kind = "cbranch" /\ solving_started
    BY <1>4 DEF CloseLoop
  <2>2. PICK answer \in Answers(s, s.expr[op.condition], Expected) :
          \E order \in Orders(answer) : Finish(Patched(answer, order), s)
    BY <1>2, <1>4 DEF CloseLoop
  <2>3. PICK order \in Orders(answer) : Finish(Patched(answer, order), s)
    BY <2>2
  <2> HIDE DEF s
  <2>4. /\ Patched(answer, order) \in [Address -> Byte]
        /\ Patched(answer, order)[b] # mem[b] =>
             \E t \in solver.to_solve : b \in Span(t.address, last_mem_read_event.size)
    BY <2>1, <2>2, <2>3, CloseLoopWrites DEF s
  <2> QED
    BY <1>0, <1>4, <2>3, <2>4, HookWrites
<1>5. CASE LoadUnwatched \/ LoadWatched \/ Store \/ CBranchIdle \/ Forward
  BY <1>1, <1>5 DEF LoadUnwatched, LoadWatched, Start, Store, CBranchIdle, Forward
<1>6. CASE ICall \/ Return \/ Other
  BY <1>1, <1>6 DEF ICall, Return, Other
<1> QED
  BY <1>3, <1>4, <1>5, <1>6 DEF Step

\* What the firmware is about to load is watched: a word of any size at its place.
LoadsWatched ==
  op.kind = "load" => \A n \in Size : Span(Pointed, n) \subseteq Device

\* What is marked is watched.
Covered == \A t \in solver.to_solve, n \in Size : Span(t.address, n) \subseteq Device

LEMMA NextCovered == Sound /\ Covered /\ LoadsWatched /\ [Next]_vars => Covered'
<1> SUFFICES ASSUME Sound, Covered, LoadsWatched, Step PROVE Covered'
  <2>1. UNCHANGED machine => UNCHANGED solver
    BY DEF machine
  <2>2. UNCHANGED solver /\ Covered => Covered'
    BY DEF Covered
  <2> QED
    BY <2>1, <2>2 DEF Next, CloneStep, vars
<1>0. TypeOK /\ solver \in Solver
  BY DEF Sound, Typed, TypeOK
<1>1. ASSUME NEW m, NEW s \in Solver, Finish(m, s), s.to_solve \subseteq solver.to_solve
      PROVE  Covered'
  <2>1. \A t \in solver'.to_solve :
          t \in solver.to_solve \/ (op.kind = "load" /\ t.address = Pointed)
    BY <1>0, <1>1, FinishMarks
  <2> QED
    BY <2>1 DEF Covered, LoadsWatched
<1>2. ASSUME UNCHANGED solver
      PROVE  Covered'
  BY <1>2 DEF Covered
<1>3. CASE LoadWatched
  BY <1>1, <1>3, NewSolverType DEF LoadWatched, Start, NewSolver
<1>4. CASE CloseLoop
  <2>1. op.kind = "cbranch"
    BY <1>4 DEF CloseLoop
  <2> DEFINE s == Touch(solver, op.condition, Seen)
  <2>2. s \in Solver /\ s.to_solve = solver.to_solve
    BY <1>0, <2>1, ReadType
  <2>3. UNCHANGED solver \/ \E m : Finish(m, s)
    BY <1>4 DEF CloseLoop
  <2> HIDE DEF s
  <2> QED
    BY <1>1, <1>2, <2>2, <2>3
<1>5. CASE LoadUnwatched \/ LoadCached \/ Store \/ CBranchIdle \/ Forward
  BY <1>0, <1>1, <1>2, <1>5 DEF LoadUnwatched, LoadCached, Store, CBranchIdle, Forward
<1>6. CASE ICall \/ Return \/ Other
  BY <1>0, <1>1, <1>6 DEF ICall, Return, Other
<1> QED
  BY <1>3, <1>4, <1>5, <1>6 DEF Step

(* "When loading a variable from target memory, create a new variable to   *)
(* solve": a firmware that only ever loads what is watched gets no other   *)
(* memory written, so that it is the loads beside the register that spill. *)
THEOREM OnlyTargetSolvedIfWatched == Spec /\ []LoadsWatched => OnlyTargetSolved
<1> DEFINE Within == \A b \in Address : WrittenByHook(b) => b \in Device
<1>1. Init => Covered
  BY DEF Init, NewSolver, Covered
<1>2. Sound /\ Covered /\ LoadsWatched /\ [Next]_vars => [Within]_vars
  <2> SUFFICES ASSUME Sound, Covered, LoadsWatched, Next, NEW b \in Address,
                      WrittenByHook(b)
               PROVE  b \in Device
    OBVIOUS
  <2>1. Step
    BY DEF Next, CloneStep, machine, firmware, WrittenByHook
  <2>2. CASE Hit /\ b \in Accessed
    <3>1. op.kind = "load" /\ Accessed = Span(Pointed, SizeOf[op.destination])
      BY <2>2 DEF Hit, Watched, Accessed
    <3>2. SizeOf[op.destination] \in Size
      BY <3>1, PointedAt DEF Sound, Typed
    <3> QED
      BY <2>2, <3>1, <3>2 DEF LoadsWatched
  <2>3. CASE /\ CloseLoop
             /\ \E t \in solver.to_solve : b \in Span(t.address, last_mem_read_event.size)
    <3>1. last_mem_read_event.size \in Size
      BY <2>3 DEF CloseLoop, Sound, Typed
    <3> QED
      BY <2>3, <3>1 DEF Covered
  <2> QED
    BY <2>1, <2>2, <2>3, WrittenWhere
<1> QED
  BY <1>1, <1>2, NextCovered, AlwaysSound, PTL DEF Spec, OnlyTargetSolved

-----------------------------------------------------------------------------
(* Results, and the episodes after a return. *)

LEMMA OnlyCloseLoopCaches ==
  ASSUME Step, ~CloseLoop
  PROVE  solving_results' = solving_results
BY DEF Step, LoadUnwatched, LoadWatched, Start, LoadCached, Store, CBranchIdle, Forward,
       ICall, Return, Other

Final ==
  \A a \in Address :
    solving_results[a] # NoResult /\ (a \in setup.cloned => ~Solving(a)) =>
      solving_results'[a] = solving_results[a] /\ ~Solving(a)'

\* An episode starts at a load that finds no result.
LEMMA EpisodeStarts ==
  ASSUME Step
  PROVE  \/ (solving_started' => solving_started) /\ UNCHANGED last_mem_read_event
         \/ setup.caching => solving_results[last_mem_read_event'.address] = NoResult
<1>1. CASE LoadWatched
  BY <1>1 DEF LoadWatched, Start, Hit
<1>2. CASE ~LoadWatched
  BY <1>2 DEF Step, LoadUnwatched, LoadCached, Store, CBranchIdle, CloseLoop, Forward,
              ICall, Return, Counted, Other, episode, forgiven
<1> QED
  BY <1>1, <1>2

LEMMA StepFinal ==
  ASSUME Sound, Step
  PROVE  Final
<1> SUFFICES ASSUME NEW a \in Address, solving_results[a] # NoResult,
                    a \in setup.cloned => ~Solving(a)
             PROVE  solving_results'[a] = solving_results[a] /\ ~Solving(a)'
  BY DEF Final
<1>0. /\ TypeOK /\ solving_results \in [Address -> Val \cup {NoResult}]
      /\ clone_episodes' = clone_episodes /\ setup' = setup
  BY DEF Sound, Typed, TypeOK, Step, LoadUnwatched, LoadWatched, Start, LoadCached, Store,
         CBranchIdle, CloseLoop, Forward, ICall, Return, Other, Finish
<1>1. ~Solving(a)
  BY DEF Solving, Sound, Alone, NotCached
<1>2. solving_results'[a] = solving_results[a]
  <2>1. CASE CloseLoop
    <3> DEFINE s == Touch(solver, op.condition, Seen)
    <3>1. op.kind = "cbranch" /\ solving_started
      BY <2>1 DEF CloseLoop
    <3>2. CASE setup.caching
      <4>1. a # last_mem_read_event.address
        BY <1>1, <3>1, <3>2 DEF Solving
      <4>2. ASSUME NEW answer \in Answers(s, s.expr[op.condition], Expected),
                   NEW order \in Orders(answer), solving_results' = Results(answer, order)
            PROVE  solving_results'[a] = solving_results[a]
        <5> HIDE DEF s
        <5> QED
          BY <3>1, <4>1, <4>2, CloseLoopWrites DEF s
      <4> QED
        BY <2>1, <4>2 DEF CloseLoop
    <3>3. CASE ~setup.caching
      BY <2>1, <3>3 DEF CloseLoop, Results
    <3> QED
      BY <3>2, <3>3
  <2> QED
    BY <2>1, OnlyCloseLoopCaches
<1>3. ~Solving(a)'
  BY <1>0, <1>1, EpisodeStarts DEF Solving
<1> QED
  BY <1>2, <1>3

LEMMA CloneFinal ==
  ASSUME Sound, CloneStep
  PROVE  Final
<1> SUFFICES ASSUME NEW a \in Address, solving_results[a] # NoResult,
                    a \in setup.cloned => ~Solving(a)
             PROVE  solving_results'[a] = solving_results[a] /\ ~Solving(a)'
  BY DEF Final
<1>0. ~Solving(a)
  BY DEF Solving, Sound, Alone, NotCached
<1>1. PICK b \in setup.cloned : CloneStarts(b) \/ CloneLeaves(b) \/ CloneCaches(b)
  BY DEF CloneStep
<1>2. solving_results \in [Address -> Val \cup {NoResult}]
  BY DEF Sound, Typed, TypeOK
<1>3. solving_results'[a] = solving_results[a] /\ a \notin clone_episodes'
  <2>1. CASE CloneStarts(b)
    BY <1>0, <2>1 DEF CloneStarts, Solving
  <2>2. CASE CloneLeaves(b)
    BY <1>0, <2>2 DEF CloneLeaves, Solving
  <2>3. CASE CloneCaches(b)
    BY <1>0, <1>2, <2>3 DEF CloneCaches, Solving
  <2> QED
    BY <1>1, <2>1, <2>2, <2>3
<1> QED
  BY <1>0, <1>3 DEF Solving, CloneStep, machine, episode

(* A cached result is final once no machine is in an episode on its        *)
(* register: a register that has one starts no episode, of this machine or *)
(* of a clone, and without an episode none is inserted.                    *)
THEOREM ResultsFinal == Spec => ResultIsFinal
<1>1. Sound /\ [Next]_vars => [Final]_vars
  BY StepFinal, CloneFinal DEF Next
<1> QED
  BY <1>1, AlwaysSound, PTL DEF Spec, ResultIsFinal, Final

Blind ==
  forgive_fun_call < 0 =>
    \/ panicked'
    \/ CloneStep
    \/ /\ forgive_fun_call' >= 0 => op.kind = "icall" /\ forgive_jump = 1
       /\ solving_results' = solving_results
       /\ \A b \in Address : WrittenByHook(b) => Hit /\ b \in Accessed

\* A loop that is closed then has no answer.
LEMMA NothingToSolve ==
  ASSUME Sound, forgive_fun_call < 0, CloseLoop
  PROVE  solver.to_solve = {} /\ solving_results' = solving_results
<1> DEFINE s == Touch(solver, op.condition, Seen)
<1>1. TypeOK /\ solver = NewSolver /\ op.kind = "cbranch"
  BY DEF Sound, Typed, CloseLoop, Blank
<1>2. solver.to_solve = {} /\ s.to_solve = {}
  BY <1>1, ReadType DEF NewSolver
<1>3. ASSUME NEW answer \in Answers(s, s.expr[op.condition], Expected), NEW order
      PROVE  Results(answer, order) = solving_results
  <2> HIDE DEF s
  <2>1. DOMAIN answer = {}
    BY <1>2 DEF Answers
  <2> QED
    BY <2>1 DEF Results
<1> QED
  BY <1>2, <1>3 DEF CloseLoop

LEMMA NextBlind == Sound /\ [Next]_vars => [Blind]_vars
<1> SUFFICES ASSUME Sound, Step, forgive_fun_call < 0, ~panicked'
             PROVE  /\ forgive_fun_call' >= 0 => op.kind = "icall" /\ forgive_jump = 1
                    /\ solving_results' = solving_results
                    /\ \A b \in Address : WrittenByHook(b) => Hit /\ b \in Accessed
  BY DEF Blind, Next
<1>0. /\ TypeOK
      /\ forgive_fun_call \in -MaxCalls .. MaxCalls /\ forgive_jump \in 0 .. 2
      /\ solving_started => forgive_jump <= 1
      /\ MaxCalls \in Nat
  BY DummyAssumption DEF Sound, Typed, TypeOK
<1>1. solving_results' = solving_results
  BY NothingToSolve, OnlyCloseLoopCaches
<1>2. \A b \in Address : WrittenByHook(b) => Hit /\ b \in Accessed
  BY NothingToSolve, WrittenWhere
<1>3. CASE ICall
  <2>1. Finish(mem, solver) /\ UNCHANGED forgive_jump /\ op.kind = "icall"
    BY <1>3 DEF ICall
  <2>2. ~Building'
    BY <2>1 DEF Finish, Supported, Die
  <2>3. forgive_fun_call' >= 0 => forgive_fun_call' = 0 /\ solving_started /\ solving_started'
    <3>1. CASE solving_started
      <4>1. /\ forgive_fun_call' = forgive_fun_call + 1
            /\ solving_started' = (forgive_fun_call' = 0)
        BY <1>3, <3>1 DEF ICall, Counted
      <4>2. forgive_fun_call' >= 0 => forgive_fun_call' = 0
        BY <1>0, <4>1
      <4> QED
        BY <3>1, <4>1, <4>2
    <3>2. CASE ~solving_started
      BY <1>0, <1>3, <3>2 DEF ICall, Counted
    <3> QED
      BY <3>1, <3>2
  <2>4. forgive_fun_call' >= 0 => forgive_jump # 0 /\ forgive_jump <= 1
    BY <1>0, <2>1, <2>2, <2>3 DEF Building
  <2> QED
    BY <1>0, <1>1, <1>2, <2>1, <2>4
<1>4. CASE ~ICall
  <2>1. forgive_fun_call' \in {forgive_fun_call, forgive_fun_call - 1}
    BY <1>4 DEF Step, LoadUnwatched, LoadWatched, Start, LoadCached, Store, CBranchIdle,
                CloseLoop, Forward, Return, Counted, Other, episode, forgiven
  <2>2. ~(forgive_fun_call' >= 0)
    BY <1>0, <2>1
  <2> QED
    BY <1>1, <1>2, <2>2
<1> QED
  BY <1>3, <1>4

(* Once more returns than calls are counted the hook solves nothing, and   *)
(* all it still writes are results it has cached before.                   *)
THEOREM ReturnsBlind == Spec => BlindForever
  BY AlwaysSound, NextBlind, PTL DEF Spec, BlindForever, Blind

=============================================================================
