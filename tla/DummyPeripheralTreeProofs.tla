---------------------- MODULE DummyPeripheralTreeProofs ----------------------
(***************************************************************************)
(* The theorem about the solver's tree (DummyPeripheralTree), for every    *)
(* program, every configuration and every bound.                           *)
(***************************************************************************)
EXTENDS DummyPeripheralTree, DummyPeripheralProofs

-----------------------------------------------------------------------------
(* Expressions and the variables that are still to come. *)

\* No expression depends on a variable that a later version is to get.
Independent(e, version) ==
  \A x \in SymVar, v \in Valuation, c \in Val :
    x[2] > version[x[1]] => e[[v EXCEPT ![x] = c]] = e[v]

FreshIn(s) ==
  /\ \A k \in Operand : Independent(s.expr[k], s.version)
  /\ \A t \in s.to_solve : t.name[2] <= s.version[t.name[1]]

LEMMA OlderIndependent ==
  ASSUME NEW old \in [Operand -> Int], NEW new \in [Operand -> Int],
         \A j \in Operand : old[j] <= new[j], NEW e, Independent(e, old)
  PROVE  Independent(e, new)
<1> SUFFICES ASSUME NEW x \in SymVar, NEW v \in Valuation, NEW c \in Val,
                    x[2] > new[x[1]]
             PROVE  e[[v EXCEPT ![x] = c]] = e[v]
  BY DEF Independent
<1>1. x[1] \in Operand /\ x[2] \in Nat
  BY NameIs
<1>2. x[2] > old[x[1]]
  <2>1. old[x[1]] \in Int /\ new[x[1]] \in Int /\ old[x[1]] <= new[x[1]]
    BY <1>1
  <2> QED
    BY <1>1, <2>1
<1> QED
  BY <1>2 DEF Independent

LEMMA ExceptValuation ==
  \A v \in Valuation, x \in SymVar, c \in Val : [v EXCEPT ![x] = c] \in Valuation
BY DEF Valuation

LEMMA ConstantIndependent ==
  ASSUME NEW c, NEW version
  PROVE  Independent(Constant(c), version)
BY ExceptValuation DEF Independent, Constant

LEMMA VariableIndependent ==
  ASSUME NEW x \in SymVar, NEW version \in [Operand -> Int], x[2] <= version[x[1]]
  PROVE  Independent(Variable(x), version)
<1> SUFFICES ASSUME NEW y \in SymVar, NEW v \in Valuation, NEW c \in Val,
                    y[2] > version[y[1]]
             PROVE  Variable(x)[[v EXCEPT ![y] = c]] = Variable(x)[v]
  BY DEF Independent
<1>1. [v EXCEPT ![y] = c] \in Valuation
  BY ExceptValuation
<1>2. x # y
  <2>1. x[1] \in Operand /\ x[2] \in Nat /\ version[x[1]] \in Int
    BY NameIs
  <2> QED
    BY <2>1
<1>3. [v EXCEPT ![y] = c][x] = v[x]
  BY <1>2 DEF Valuation
<1>4. \A u \in Valuation : Variable(x)[u] = Low(u[x], SizeOf[x[1]])
  BY DEF Variable, Value
<1> QED
  BY <1>1, <1>3, <1>4

LEMMA ApplyIndependent ==
  ASSUME NEW fun, NEW e, NEW f, NEW version, Independent(e, version), Independent(f, version)
  PROVE  Independent(Apply(fun, e, f), version)
BY ExceptValuation DEF Independent, Apply

LEMMA SizedIndependent ==
  ASSUME NEW e, NEW n, NEW version, Independent(e, version)
  PROVE  Independent(Sized(e, n), version)
BY ExceptValuation DEF Independent, Sized

LEMMA InsertFresh ==
  ASSUME NEW n \in Int, NEW s \in SolverTo(n), NEW k \in Operand, NEW e, FreshIn(s),
         Independent(e, Insert(s, k, e).version)
  PROVE  FreshIn(Insert(s, k, e))
<1> DEFINE old == s.version
           new == [s.version EXCEPT ![k] = @ + 1]
<1>1. /\ old \in [Operand -> Int] /\ new \in [Operand -> Int]
      /\ \A j \in Operand : old[j] <= new[j]
  BY DEF SolverTo
<1>2. /\ Insert(s, k, e).version = new
      /\ Insert(s, k, e).expr = [s.expr EXCEPT ![k] = e]
      /\ Insert(s, k, e).to_solve = s.to_solve
  BY InsertIs
<1> HIDE DEF new
<1>3. \A j \in Operand : Independent(s.expr[j], new)
  BY <1>1, OlderIndependent DEF FreshIn
<1>4. \A j \in Operand : Independent(Insert(s, k, e).expr[j], new)
  <2>1. s.expr \in [Operand -> Expr]
    BY DEF SolverTo
  <2> QED
    BY <1>2, <1>3, <2>1
<1>5. \A t \in s.to_solve : t.name[2] <= new[t.name[1]]
  <2> SUFFICES ASSUME NEW t \in s.to_solve PROVE t.name[2] <= new[t.name[1]]
    OBVIOUS
  <2>1. t.name \in SymVar
    BY DEF SolverTo, Mark
  <2>2. t.name[1] \in Operand /\ t.name[2] \in Nat
    BY <2>1, NameIs
  <2>3. t.name[2] <= old[t.name[1]]
    BY DEF FreshIn
  <2> QED
    BY <1>1, <2>2, <2>3
<1> QED
  BY <1>2, <1>4, <1>5 DEF FreshIn

LEMMA InsertKnownFresh ==
  ASSUME NEW n \in Int, NEW s \in SolverTo(n), NEW k \in Operand, NEW e, FreshIn(s),
         Independent(e, s.version)
  PROVE  FreshIn(Insert(s, k, e))
<1> DEFINE old == s.version
           new == Insert(s, k, e).version
<1>1. old \in [Operand -> Int] /\ new \in [Operand -> Int]
      /\ \A j \in Operand : old[j] <= new[j]
  BY DEF SolverTo, Insert
<1>2. Independent(e, old)
  OBVIOUS
<1> HIDE DEF old, new
<1>3. Independent(e, new)
  BY <1>1, <1>2, OlderIndependent
<1> QED
  BY <1>3, InsertFresh DEF new

-----------------------------------------------------------------------------
(* What the tree says with variables v, of operands S. *)

Fits(S, s, v, r) ==
  /\ S \subseteq Operand
  /\ \A k \in S : Tracked(s, k) /\ s.expr[k][v] = r[k]

MarksFit(s, v, m, a, n) ==
  \A t \in s.to_solve : t.address = a => Low(v[t.name], n) = Word(m, a, n, setup.little)

LEMMA InsertFits ==
  ASSUME NEW n \in Int, NEW s \in SolverTo(n), NEW k \in Operand, NEW e,
         NEW v, NEW r \in [Operand -> Val], NEW S, Fits(S, s, v, r), NEW c
  PROVE  /\ Fits(S \ {k}, Insert(s, k, e), v, r)
         /\ Fits(S \ {k}, Insert(s, k, e), v, [r EXCEPT ![k] = c])
         /\ e[v] = c => Fits(S \cup {k}, Insert(s, k, e), v, [r EXCEPT ![k] = c])
<1>1. /\ Insert(s, k, e).version = [s.version EXCEPT ![k] = @ + 1]
      /\ Insert(s, k, e).expr = [s.expr EXCEPT ![k] = e]
  BY DEF Insert
<1>2. /\ \A j \in Operand : j # k => Insert(s, k, e).version[j] = s.version[j]
      /\ \A j \in Operand : Insert(s, k, e).expr[j] = IF j = k THEN e ELSE s.expr[j]
      /\ Insert(s, k, e).version[k] >= 0
  BY <1>1 DEF SolverTo
<1> QED
  BY <1>2 DEF Fits, Tracked

\* Reading adds an operand that is seen as what it holds.
LEMMA TouchTree ==
  ASSUME NEW n \in Nat, NEW s \in SolverTo(n), NEW k \in Operand,
         NEW view \in [Operand -> Val], NEW r \in [Operand -> Val],
         FreshIn(s), NEW v \in Valuation, NEW S, Fits(S, s, v, r)
  PROVE  /\ FreshIn(Touch(s, k, view))
         /\ Fits(S \cup {i \in {k} : ~Tracked(s, i) /\ view[i] = r[i]},
                 Touch(s, k, view), v, r)
         /\ \A j \in Operand \ {k} : Tracked(Touch(s, k, view), j) <=> Tracked(s, j)
<1> DEFINE t == Touch(s, k, view)
<1>1. CASE Tracked(s, k)
  BY <1>1 DEF Touch, Fits
<1>2. CASE ~Tracked(s, k)
  <2> DEFINE e == Constant(view[k])
  <2>1. t = Insert(s, k, e)
    BY <1>2 DEF Touch
  <2>2. e[v] = view[k] /\ n \in Int
    BY DEF Constant
  <2>3. Independent(e, Insert(s, k, e).version)
    BY ConstantIndependent
  <2> HIDE DEF e
  <2>4. FreshIn(Insert(s, k, e))
    BY <2>2, <2>3, InsertFresh
  <2>5. /\ Fits(S \ {k}, Insert(s, k, e), v, r)
        /\ view[k] = r[k] => Fits(S \cup {k}, Insert(s, k, e), v, [r EXCEPT ![k] = r[k]])
    BY <2>2, InsertFits
  <2>6. [r EXCEPT ![k] = r[k]] = r /\ k \notin S
    BY <1>2 DEF Fits
  <2>7. Fits(S \cup {i \in {k} : ~Tracked(s, i) /\ view[i] = r[i]}, t, v, r)
    <3>1. CASE view[k] = r[k]
      <4>1. S \cup {i \in {k} : ~Tracked(s, i) /\ view[i] = r[i]} = S \cup {k}
        BY <1>2, <3>1
      <4> HIDE DEF t
      <4> QED
        BY <2>1, <2>5, <2>6, <3>1, <4>1
    <3>2. CASE view[k] # r[k]
      <4>1. S \cup {i \in {k} : ~Tracked(s, i) /\ view[i] = r[i]} = S \ {k}
        BY <2>6, <3>2
      <4> HIDE DEF t
      <4> QED
        BY <2>1, <2>5, <4>1
    <3> QED
      BY <3>1, <3>2
  <2>8. \A j \in Operand \ {k} : Tracked(Insert(s, k, e), j) <=> Tracked(s, j)
    BY DEF Tracked, Insert, SolverTo
  <2> QED
    BY <2>1, <2>4, <2>7, <2>8
<1> QED
  BY <1>1, <1>2

-----------------------------------------------------------------------------
(* Words. *)

LEMMA LowLow ==
  ASSUME NEW v \in Val, NEW n \in Size, NEW k \in Size, Cells[n] <= Cells[k]
  PROVE  Low(Low(v, k), n) = Low(v, n)
<1>1. Cells[n] \in Nat /\ Cells[k] \in Nat /\ Width \in Nat
  BY PCodeAssumption
<1> QED
  BY <1>1 DEF Low

LEMMA LowWord ==
  ASSUME NEW m, NEW a, NEW n, NEW little
  PROVE  Low(Word(m, a, n, little), n) = Word(m, a, n, little)
BY DEF Low, Word

\* A word depends on its own bytes.
LEMMA SameWord ==
  ASSUME NEW n \in Size, NEW a \in Address, NEW m, NEW l, NEW little,
         \A b \in Span(a, n) : l[b] = m[b]
  PROVE  Word(l, a, n, little) = Word(m, a, n, little)
<1>1. Cells[n] \in 1 .. Width /\ Width \in Nat /\ a \in Nat
  BY PCodeAssumption
<1>2. ASSUME NEW i \in 1 .. Width, i <= Cells[n]
      PROVE  l[a + Place(i, n, little) - 1] = m[a + Place(i, n, little) - 1]
  <2>1. Place(i, n, little) \in 1 .. Cells[n]
    BY <1>1, <1>2, PlaceInRange
  <2>2. a + Place(i, n, little) - 1 \in Span(a, n)
    BY <1>1, <2>1 DEF Span
  <2> QED
    BY <2>2
<1> QED
  BY <1>2 DEF Word

-----------------------------------------------------------------------------
(* Adding the operation that executes. *)

\* The operands that are exact when the operation has been added.
ReadOf(S, s) == S \cup {k \in Reads(op) : ~Tracked(s, k) /\ Seen[k] = reg[k]}

After(S, s) ==
  IF op.kind = "load" THEN (S \ {op.source}) \cup {op.destination}
  ELSE IF op.kind = "store" THEN ReadOf(S, s) \ {op.destination}
  ELSE IF op.kind = "calc" /\ op.sym = op.fun /\ Reads(op) \subseteq ReadOf(S, s)
    THEN ReadOf(S, s) \cup {op.result}
  ELSE IF op.kind = "calc" THEN ReadOf(S, s) \ {op.result}
  ELSE S

\* A load makes its fresh variable what was read, and nothing else notices.
LEMMA AddLoadTree ==
  ASSUME TypeOK, NEW s \in Solver, op.kind = "load", WithinBounds(s, op),
         NEW S, FreshIn(s), NEW v \in Valuation, Fits(S, s, v, reg),
         NEW m \in [Address -> Byte], NEW a, NEW n
  PROVE  LET k == SizeOf[op.destination]
             c == Word(m, Pointed, k, setup.little)
             added == AddLoad(s, op, Pointed)
         IN /\ FreshIn(added)
            /\ \E w \in Valuation :
                 /\ Fits((S \ {op.source}) \cup {op.destination}, added, w,
                         [reg EXCEPT ![op.destination] = c])
                 /\ (Pointed = a => k = n) /\ MarksFit(s, v, m, a, n) =>
                      MarksFit(added, w, m, a, n)
<1> DEFINE x == Fresh(s, op.source)
           k == SizeOf[op.destination]
           named == Insert(s, op.source, Variable(x))
           mark == [source |-> op.source, name |-> x, address |-> Pointed]
           marks == {t \in s.to_solve : t.source # op.source} \cup {mark}
           marked == WithMarks(named, marks)
           e == Sized(Variable(x), k)
           c == Word(m, Pointed, k, setup.little)
           w == [v EXCEPT ![x] = c]
           added == AddLoad(s, op, Pointed)
<1>1. /\ op.source \in Operand /\ op.destination \in Operand /\ x \in SymVar
      /\ k \in Size /\ SizeOf[op.source] \in Size /\ Pointed \in Address
      /\ reg \in [Operand -> Val]
  BY OpInProgram, PointedAt DEF OpFields, WithinBounds, TypeOK
<1>2. x[1] = op.source /\ x[2] = s.version[op.source] + 1
  BY DEF Fresh
<1>3. /\ s \in SolverTo(MaxVersion) /\ MaxVersion \in Int
      /\ s \in SolverTo(MaxVersion - 2) /\ MaxVersion - 2 \in Int
  BY <1>1, SolverIs, SolverAssumption DEF WithinBounds, Solver, SolverTo, Mark
<1>4. c \in Val
  BY <1>1, WordType DEF Pointed
<1>5. w \in Valuation /\ w[x] = c
  BY <1>1, <1>4, ExceptValuation DEF Valuation
<1>6. Variable(x) \in Expr /\ e \in Expr
  BY <1>1, OperatorTypes
<1>7. e[w] = c
  <2>1. Cells[k] <= Cells[SizeOf[op.source]]
    <3>1. Program(setup.code) /\ pc \in DOMAIN setup.code
      BY DummyAssumption DEF TypeOK
    <3> QED
      BY <3>1 DEF Program, op
  <2>2. e[w] = Low(Low(w[x], SizeOf[op.source]), k)
    BY <1>2, <1>5 DEF Sized, Variable, Value
  <2>3. Low(Low(c, SizeOf[op.source]), k) = Low(c, k)
    BY <1>1, <1>4, <2>1, LowLow
  <2>4. Low(c, k) = c
    BY LowWord
  <2> QED
    BY <1>5, <2>2, <2>3, <2>4
<1>8. Fits(S, s, w, reg)
  <2> SUFFICES ASSUME NEW j \in S PROVE s.expr[j][w] = s.expr[j][v] /\ j \in Operand
    BY DEF Fits
  <2>1. j \in Operand
    BY DEF Fits
  <2>2. x[2] > s.version[x[1]]
    BY <1>1, <1>2, <1>3 DEF SolverTo
  <2> QED
    BY <1>1, <1>4, <2>1, <2>2 DEF FreshIn, Independent
<1>9. named.version = [s.version EXCEPT ![op.source] = @ + 1] /\ named.to_solve = s.to_solve
  BY DEF Insert
<1>10. named \in SolverTo((MaxVersion - 2) + 1)
  BY <1>1, <1>3, <1>6, InsertType
<1>11. FreshIn(named) /\ x[2] <= named.version[x[1]]
  <2>1. named.version \in [Operand -> Int] /\ x[2] <= named.version[x[1]]
    BY <1>1, <1>2, <1>3, <1>9 DEF SolverTo
  <2>2. Independent(Variable(x), named.version)
    BY <1>1, <2>1, VariableIndependent
  <2> QED
    BY <1>1, <1>3, <2>1, <2>2, InsertFresh
<1>12. Fits(S \ {op.source}, named, w, reg)
  BY <1>1, <1>3, <1>8, InsertFits
<1>13. \A t \in s.to_solve : t.name # x
  <2> SUFFICES ASSUME NEW t \in s.to_solve PROVE t.name # x
    OBVIOUS
  <2>1. t.name \in SymVar
    BY <1>3 DEF SolverTo, Mark
  <2>2. t.name[1] \in Operand /\ t.name[2] <= s.version[t.name[1]] /\ t.name[2] \in Nat
    BY <2>1, NameIs DEF FreshIn
  <2>3. s.version[op.source] \in Int
    BY <1>1, <1>3 DEF SolverTo
  <2> QED
    BY <1>2, <2>2, <2>3
<1>14. marked.version = named.version /\ marked.expr = named.expr /\ marked.to_solve = marks
  BY DEF WithMarks
<1>15. marked \in SolverTo(MaxVersion - 1) /\ MaxVersion - 1 \in Int
  <2>1. marks \in SUBSET Mark
    BY <1>1, <1>3 DEF SolverTo, Mark
  <2> HIDE DEF named, marks
  <2>2. (MaxVersion - 2) + 1 = MaxVersion - 1 /\ MaxVersion - 1 \in Int
    BY SolverAssumption
  <2>3. named \in SolverTo(MaxVersion - 1)
    BY <1>10, <2>2
  <2> QED
    BY <2>1, <2>2, <2>3 DEF SolverTo, WithMarks
<1>16. FreshIn(marked)
  <2>1. \A t \in s.to_solve : t.name[2] <= named.version[t.name[1]]
    BY <1>9, <1>11 DEF FreshIn
  <2>2. mark.name = x
    OBVIOUS
  <2> HIDE DEF x, mark, named
  <2>3. \A t \in marks : t.name[2] <= named.version[t.name[1]]
    BY <1>11, <2>1, <2>2
  <2> HIDE DEF marks, marked
  <2> QED
    BY <1>11, <1>14, <2>3 DEF FreshIn
<1>17. Fits(S \ {op.source}, marked, w, reg)
  <2> HIDE DEF marked, named, w
  <2> QED
    BY <1>12, <1>14 DEF Fits, Tracked
<1>18. added = Insert(marked, op.destination, e) /\ added.to_solve = marks
  BY DEF AddLoad, Insert, WithMarks
<1>19. FreshIn(added)
  <2>1. marked.version \in [Operand -> Int] /\ x[2] <= marked.version[x[1]]
    BY <1>11, <1>14, <1>15 DEF SolverTo
  <2> HIDE DEF marked, x
  <2>2. Independent(e, marked.version)
    BY <1>1, <2>1, VariableIndependent, SizedIndependent
  <2> HIDE DEF e, added
  <2> QED
    BY <1>1, <1>15, <1>16, <1>18, <2>2, InsertKnownFresh
<1>20. Fits((S \ {op.source}) \cup {op.destination}, added, w,
            [reg EXCEPT ![op.destination] = c])
  <2> HIDE DEF marked, x, e, added, c, w
  <2> QED
    BY <1>1, <1>7, <1>15, <1>17, <1>18, InsertFits
<1>21. ASSUME Pointed = a => k = n, MarksFit(s, v, m, a, n)
       PROVE  MarksFit(added, w, m, a, n)
  <2>1. \A t \in s.to_solve : w[t.name] = v[t.name]
    BY <1>1, <1>3, <1>13 DEF Valuation, SolverTo, Mark
  <2>2. mark.name = x /\ mark.address = Pointed
    OBVIOUS
  <2>3. Pointed = a => Low(w[x], n) = Word(m, a, n, setup.little)
    BY <1>5, <1>21, LowWord
  <2> HIDE DEF w, x, mark, added
  <2>4. \A t \in marks : t.address = a => Low(w[t.name], n) = Word(m, a, n, setup.little)
    BY <1>21, <2>1, <2>2, <2>3 DEF MarksFit
  <2> HIDE DEF marks
  <2> QED
    BY <1>18, <2>4 DEF MarksFit
<1> QED
  BY <1>5, <1>19, <1>20, <1>21

\* A store or a calculation: what is computed is what the firmware computes.
LEMMA AddOtherTree ==
  ASSUME TypeOK, NEW s \in Solver, op.kind \in {"store", "calc"}, WithinBounds(s, op),
         NEW S, FreshIn(s), NEW v \in Valuation, Fits(S, s, v, reg),
         NEW m \in [Address -> Byte], Bus!Execute(m), NEW a
  PROVE  /\ FreshIn(AddPcode(s, op, a, Seen))
         /\ Fits(After(S, s), AddPcode(s, op, a, Seen), v, reg')
<1> DEFINE n == MaxVersion
           added == AddPcode(s, op, a, Seen)
<1>0. /\ s \in SolverTo(n) /\ n \in Nat /\ n \in Int /\ OpFields(op)
      /\ Seen \in [Operand -> Val] /\ reg \in [Operand -> Val]
  BY SolverIs, OpInProgram, SeenType DEF TypeOK
<1> HIDE DEF n
<1>1. CASE op.kind = "store"
  <2> DEFINE t == Touch(s, op.source, Seen)
             e == t.expr[op.source]
             R == S \cup {i \in {op.source} : ~Tracked(s, i) /\ Seen[i] = reg[i]}
  <2>1. op.source \in Operand /\ op.destination \in Operand
    BY <1>0, <1>1 DEF OpFields
  <2>2. t \in SolverTo(n)
    BY <1>0, <2>1, TouchType
  <2>3. FreshIn(t) /\ Fits(R, t, v, reg)
    BY <1>0, <2>1, TouchTree
  <2>4. After(S, s) = R \ {op.destination}
    BY <1>1 DEF After, ReadOf, Reads
  <2>5. added = Insert(t, op.destination, e)
    BY <1>1 DEF AddPcode, AddStore
  <2> HIDE DEF t, R, added
  <2>6. Independent(e, t.version)
    BY <2>1, <2>3 DEF FreshIn
  <2> HIDE DEF e
  <2>7. FreshIn(added) /\ Fits(R \ {op.destination}, added, v, reg)
    <3>1. FreshIn(added)
      BY <1>0, <2>1, <2>2, <2>3, <2>5, <2>6, InsertKnownFresh
    <3>2. Fits(R \ {op.destination}, added, v, reg)
      BY <1>0, <2>1, <2>2, <2>3, <2>5, InsertFits
    <3> QED
      BY <3>1, <3>2
  <2>8. reg' = reg
    BY <1>1, ExecuteIs
  <2> QED
    BY <2>4, <2>7, <2>8 DEF added
<1>2. CASE op.kind = "calc"
  <2> DEFINE k == op.operands[1]
             j == op.operands[2]
             one == Touch(s, k, Seen)
             two == Touch(one, j, Seen)
             f == two.expr[k]
             g == two.expr[j]
             e == Sized(Apply(op.sym, f, g), SizeOf[op.result])
             c == Low(op.fun[<<reg[k], reg[j]>>], SizeOf[op.result])
             R == S \cup {i \in {k} : ~Tracked(s, i) /\ Seen[i] = reg[i]}
             Q == R \cup {i \in {j} : ~Tracked(one, i) /\ Seen[i] = reg[i]}
  <2>1. k \in Operand /\ j \in Operand /\ op.result \in Operand /\ Reads(op) = {k, j}
    BY <1>0, <1>2 DEF OpFields, Reads
  <2>2. reg' = [reg EXCEPT ![op.result] = c]
    BY <1>2, ExecuteIs
  <2>3. added = Insert(two, op.result, e)
    BY <1>2 DEF AddPcode, AddCalc
  <2>4. \A u \in Valuation : e[u] = Low(op.sym[<<f[u], g[u]>>], SizeOf[op.result])
    BY DEF Sized, Apply
  <2> HIDE DEF k, j, added
  <2>5. one \in SolverTo(n) /\ Tracked(one, k)
    <3>1. one \in SolverTo(n)
      BY <1>0, <2>1, TouchType
    <3>2. Tracked(one, k)
      BY <1>0, <2>1, TouchType
    <3> QED
      BY <3>1, <3>2
  <2>6. /\ FreshIn(one) /\ Fits(R, one, v, reg)
        /\ \A i \in Operand \ {k} : Tracked(one, i) <=> Tracked(s, i)
    BY <1>0, <2>1, TouchTree
  <2>7. Q = ReadOf(S, s)
    <3> HIDE DEF one
    <3> QED
      BY <2>1, <2>5, <2>6 DEF ReadOf
  <2> HIDE DEF one
  <2>8. two \in SolverTo(n)
    BY <1>0, <2>1, <2>5, TouchType
  <2>9. FreshIn(two) /\ Fits(Q, two, v, reg)
    <3> HIDE DEF R
    <3>1. FreshIn(two)
      BY <1>0, <2>1, <2>5, <2>6, TouchTree
    <3>2. Fits(Q, two, v, reg)
      BY <1>0, <2>1, <2>5, <2>6, TouchTree
    <3> QED
      BY <3>1, <3>2
  <2> HIDE DEF two, Q
  <2>10. Independent(e, two.version)
    <3>1. Independent(f, two.version) /\ Independent(g, two.version)
      BY <2>1, <2>9 DEF FreshIn
    <3> HIDE DEF f, g
    <3> QED
      BY <3>1, ApplyIndependent, SizedIndependent
  <2>11. op.sym = op.fun /\ Reads(op) \subseteq Q => e[v] = c
    <3>1. Reads(op) \subseteq Q => f[v] = reg[k] /\ g[v] = reg[j]
      BY <2>1, <2>9 DEF Fits
    <3> HIDE DEF f, g, e
    <3> QED
      BY <2>4, <3>1
  <2> HIDE DEF e, c
  <2>12. FreshIn(added)
    BY <1>0, <2>1, <2>3, <2>8, <2>9, <2>10, InsertKnownFresh
  <2>13. /\ Fits(Q \ {op.result}, added, v, [reg EXCEPT ![op.result] = c])
         /\ e[v] = c => Fits(Q \cup {op.result}, added, v, [reg EXCEPT ![op.result] = c])
    BY <1>0, <2>1, <2>3, <2>8, <2>9, InsertFits
  <2>14. After(S, s) = IF op.sym = op.fun /\ Reads(op) \subseteq Q
                       THEN Q \cup {op.result} ELSE Q \ {op.result}
    BY <1>2, <2>7 DEF After
  <2>15. Fits(After(S, s), added, v, reg')
    <3>1. CASE op.sym = op.fun /\ Reads(op) \subseteq Q
      BY <2>2, <2>11, <2>13, <2>14, <3>1
    <3>2. CASE ~(op.sym = op.fun /\ Reads(op) \subseteq Q)
      BY <2>2, <2>13, <2>14, <3>2
    <3> QED
      BY <3>1, <3>2
  <2> QED
    BY <2>12, <2>15 DEF added
<1> QED
  BY <1>1, <1>2

LEMMA AddTree ==
  ASSUME TypeOK, NEW s \in Solver, WithinBounds(s, op),
         NEW S, FreshIn(s), NEW v \in Valuation, Fits(S, s, v, reg),
         NEW m \in [Address -> Byte], Bus!Execute(m), NEW a, NEW n
  PROVE  LET added == AddPcode(s, op, Pointed, Seen)
         IN /\ FreshIn(added)
            /\ \E w \in Valuation :
                 /\ Fits(After(S, s), added, w, reg')
                 /\ /\ op.kind = "load" /\ Pointed = a => SizeOf[op.destination] = n
                    /\ MarksFit(s, v, m, a, n)
                    => MarksFit(added, w, m, a, n)
<1> DEFINE added == AddPcode(s, op, Pointed, Seen)
<1>1. CASE op.kind = "load"
  <2>1. added = AddLoad(s, op, Pointed)
    BY <1>1 DEF AddPcode
  <2>2. /\ reg' = [reg EXCEPT ![op.destination] =
                     Word(m, Pointed, SizeOf[op.destination], setup.little)]
        /\ After(S, s) = (S \ {op.source}) \cup {op.destination}
    BY <1>1, ExecuteIs DEF After
  <2>3. /\ FreshIn(AddLoad(s, op, Pointed))
        /\ \E w \in Valuation :
             /\ Fits((S \ {op.source}) \cup {op.destination}, AddLoad(s, op, Pointed), w,
                     [reg EXCEPT ![op.destination] =
                        Word(m, Pointed, SizeOf[op.destination], setup.little)])
             /\ (Pointed = a => SizeOf[op.destination] = n) /\ MarksFit(s, v, m, a, n) =>
                  MarksFit(AddLoad(s, op, Pointed), w, m, a, n)
    BY <1>1, AddLoadTree
  <2> HIDE DEF added
  <2>4. PICK w \in Valuation :
          /\ Fits(After(S, s), added, w, reg')
          /\ (Pointed = a => SizeOf[op.destination] = n) /\ MarksFit(s, v, m, a, n) =>
               MarksFit(added, w, m, a, n)
    BY <2>1, <2>2, <2>3
  <2> QED
    BY <1>1, <2>1, <2>3, <2>4 DEF added
<1>2. CASE op.kind \in {"store", "calc"}
  <2>1. added.to_solve = s.to_solve
    BY <1>2, OpInProgram, SeenType, AddOtherType
  <2>2. FreshIn(added) /\ Fits(After(S, s), added, v, reg')
    BY <1>2, AddOtherTree
  <2> HIDE DEF added
  <2>3. MarksFit(s, v, m, a, n) => MarksFit(added, v, m, a, n)
    BY <2>1 DEF MarksFit
  <2> QED
    BY <2>2, <2>3 DEF added
<1>3. CASE op.kind \notin {"load", "store", "calc"}
  <2>1. added = s /\ reg' = reg /\ After(S, s) = S
    BY <1>3, ExecuteIs DEF AddPcode, After
  <2> QED
    BY <2>1
<1> QED
  BY <1>1, <1>2, <1>3

-----------------------------------------------------------------------------
(* The tree of an episode. *)

TreeFits(S, s, r, m, a, n, whole) ==
  /\ FreshIn(s)
  /\ \E v \in Valuation :
       /\ Fits(S, s, v, r)
       /\ whole => MarksFit(s, v, m, a, n)

Followed == solving_started /\ forgive_jump = 0

Tree ==
  Followed =>
    TreeFits(exact, solver, reg, mem, last_mem_read_event.address,
             last_mem_read_event.size, OneSize /\ ~Overtaken)

\* The load that started the episode is one of the code.
Rooted ==
  solving_started =>
    /\ \E u \in Val : last_mem_read_event.address = AddressOf[u]
    /\ \E i \in DOMAIN setup.code :
         /\ setup.code[i].kind = "load"
         /\ last_mem_read_event.size = SizeOf[setup.code[i].destination]

Grounded == Sound /\ Rooted

LEMMA StepRooted ==
  ASSUME Sound, Rooted, Step
  PROVE  Rooted'
<1>1. setup' = setup
  BY DEF Step, LoadUnwatched, LoadWatched, Start, LoadCached, Store, CBranchIdle,
         CloseLoop, Forward, ICall, Return, Other, Finish
<1>2. CASE LoadWatched
  <2>1. /\ op.kind = "load" /\ last_mem_read_event'.address = Pointed
        /\ last_mem_read_event'.size = SizeOf[op.destination]
    BY <1>2 DEF LoadWatched, Start, Watched
  <2>2. TypeOK /\ pc \in DOMAIN setup.code
    BY DEF Sound, Typed, TypeOK
  <2>3. \E u \in Val : Pointed = AddressOf[u]
    BY <2>1, <2>2, PointedAt DEF Pointed
  <2> QED
    BY <1>1, <2>1, <2>2, <2>3 DEF Rooted, op
<1>3. CASE ~LoadWatched
  <2>1. UNCHANGED last_mem_read_event
    BY <1>3 DEF Step, LoadUnwatched, LoadCached, Store, CBranchIdle, CloseLoop, Forward,
                ICall, Return, Other, episode
  <2>2. solving_started' => solving_started
    <3>1. CASE LoadUnwatched \/ LoadCached \/ CBranchIdle \/ Other
      BY <3>1 DEF LoadUnwatched, LoadCached, CBranchIdle, Other, episode
    <3>2. CASE Store \/ CloseLoop \/ Forward
      BY <3>2 DEF Store, CloseLoop, Forward
    <3>3. CASE ICall \/ Return
      BY <3>3 DEF ICall, Return, Counted
    <3> QED
      BY <1>3, <3>1, <3>2, <3>3 DEF Step
  <2> QED
    BY <1>1, <2>1, <2>2 DEF Rooted
<1> QED
  BY <1>2, <1>3

\* Where loads and stores have one size, a word of it is accessed as a whole.
LEMMA WholeWords ==
  ASSUME Sound, Rooted, solving_started, OneSize
  PROVE  LET a == last_mem_read_event.address
             n == last_mem_read_event.size
         IN /\ op.kind = "load" => SizeOf[op.destination] = n
            /\ op.kind = "store" => SizeOf[op.source] = n
            /\ op.kind \in {"load", "store"} /\ Pointed # a =>
                 Span(Pointed, n) \cap Span(a, n) = {}
<1> DEFINE a == last_mem_read_event.address
           n == last_mem_read_event.size
<1>1. PICK k \in Size :
        /\ \A i \in DOMAIN setup.code :
             /\ setup.code[i].kind = "load" => SizeOf[setup.code[i].destination] = k
             /\ setup.code[i].kind = "store" => SizeOf[setup.code[i].source] = k
        /\ \A u, v \in Val : AddressOf[u] # AddressOf[v] =>
             Span(AddressOf[u], k) \cap Span(AddressOf[v], k) = {}
  BY DEF OneSize
<1>2. k = n /\ \E u \in Val : a = AddressOf[u]
  BY <1>1 DEF Rooted
<1>3. TypeOK /\ pc \in DOMAIN setup.code
  BY DEF Sound, Typed, TypeOK
<1>4. op.kind \in {"load", "store"} => \E u \in Val : Pointed = AddressOf[u]
  BY <1>3, PointedAt DEF Pointed
<1> HIDE DEF a, n
<1>5. op.kind \in {"load", "store"} /\ Pointed # a => Span(Pointed, n) \cap Span(a, n) = {}
  BY <1>1, <1>2, <1>4
<1> QED
  BY <1>1, <1>2, <1>3, <1>5 DEF a, n, op

\* A new solver says nothing.
LEMMA NewTree ==
  ASSUME NEW r, NEW m, NEW a, NEW n
  PROVE  /\ FreshIn(NewSolver)
         /\ \E v \in Valuation : Fits({}, NewSolver, v, r) /\ MarksFit(NewSolver, v, m, a, n)
<1> DEFINE v == [x \in SymVar |-> Zero]
<1>1. v \in Valuation
  BY SmallValues DEF Valuation
<1>2. \A k \in Operand : Independent(NewSolver.expr[k], NewSolver.version)
  BY ConstantIndependent DEF NewSolver
<1>3. NewSolver.to_solve = {}
  BY DEF NewSolver
<1> HIDE DEF v
<1> QED
  BY <1>1, <1>2, <1>3 DEF FreshIn, Fits, MarksFit

\* A step that leaves an episode on keeps its tree, if it spares the register.
LEMMA FinishTree ==
  ASSUME Sound, Typed', Blank', Followed', ~panicked,
         NEW m \in [Address -> Byte], NEW s \in Solver, Finish(m, s),
         NEW S, exact' = IF panicked' THEN S ELSE IF ~Building' THEN {} ELSE After(S, s),
         NEW a \in Address, a = last_mem_read_event'.address,
         NEW n \in Size, n = last_mem_read_event'.size, Span(a, n) \subseteq Address,
         FreshIn(s), NEW v \in Valuation, Fits(S, s, v, reg),
         (OneSize /\ ~Overtaken)' =>
           /\ MarksFit(s, v, mem, a, n)
           /\ \A b \in Span(a, n) : m[b] = mem[b]
           /\ op.kind = "load" /\ Pointed = a => SizeOf[op.destination] = n
           /\ op.kind = "store" =>
                Span(Pointed, SizeOf[op.source]) \cap Span(a, n) = {}
  PROVE  Tree'
<1>0. TypeOK /\ setup' = setup
  BY DEF Sound, Typed, Finish
<1> SUFFICES /\ FreshIn(solver')
             /\ \E w \in Valuation :
                  /\ Fits(exact', solver', w, reg')
                  /\ (OneSize /\ ~Overtaken)' => MarksFit(solver', w, mem', a, n)
  BY <1>0 DEF Tree, TreeFits, FreshIn, Fits, MarksFit
<1>1. CASE Die /\ solver' = s
  BY <1>1 DEF Die, firmware
<1>2. CASE ~Building' /\ UNCHANGED panicked
  <2>1. solver' = NewSolver
    <3>1. forgive_fun_call' \in -MaxCalls .. MaxCalls /\ MaxCalls \in Nat
      BY DummyAssumption DEF Typed, TypeOK
    <3> QED
      BY <1>2, <3>1 DEF Building, Followed, Blank
  <2>2. exact' = {}
    BY <1>2
  <2> QED
    BY <2>1, <2>2, NewTree
<1>3. CASE /\ Building' /\ UNCHANGED panicked /\ WithinBounds(s, op) /\ Bus!Execute(m)
           /\ solver' = AddPcode(s, op, Pointed, Seen)
  <2>1. exact' = After(S, s)
    BY <1>3
  <2>2. /\ FreshIn(solver')
        /\ \E w \in Valuation :
             /\ Fits(After(S, s), solver', w, reg')
             /\ /\ op.kind = "load" /\ Pointed = a => SizeOf[op.destination] = n
                /\ MarksFit(s, v, m, a, n)
                => MarksFit(solver', w, m, a, n)
    BY <1>0, <1>3, AddTree
  <2>3. ASSUME (OneSize /\ ~Overtaken)'
        PROVE  /\ Word(m, a, n, setup.little) = Word(mem, a, n, setup.little)
               /\ Word(mem', a, n, setup.little) = Word(m, a, n, setup.little)
    <3>1. \A b \in Span(a, n) : m[b] = mem[b]
      BY <2>3
    <3>2. mem' = IF op.kind = "store"
                 THEN Put(m, Pointed, SizeOf[op.source], reg[op.source], setup.little)
                 ELSE m
      BY <1>0, <1>3, ExecuteIs
    <3>3. \A b \in Span(a, n) : mem'[b] = m[b]
      BY <2>3, <3>2 DEF Put
    <3> QED
      BY <3>1, <3>3, SameWord
  <2>4. PICK w \in Valuation :
          /\ Fits(After(S, s), solver', w, reg')
          /\ /\ op.kind = "load" /\ Pointed = a => SizeOf[op.destination] = n
             /\ MarksFit(s, v, m, a, n)
             => MarksFit(solver', w, m, a, n)
    BY <2>2
  <2>5. (OneSize /\ ~Overtaken)' => MarksFit(solver', w, mem', a, n)
    BY <2>3, <2>4 DEF MarksFit
  <2> QED
    BY <2>1, <2>2, <2>4, <2>5
<1> QED
  BY <1>1, <1>2, <1>3 DEF Finish, Die

\* The hook leaves the solver and adds the operation that executes.
LEMMA StaysTree ==
  ASSUME Grounded, Grounded', Tree, Step, exact' = IF panicked' THEN exact ELSE ExactAfter,
         Followed, Followed', UNCHANGED <<setup, last_mem_read_event>>,
         ~Overtaken' => ~Overtaken, op.kind = "load" => ~StartsEpisode,
         op.kind = "store" => Pointed # last_mem_read_event.address,
         NEW m \in [Address -> Byte], Finish(m, solver),
         \A b \in Address : m[b] # mem[b] =>
           b \in Accessed /\ op.kind = "load" /\ (~Overtaken => Pointed # last_mem_read_event.address)
  PROVE  Tree'
<1> DEFINE a == last_mem_read_event.address
           n == last_mem_read_event.size
<1>0. /\ TypeOK /\ Typed' /\ Blank' /\ Sound /\ solver \in Solver /\ ~panicked
      /\ n \in Size /\ Rooted
  BY DEF Grounded, Sound, Typed, TypeOK, Step, Followed
<1>1. a \in Address /\ Span(a, n) \subseteq Address
  BY <1>0, PCodeAssumption DEF Rooted, Followed
<1>2. /\ FreshIn(solver)
      /\ \E v \in Valuation :
           /\ Fits(exact, solver, v, reg)
           /\ OneSize /\ ~Overtaken => MarksFit(solver, v, mem, a, n)
  BY DEF Tree, TreeFits
<1>3. PICK v \in Valuation :
        /\ Fits(exact, solver, v, reg)
        /\ OneSize /\ ~Overtaken => MarksFit(solver, v, mem, a, n)
  BY <1>2
<1>4. exact' = IF panicked' THEN exact ELSE IF ~Building' THEN {} ELSE After(exact, solver)
  BY DEF ExactAfter, After, Read, ReadOf
<1>5. ASSUME (OneSize /\ ~Overtaken)'
      PROVE  /\ MarksFit(solver, v, mem, a, n)
             /\ \A b \in Span(a, n) : m[b] = mem[b]
             /\ op.kind = "load" /\ Pointed = a => SizeOf[op.destination] = n
             /\ op.kind = "store" =>
                  Span(Pointed, SizeOf[op.source]) \cap Span(a, n) = {}
  <2>1. OneSize /\ ~Overtaken
    BY <1>5 DEF OneSize
  <2>2. /\ op.kind = "load" => SizeOf[op.destination] = n
        /\ op.kind = "store" => SizeOf[op.source] = n
        /\ op.kind \in {"load", "store"} /\ Pointed # a =>
             Span(Pointed, n) \cap Span(a, n) = {}
    BY <1>0, <2>1, WholeWords DEF Followed
  <2>3. op.kind = "load" => Accessed = Span(Pointed, n)
    BY <2>2 DEF Accessed
  <2>4. \A b \in Span(a, n) : m[b] = mem[b]
    BY <1>1, <2>1, <2>2, <2>3
  <2> QED
    BY <1>3, <2>1, <2>2, <2>4
<1> HIDE DEF a, n
<1>6. a = last_mem_read_event'.address /\ n = last_mem_read_event'.size
  BY DEF a, n
<1>7. (OneSize /\ ~Overtaken)' =>
        /\ MarksFit(solver, v, mem, a, n)
        /\ \A b \in Span(a, n) : m[b] = mem[b]
        /\ op.kind = "load" /\ Pointed = a => SizeOf[op.destination] = n
        /\ op.kind = "store" => Span(Pointed, SizeOf[op.source]) \cap Span(a, n) = {}
  BY <1>5
<1>8. n \in Size /\ FreshIn(solver) /\ Fits(exact, solver, v, reg)
  BY <1>0, <1>2, <1>3 DEF n
<1> QED
  BY <1>0, <1>1, <1>4, <1>6, <1>7, <1>8, FinishTree

LEMMA StepTree ==
  ASSUME Grounded, Grounded', Tree, TreeStep
  PROVE  Tree'
<1> SUFFICES ASSUME Followed' PROVE Tree'
  BY DEF Tree
<1>0. /\ Step /\ exact' = IF panicked' THEN exact ELSE ExactAfter
      /\ TypeOK /\ NotCached /\ Sound /\ mem \in [Address -> Byte] /\ Device \subseteq Address
      /\ forgive_jump \in 0 .. 2 /\ setup' = setup /\ Typed' /\ Blank' /\ ~panicked
  <2>1. Step /\ exact' = IF panicked' THEN exact ELSE ExactAfter
    BY DEF TreeStep
  <2>2. setup' = setup /\ ~panicked
    BY <2>1 DEF Step, LoadUnwatched, LoadWatched, Start, LoadCached, Store, CBranchIdle,
       CloseLoop, Forward, ICall, Return, Other, Finish
  <2> QED
    BY <2>1, <2>2, DummyAssumption DEF Grounded, Sound, Typed, TypeOK
<1>1. ASSUME solving_started' => solving_started,
             UNCHANGED <<forgive_jump, last_mem_read_event, solving_results>>
      PROVE  Followed /\ (~Overtaken' => ~Overtaken)
  BY <1>0, <1>1 DEF Followed, Overtaken
<1>2. ASSUME solving_started' => solving_started, op.kind = "load" => ~StartsEpisode,
             UNCHANGED <<forgive_jump, last_mem_read_event, solving_results>>,
             op.kind = "store" => Pointed # last_mem_read_event.address,
             Finish(mem, solver)
      PROVE  Tree'
  BY <1>0, <1>1, <1>2, StaysTree
<1>3. CASE LoadWatched
  <2> DEFINE a == Pointed
             n == SizeOf[op.destination]
  <2>1. /\ Finish(mem, NewSolver) /\ op.kind = "load" /\ StartsEpisode
        /\ last_mem_read_event'.address = a /\ last_mem_read_event'.size = n
    BY <1>3 DEF LoadWatched, Start, Watched, StartsEpisode
  <2>2. a \in Address /\ n \in Size /\ Span(a, n) \subseteq Address
    BY <1>0, <2>1, PointedAt
  <2>3. exact' = IF panicked' THEN {} ELSE IF ~Building' THEN {} ELSE After({}, NewSolver)
    <3>1. ~panicked'
      BY <1>0, <2>1 DEF Finish, Supported, Reads
    <3> QED
      BY <1>0, <2>1, <3>1 DEF ExactAfter, After
  <2> HIDE DEF a, n
  <2>4. PICK v \in Valuation : Fits({}, NewSolver, v, reg) /\ MarksFit(NewSolver, v, mem, a, n)
    BY NewTree
  <2>5. FreshIn(NewSolver) /\ NewSolver \in Solver
    BY NewTree, NewSolverType
  <2>6. /\ op.kind = "load" /\ Pointed = a => SizeOf[op.destination] = n
        /\ op.kind # "store"
    BY <2>1 DEF n
  <2> QED
    BY <1>0, <2>1, <2>2, <2>3, <2>4, <2>5, <2>6, FinishTree
<1>4. CASE LoadCached
  <2> DEFINE n == SizeOf[op.destination]
             m == Put(mem, Pointed, n, solving_results[Pointed], TRUE)
  <2>1. /\ UNCHANGED <<solving_started, forgive_jump, last_mem_read_event, solving_results>>
        /\ op.kind = "load" /\ Hit /\ ~StartsEpisode
    BY <1>4 DEF LoadCached, Hit, Watched, episode, forgiven, StartsEpisode
  <2>2. Followed /\ (~Overtaken' => ~Overtaken)
    BY <1>1, <2>1
  <2>3. CASE Finish(mem, solver)
    BY <1>2, <2>1, <2>3
  <2>4. CASE Die /\ UNCHANGED solver
    <3>1. panicked' /\ UNCHANGED <<reg, mem, exact>>
      BY <1>0, <2>4 DEF Die, firmware
    <3>2. TreeFits(exact, solver, reg, mem, last_mem_read_event.address,
                   last_mem_read_event.size, OneSize /\ ~Overtaken)
      BY <2>2 DEF Tree
    <3>3. (OneSize /\ ~Overtaken)' => OneSize /\ ~Overtaken
      BY <1>0, <2>2 DEF OneSize
    <3> QED
      BY <1>0, <2>1, <2>4, <3>1, <3>2, <3>3 DEF Tree, TreeFits, FreshIn, Fits, MarksFit
  <2>5. CASE Finish(m, solver)
    <3>1. Pointed \in Address /\ n \in Size /\ solving_results[Pointed] \in Val
      BY <1>0, <2>1, PointedAt DEF Hit, Watched, TypeOK
    <3>2. m \in [Address -> Byte]
      BY <1>0, <3>1, PutType
    <3>3. ~Overtaken => Pointed # last_mem_read_event.address
      BY <1>0, <2>1, <2>2 DEF Followed, Overtaken, Hit, NotCached
    <3>4. \A b \in Address : m[b] # mem[b] => b \in Accessed
      BY <2>1 DEF Put, Accessed
    <3> HIDE DEF m
    <3> QED
      BY <1>0, <2>1, <2>2, <2>5, <3>2, <3>3, <3>4, StaysTree
  <2> QED
    BY <1>4, <2>3, <2>4, <2>5 DEF LoadCached
<1>5. CASE Store
  <2>1. /\ UNCHANGED <<forgive_jump, last_mem_read_event, solving_results>>
        /\ Finish(mem, solver) /\ op.kind = "store"
        /\ solving_started' => solving_started /\ Pointed # last_mem_read_event.address
    BY <1>5 DEF Store, forgiven
  <2> QED
    BY <1>2, <2>1 DEF Followed
<1>6. CASE LoadUnwatched \/ CBranchIdle \/ Other
  <2>1. /\ UNCHANGED <<solving_started, forgive_jump, last_mem_read_event, solving_results>>
        /\ Finish(mem, solver) /\ op.kind # "store" /\ ~StartsEpisode
    BY <1>6 DEF LoadUnwatched, CBranchIdle, Other, episode, forgiven, StartsEpisode, Watched
  <2> QED
    BY <1>2, <2>1
<1>7. CASE ICall \/ Return
  <2>1. /\ UNCHANGED <<forgive_jump, last_mem_read_event, solving_results>>
        /\ Finish(mem, solver) /\ op.kind \in {"icall", "return"}
        /\ solving_started' => solving_started
    BY <1>7 DEF ICall, Return, Counted
  <2> QED
    BY <1>2, <2>1
<1>8. CASE CloseLoop
  BY <1>8 DEF CloseLoop, Followed
<1>9. CASE Forward
  <2>1. forgive_jump' # 0
    BY <1>0, <1>9 DEF Forward
  <2> QED
    BY <2>1 DEF Followed
<1> QED
  BY <1>0, <1>3, <1>4, <1>5, <1>6, <1>7, <1>8, <1>9 DEF Step

LEMMA CloneTree ==
  ASSUME Grounded, Tree, CloneStep, UNCHANGED exact
  PROVE  Tree'
<1> SUFFICES ASSUME Followed' PROVE Tree'
  BY DEF Tree
<1>1. /\ UNCHANGED machine
      /\ \A a \in Address : solving_results[a] # NoResult => solving_results'[a] # NoResult
  BY CloneInserts DEF Grounded, Sound, Typed
<1>2. Followed /\ UNCHANGED <<setup, exact, solver, reg, mem, last_mem_read_event>>
  BY <1>1 DEF machine, firmware, episode, forgiven, Followed
<1>3. last_mem_read_event.address \in Address
  BY <1>2, DummyAssumption DEF Followed, Grounded, Sound, NotCached
<1>4. (OneSize /\ ~Overtaken)' => OneSize /\ ~Overtaken
  BY <1>1, <1>2, <1>3 DEF OneSize, Overtaken
<1> QED
  BY <1>2, <1>4 DEF Tree, TreeFits, FreshIn, Fits, MarksFit

(* What the solver is given is the firmware's, as far as operands are      *)
(* exact: the value read from the register and the values those operands   *)
(* got from it are one solution.                                           *)
THEOREM TreeIsFirmwares == TreeSpec => []TreeMatches
<1>1. TreeInit => Grounded /\ Tree
  <2>1. Init => Sound
    BY InitSound
  <2> QED
    BY <2>1 DEF TreeInit, Init, Grounded, Rooted, Tree, Followed
<1>2. Grounded /\ [TreeNext]_treeVars => Grounded'
  <2> SUFFICES ASSUME Grounded, [TreeNext]_treeVars PROVE Grounded'
    OBVIOUS
  <2>1. [Next]_vars
    BY DEF TreeNext, TreeStep, treeVars, Next
  <2>2. Sound'
    BY <2>1, NextSound DEF Grounded
  <2>3. UNCHANGED machine => Rooted'
    BY DEF machine, episode, Grounded, Rooted
  <2>4. Step => Rooted'
    BY StepRooted DEF Grounded
  <2> QED
    BY <2>1, <2>2, <2>3, <2>4 DEF Next, CloneStep, vars, Grounded
<1>3. Grounded /\ Grounded' /\ Tree /\ [TreeNext]_treeVars => Tree'
  <2>1. UNCHANGED treeVars /\ Tree => Tree'
    BY DEF treeVars, vars, machine, firmware, episode, forgiven, Tree, TreeFits, Followed,
           OneSize, Overtaken, FreshIn, Fits, MarksFit
  <2> QED
    BY <2>1, StepTree, CloneTree DEF TreeNext
<1>4. Tree => TreeMatches
  BY DEF Tree, Followed, TreeFits, Fits, MarksFit, TreeMatches, RegisterIs
<1> QED
  BY <1>1, <1>2, <1>3, <1>4, PTL DEF TreeSpec
=============================================================================
