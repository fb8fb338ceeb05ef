-------------------------- MODULE MCDummyPeripheral --------------------------
EXTENDS DummyPeripheralTree

\* p, q, r and s are as wide as a pointer, b is a byte and h two.
Sizes ==
  [k \in {"p", "q", "r", "s", "b", "h", "t"} |->
     CASE k \in {"p", "q", "r", "s"} -> 4 [] k = "h" -> 2 [] OTHER -> 1]

\* Two bytes stand for the bytes of any operand wider than one.
TwoCells == [n \in Size |-> IF n = 1 THEN 1 ELSE 2]

D1 == Zero
D2 == One
Ram == [Zero EXCEPT ![2] = 1]
Addresses == [v \in Val |-> IF v = D1 THEN 0 ELSE IF v = D2 THEN 2 ELSE 4]

\* Variables of two pointers, either of which may be loaded through again.
Variables == {<<"p", 0>>, <<"p", 1>>, <<"q", 0>>}

Load(source, destination) ==
  [kind |-> "load", source |-> source, destination |-> destination]
StoreTo(destination, source) ==
  [kind |-> "store", source |-> source, destination |-> destination]
Calc(result, fun, a, b) ==
  [kind |-> "calc", fun |-> fun, sym |-> fun, operands |-> <<a, b>>, result |-> result]
Branch(condition, target) ==
  [kind |-> "cbranch", condition |-> condition, target |-> target, internal |-> FALSE]
InternalBranch(condition, target) ==
  [kind |-> "cbranch", condition |-> condition, target |-> target, internal |-> TRUE]
Jump(kind, target) == [kind |-> kind, target |-> target]

Flag(i) == [Zero EXCEPT ![1] = i]
First == [x \in Val \X Val |-> x[1]]
NotBit == [x \in Val \X Val |-> Flag(1 - x[1][1])]
And == [x \in Val \X Val |-> [i \in 1 .. Width |-> x[1][i] * x[2][i]]]
True == [x \in Val \X Val |-> One]
Next4 == [x \in Val \X Val |-> IF x[1] = D1 THEN D2 ELSE D1]

\* The upper byte; the solver takes the lower one.
Upper(result, a) ==
  [kind |-> "calc", fun |-> [x \in Val \X Val |-> Flag(x[1][2])],
   sym |-> [x \in Val \X Val |-> Flag(x[1][1])], operands |-> <<a, a>>, result |-> result]

Poll == Load("p", "r")

\* What may stand between the load of a register and the last operation.
Straight ==
  { Load("q", "s"), Load("q", "b"), Load("p", "s"), StoreTo("q", "r"), StoreTo("p", "s"),
    Calc("t", First, "r", "r"), Calc("b", And, "r", "s"), Upper("t", "r"),
    Calc("p", Next4, "p", "p") }
Jumping ==
  { Branch("t", 1), Branch("t", 5), Branch("r", 1), InternalBranch("b", 4),
    Jump("icall", 4), Jump("return", 5), Jump("unsupported", 5) }
Again == Jump("branch", 1)

ShortCode ==
  { <<Poll, a, b, c, Again>> : a \in Straight, b \in Straight \cup Jumping, c \in Jumping }
  \cup
  { <<Poll, a, b, c, d>> :
      a \in {Calc("t", First, "r", "r"), Load("q", "s")},
      b \in {Branch("t", 5), Calc("t", NotBit, "r", "r")}, c \in Jumping,
      d \in {Jump("return", 1), Jump("icall", 1)} }

\* Polling loops, with what follows them: a wait for either value, one with
\* the register cleared afterwards, one that has a second exit on the same
\* condition, and two in a row.
Wait(r, fun) == <<Load("p", r), Calc("t", fun, r, r), Branch("t", 1), Again>>
WaitClear(r, fun) ==
  <<Load("p", r), Calc("t", fun, r, r), Branch("t", 1), StoreTo("p", "s"),
    Again>>
WaitTwice(r, fun) ==
  <<Load("p", r), Calc("t", fun, r, r), Branch("t", 6),
    Calc("t", True, r, r), Branch("t", 1), Again>>
WaitBoth(r, fun) ==
  <<Load("p", r), Calc("t", fun, r, r), Branch("t", 1),
    Load("q", "s"), Calc("t", NotBit, "s", "s"), Branch("t", 4), Again>>
Waits(r) ==
  UNION { {Wait(r, fun), WaitClear(r, fun), WaitTwice(r, fun), WaitBoth(r, fun)} :
            fun \in {First, NotBit} }
PollingLoops == UNION { Waits(r) : r \in {"r", "b", "h"} }

\* A loop with a second exit on another condition, the register's upper byte.
Shifted == [x \in Val \X Val |-> Flag(x[1][2])]
TwoConditions ==
  { <<Poll, Calc("t", Shifted, "r", "r"), Branch("t", 5), Branch("r", 1), Again>> }

\* Loads of one register through two pointers, of which only the second may
\* find what a clone has cached meanwhile.
LoadTwice ==
  { <<Poll, a, Load("q", "s"), b, Again>> :
      a \in {Calc("t", NotBit, "r", "r"), Branch("r", 1)},
      b \in {Branch("t", 1), Branch("s", 1), Calc("t", And, "r", "s")} }

NoDefault == [k \in {} |-> Zero]
DefaultS == [k \in {"s"} |-> One]

\* p points to the first register and q to q.
Regs(q) == [k \in DOMAIN Sizes |-> IF k = "q" THEN q ELSE Zero]
Blank == [b \in Address |-> 0]

Set(codes, orders, regs, cachings, cloned, defaults) ==
  [code : codes, little : orders, reg : regs, mem : {Blank}, caching : cachings,
   cloned : cloned, default : defaults]

Setups ==
  Set(ShortCode, {TRUE}, {Regs(Ram)}, {FALSE}, {{}}, {NoDefault})
  \cup Set(PollingLoops, BOOLEAN, {Regs(D2)}, BOOLEAN, {{}}, {NoDefault, DefaultS})
  \cup Set(Waits("r") \cup LoadTwice, {TRUE}, {Regs(D1), Regs(D2)},
           {TRUE}, {{0}}, {NoDefault})

\* Loops whose loads are all of one size.
SpillSetups ==
  { c \in Set(ShortCode, {TRUE}, {Regs(Ram)}, {FALSE}, {{}}, {NoDefault}) :
      \A i \in DOMAIN c.code : c.code[i] # Load("q", "b") }

TwoConditionsSetups ==
  Set(TwoConditions, BOOLEAN, {Regs(D2)}, {FALSE}, {{}}, {NoDefault})
=============================================================================
