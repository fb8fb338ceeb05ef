-------------------------------- MODULE PCode --------------------------------
(***************************************************************************)
(* The P-code the bypass sees, as far as it tells operations apart.        *)
(* P-code is external.  An operation that computes is one function of two  *)
(* operands, which stands for every Int, Bool, Copy, extension and         *)
(* Subpiece operation and for constant operands; the function the solver   *)
(* takes it for (solver.rs) stands beside it, since for a Subpiece that    *)
(* does not begin at the lowest byte it is another one.                    *)
(*                                                                         *)
(* Operands and memory are made of bytes.  An operand has the contents of  *)
(* as many bytes as it is wide, the others are 0.                          *)
(***************************************************************************)
EXTENDS Integers, Sequences

CONSTANTS
  Register,   \* operands in registers
  Temp,       \* operands in P-code's temporary space
  SizeOf,     \* the size of an operand, in bytes
  Byte,       \* contents of a byte
  Width,      \* bound: bytes of the widest operand that are modelled
  Cells,      \* bound: bytes of an operand of each size that are modelled
  Address,    \* addresses of bytes of memory
  AddressOf   \* the address a pointer's contents stand for

Operand == Register \cup Temp
Size == {1, 2, 4, 8}
Val == [1 .. Width -> Byte]  \* the least significant byte first
Span(a, n) == a .. a + Cells[n] - 1

ASSUME PCodeAssumption ==
  /\ Register \cap Temp = {}
  /\ SizeOf \in [Operand -> Size]
  /\ {0, 1} \subseteq Byte
  /\ Width \in Nat \ {0}
  /\ Cells \in [Size -> 1 .. Width]
  /\ Address \subseteq Nat
  /\ AddressOf \in [Val -> Address]
  /\ \A v \in Val, n \in Size : Span(AddressOf[v], n) \subseteq Address

Zero == [i \in 1 .. Width |-> 0]
One == [Zero EXCEPT ![1] = 1]

\* Where the byte of significance i of n bytes stands, and the other way round.
Place(i, n, little) == IF little THEN i ELSE Cells[n] + 1 - i

Low(v, n) == [i \in 1 .. Width |-> IF i <= Cells[n] THEN v[i] ELSE 0]

Word(m, a, n, little) ==
  [i \in 1 .. Width |-> IF i <= Cells[n] THEN m[a + Place(i, n, little) - 1] ELSE 0]

Put(m, a, n, v, little) ==
  [b \in Address |->
     IF b \in Span(a, n) THEN v[Place(b - a + 1, n, little)] ELSE m[b]]

-----------------------------------------------------------------------------
JumpKind == {"branch", "icall", "return", "unsupported"}

Op ==
  [kind : {"load"}, source : Operand, destination : Operand]
  \cup [kind : {"store"}, source : Operand, destination : Operand]
  \cup [kind : {"calc"}, fun : [Val \X Val -> Val], sym : [Val \X Val -> Val],
        operands : Operand \X Operand, result : Operand]
  \cup [kind : {"cbranch"}, condition : Operand, target : Nat, internal : BOOLEAN]
  \cup [kind : JumpKind, target : Nat]

\* An internal branch stays within one instruction: its destination is a
\* constant and no address.
Jumps(op) == op.kind \in JumpKind \cup {"cbranch"}

\* Code stays within itself, and its last operation jumps.  What is loaded is
\* not wider than the pointer it is loaded through.
Program(code) ==
  /\ code \in Seq(Op)
  /\ code # <<>>
  /\ code[Len(code)].kind \in JumpKind
  /\ \A i \in DOMAIN code : Jumps(code[i]) => code[i].target \in DOMAIN code
  /\ \A i \in DOMAIN code : code[i].kind = "load" =>
       Cells[SizeOf[code[i].destination]] <= Cells[SizeOf[code[i].source]]
=============================================================================
