------------------------------- MODULE Firmware -------------------------------
(***************************************************************************)
(* What a bypass of polling loops promises: the firmware executes its own  *)
(* code, and memory changes under it in two places only.  One is the word  *)
(* it is about to load.  The other is where a branch goes back to a load   *)
(* that is remembered, or beyond: there the places of that load and of     *)
(* some loads since may change, each by the size of the first.             *)
(***************************************************************************)
EXTENDS PCode

VARIABLES
  code,    \* the operations, one to an address
  little,  \* byte order
  pc,      \* the next one
  reg,     \* contents of the operands
  mem,     \* contents of memory
  loads,   \* places of loads remembered
  first    \* where the first of them stands in the code, and its size

firmware == <<code, little, pc, reg, mem>>
vars == <<firmware, loads, first>>

Init ==
  /\ Program(code)
  /\ little \in BOOLEAN
  /\ pc = 1
  /\ reg \in [Operand -> Val]
  /\ mem \in [Address -> Byte]
  /\ loads = {}

Pointed(pointer) == AddressOf[reg[pointer]]

Taken(op) ==
  \/ op.kind \in JumpKind
  \/ op.kind = "cbranch" /\ reg[op.condition] # Zero

\* The operation at pc executes on memory m.
Execute(m) ==
  LET op == code[pc]
  IN /\ pc' = IF Taken(op) THEN op.target ELSE pc + 1
     /\ \/ /\ op.kind = "load"
           /\ reg' = [reg EXCEPT ![op.destination] =
                        Word(m, Pointed(op.source), SizeOf[op.destination], little)]
        \/ /\ op.kind = "calc"
           /\ reg' = [reg EXCEPT ![op.result] =
                        Low(op.fun[<<reg[op.operands[1]], reg[op.operands[2]]>>],
                            SizeOf[op.result])]
        \/ /\ op.kind \notin {"load", "calc"}
           /\ UNCHANGED reg
     /\ mem' = IF op.kind = "store"
               THEN Put(m, Pointed(op.destination), SizeOf[op.source], reg[op.source], little)
               ELSE m
     /\ UNCHANGED <<code, little>>

GoesBack(op) == op.kind = "cbranch" /\ (op.internal \/ op.target <= first.pc)

\* The bytes that may have changed when the operation at pc executes.
Open ==
  LET op == code[pc]
  IN IF op.kind = "load" THEN Span(Pointed(op.source), SizeOf[op.destination])
     ELSE IF loads # {} /\ GoesBack(op) THEN UNION {Span(a, first.size) : a \in loads}
     ELSE {}

\* A load may be remembered, as the first or one more; any may be forgotten.
Remember ==
  LET op == code[pc]
      a == Pointed(op.source)
  IN \/ /\ op.kind = "load"
        /\ first' = [pc |-> pc, size |-> SizeOf[op.destination]]
        /\ loads' \subseteq {a}
     \/ /\ op.kind = "load" /\ loads # {}
        /\ loads' \subseteq loads \cup {a}
        /\ UNCHANGED first
     \/ /\ loads' \subseteq loads
        /\ UNCHANGED first

Operate ==
  /\ \E written \in [Open -> Byte] :
       Execute([b \in Address |-> IF b \in Open THEN written[b] ELSE mem[b]])
  /\ Remember

Forget ==
  /\ loads' = {}
  /\ UNCHANGED <<firmware, first>>

Next == Operate \/ Forget

Spec == Init /\ [][Next]_vars
=============================================================================
