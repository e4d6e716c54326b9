------------------------------ MODULE Program ------------------------------
(***************************************************************************)
(* A loaded program, as proto_to_block2 leaves it (load.c, bijou.h): its   *)
(* blocks in a sequence, the main function first, each naming its children *)
(* by their place in it.                                                   *)
(***************************************************************************)
EXTENDS Opcodes, Values

\* What the counters of a block are kept in, u_byte.
Byte == 0 .. 255

\* A block after proto_to_block2: no local is ever pushed, so none is here.
IsBlock(b, p) ==
  /\ b = [code |-> b.code, k |-> b.k, regc |-> b.regc, argc |-> b.argc,
          numglobal |-> b.numglobal, children |-> b.children]
  /\ b.code \in Seq(Instruction)
  /\ b.k \in Seq(ConstValue)
  /\ b.regc \in Byte /\ b.argc \in Byte /\ b.numglobal \in Byte
  /\ b.children \in Seq(1 .. Len(p))

IsProgram(p) ==
  /\ p = [i \in 1 .. Len(p) |-> p[i]]
  /\ Len(p) \in Nat \ {0}
  /\ \A i \in 1 .. Len(p) : IsBlock(p[i], p)
=============================================================================
