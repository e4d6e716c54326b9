---------------------------- MODULE MCInterpDocs ----------------------------
(***************************************************************************)
(* What the comments of bopcodes.h say of globals and the interpreter does *)
(* not do, with the program that shows it.                                 *)
(***************************************************************************)
EXTENDS Interp

DocNums     == {0, 1, 5}
DocStrings  == {"", "inspect"}
DocPointers == {"stdin", "stdout", "stderr"}
DocLibs     == <<("inspect" :> 1)>>

Main(code, k, regc, numglobal, children) ==
  [code |-> code, k |-> k, regc |-> regc, argc |-> 0,
   numglobal |-> numglobal, children |-> children]

----------------------------------------------------------------------------
\* One global, and its index is not the first constant of the block.
LateGlobal ==
  { <<Main(<<ABx("loadk", 0, 0), ABx("setglobal", 0, 1), ABx("getglobal", 0, 1),
             ABC("return", 0, 0, 0)>>, <<Number(1), Number(0)>>, 1, 1, <<>>)>> }

\* bopcodes.h, OP_GETGLOBAL and OP_SETGLOBAL: "R[A] = globals[K[Bx]]",
\* "globals[K[Bx]] = R[A]".  An instruction whose constant is the number of an
\* existing global reads or writes it and goes on to the next instruction.
GlobalsAreReachable ==
  [][ Executing({"getglobal", "setglobal"})
        /\ InConsts(Bx(I)) /\ NamesGlobal /\ InRegisters(I.a)
      => cur'.block = cur.block /\ cur'.pc = cur.pc + 1 ]_vars

=============================================================================
