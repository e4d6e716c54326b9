------------------------------ MODULE MCInterp ------------------------------
(***************************************************************************)
(* Instances of Interp for TLC: families of small programs.                *)
(***************************************************************************)
EXTENDS Interp

MCNums     == {0, 1}
MCStrings  == {"", "f", "g"}
MCPointers == {"address"}
MCLibs     == <<("f" :> 1)>>
MCFullNames == {"g"}
MCLongNums  == {1}

Block(code, k, regc, argc, numglobal, children) ==
  [code |-> code, k |-> k, regc |-> regc, argc |-> argc,
   numglobal |-> numglobal, children |-> children]

----------------------------------------------------------------------------
(* Every opcode, with operands inside and outside of what exists: all the  *)
(* sequences of at most two instructions of the alphabet, then a return.   *)
(* There are two registers, four constants, one global and one child.      *)

Consts == <<Number(0), Empty, String("f"), String("g")>>

Alphabet ==
  { ABC("nop", 0, 0, 0), ABC("undefined", 0, 0, 0),
    ABC("move", 1, 0, 0), ABC("move", 0, 2, 0), ABC("move", 2, 0, 0),
    ABx("loadk", 0, 0), ABx("loadk", 0, 1), ABx("loadk", 1, 2), ABx("loadk", 0, 4),
    ABC("loadbool", 0, 0, 0), ABC("loadbool", 1, 1, 0), ABC("loadnull", 0, 0, 0),
    ABx("getglobal", 0, 0), ABx("getglobal", 0, 1),
    ABx("setglobal", 0, 0), ABx("setglobal", 2, 0),
    ABx("getlocal", 0, 0), ABx("setlocal", 0, 0), ABx("getarg", 0, 0),
    ABC("getexternal", 0, 2, 0), ABC("getexternal", 0, 1, 0), ABC("getexternal", 0, 3, 0),
    ABC("getexternal", 0, 4, 0),
    ABC("add", 0, 0, RKASK(0)), ABC("sub", 1, 0, 0), ABC("mul", 0, 1, 0),
    ABC("div", 0, 0, 0), ABC("rem", 0, 0, 0), ABC("add", 0, RKASK(4), 0),
    ABC("unm", 0, 0, 0), ABC("not", 0, RKASK(2), 0), ABC("not", 2, 0, 0),
    ABC("eq", 0, 1, 0), ABC("eq", 0, RKASK(1), 0), ABC("lt", 0, RKASK(0), 0),
    ABC("ge", 0, 0, 0), ABC("gt", 0, RKASK(4), 0), ABC("le", 1, 0, 0),
    AsBx("jmp", 0), AsBx("jmp", 1), AsBx("jmp", 2), AsBx("jmp", -3),
    ABC("call", 1, 0, 1), ABC("call", 0, 0, 0), ABC("call", 0, 0, 2), ABC("call", 0, 2, 0),
    ABx("closure", 0, 0), ABx("closure", 0, 1), ABx("closure", 0, 2),
    ABx("closure", 0, RKASK(0)), ABx("closure", 0, RKASK(2)),
    ABx("closure", 0, RKASK(11)), ABx("closure", 0, RKASK(12)),
    ABC("return", 0, 0, 0), ABC("return", 2, 0, 0) }

Callee == Block(<<ABx("getarg", 0, 0), ABC("return", 0, 0, 0)>>, <<>>, 1, 1, 0, <<>>)

OpcodePrograms ==
  { <<Block(Append(code, ABC("return", 1, 0, 0)), Consts, 2, 0, 1, <<2>>), Callee>>
    : code \in SeqOf(Alphabet, 2) }
----------------------------------------------------------------------------
(* Calls: a main function that makes a closure of its child, may put it in *)
(* the global, and calls it with no, one or two arguments; a child of at   *)
(* most three instructions that may call itself through the global, or its *)
(* argument, or its own child.                                             *)

MainCodes ==
  { <<ABx("closure", 0, 0), setup, call, ABC("return", 1, 0, 0)>> :
      setup \in {ABx("setglobal", 0, 0), ABx("loadk", 1, 1), ABC("move", 1, 0, 0)},
      call  \in {ABC("call", 1, 0, n) : n \in 0 .. 2} }

CalleeAlphabet ==
  { ABx("getglobal", 0, 0), ABx("getarg", 1, 0), ABx("closure", 0, 0),
    ABC("call", 0, 0, 0), ABC("call", 0, 1, 0), ABC("call", 1, 0, 1),
    ABC("eq", 0, 1, 0), AsBx("jmp", 0), AsBx("jmp", 1), AsBx("jmp", -2) }

CallPrograms ==
  { <<Block(main, <<Number(0), Number(1)>>, 2, 0, 1, <<2>>),
      Block(Append(code, ABC("return", 1, 0, 0)), <<Number(0)>>, 2, argc, 0, <<3>>),
      Callee>>
    : main \in MainCodes, code \in SeqOf(CalleeAlphabet, 3), argc \in {0, 1} }

\* println of a number that fits its buffer, and of one that does not.
PrintPrograms ==
  { <<Block(<<ABx("closure", 0, RKASK(1)), ABx("loadk", 1, x), ABC("call", 1, 0, 1),
              ABC("return", 1, 0, 0)>>, <<Number(0), Number(1)>>, 2, 0, 0, <<>>)>>
    : x \in {0, 1} }

OpcodeAndCallPrograms == OpcodePrograms \cup CallPrograms \cup PrintPrograms
=============================================================================
