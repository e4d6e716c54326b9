------------------------------ MODULE Opcodes ------------------------------
(***************************************************************************)
(* The 32-bit instruction word of the Bijou virtual machine, bopcodes.h.   *)
(*                                                                         *)
(* A word is the record of its opcode and of its three fields: A has eight *)
(* bits, B and C have nine each, and Bx is B and C read as one field of    *)
(* eighteen bits (C is its low half).  What does not fit a field is cut    *)
(* off when the word is built, as the SETARG macros do.                    *)
(***************************************************************************)
EXTENDS Integers

ArgA  == 0 .. 255
ArgBC == 0 .. 511

\* Half of the largest Bx: what is added to a signed argument to store it.
MAXARG_sBx == 131071

\* The bit of an RK operand that selects the constants (1 << (SIZE_B - 1)).
BITRK == 256

ISK(x)     == (x \div BITRK) % 2 = 1
INDEXRK(x) == IF ISK(x) THEN x - BITRK ELSE x
RKASK(x)   == IF ISK(x) THEN x ELSE x + BITRK

ABC(op, a, b, c) == [op |-> op, a |-> a % 256, b |-> b % 512, c |-> c % 512]
ABx(op, a, bx)   == ABC(op, a, bx \div 512, bx)
AsBx(op, sbx)    == ABx(op, 0, sbx + MAXARG_sBx)

Bx(i)  == i.b * 512 + i.c
sBx(i) == Bx(i) - MAXARG_sBx

----------------------------------------------------------------------------
ArithOps   == {"add", "sub", "mul", "div", "pow", "rem"}
CompareOps == {"lt", "gt", "le", "ge"}

Opcode ==
  {"nop", "move", "loadk", "loadbool", "loadnull", "getglobal", "setglobal",
   "getlocal", "setlocal", "getarg", "getexternal"}
  \cup ArithOps \cup {"unm", "not", "eq"} \cup CompareOps
  \cup {"jmp", "call", "closure", "return"}

\* The opcode field holds 64 numbers and only 28 of them are operations: a
\* word read from a bytecode file may hold one of the others.
Instruction == [op : Opcode \cup {"undefined"}, a : ArgA, b : ArgBC, c : ArgBC]
=============================================================================
