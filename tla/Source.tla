------------------------------- MODULE Source -------------------------------
(***************************************************************************)
(* A program as its assembly describes it: what the reader of compiler.c   *)
(* cuts out of the text, and what compile_function makes blocks of.  A     *)
(* source is a sequence of functions, numbered in the order they begin,    *)
(* the main function first: of each the settings, the code and the entries *)
(* of its constants.                                                       *)
(***************************************************************************)
EXTENDS Program, FiniteSetsExt

(* An entry of the constants is a value, its string not decoded yet, a     *)
(* nested function by its number, or a line that is refused: one of no     *)
(* known type, of no type, or a pointer.                                   *)

Refused   == <<"refused", 0>>
Nested(j) == <<"nested", j>>

IsNested(e) == e[1] = "nested"

\* A setting the header leaves out.
Unset == -1

IsFunction(f, s) ==
  /\ f = [regs |-> f.regs, globals |-> f.globals, params |-> f.params,
          name |-> f.name, code |-> f.code, consts |-> f.consts]
  /\ {f.regs, f.globals, f.params} \subseteq Nat \cup {Unset}
  /\ f.name \in Strings
  /\ f.code \in Seq(Instruction)
  /\ f.consts \in Seq(ConstValue \cup {Refused} \cup {Nested(j) : j \in 2 .. Len(s)})

IsSource(s) ==
  /\ s = [j \in 1 .. Len(s) |-> s[j]]
  /\ Len(s) \in Nat \ {0}
  /\ \A j \in 1 .. Len(s) : IsFunction(s[j], s)

(* Functions are numbered in the order they begin.  If last[i] is the last *)
(* function that begins inside function i, Begun is the last function that *)
(* has begun when x entries of function j are read.                        *)

NestedIn(f, x) == {y \in 1 .. x : IsNested(f.consts[y])}

Begun(s, last, j, x) ==
  IF NestedIn(s[j], x) = {} THEN j ELSE last[s[j].consts[Max(NestedIn(s[j], x))][2]]

Numbers(s, last) ==
  /\ last[1] = Len(s)
  /\ \A j \in 1 .. Len(s) :
       /\ last[j] = Begun(s, last, j, Len(s[j].consts))
       /\ \A x \in NestedIn(s[j], Len(s[j].consts)) :
            s[j].consts[x] = Nested(Begun(s, last, j, x - 1) + 1)

\* Every function is nested where it begins.
InOrder(s) == \E last \in [1 .. Len(s) -> 1 .. Len(s)] : Numbers(s, last)
=============================================================================
