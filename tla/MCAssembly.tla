----------------------------- MODULE MCAssembly -----------------------------
(***************************************************************************)
(* Instances of Assembly for TLC: families of small sources, and the ones  *)
(* that show where bijouc and its documents disagree.                      *)
(***************************************************************************)
EXTENDS Assembly

\* The texts of a source: with the escape of a tab, with the tab itself, with
\* an escape that is none, and the names of functions.
MCStrings  == {"", "\\t", "\t", "\\q", "main", "f"}
MCUnescape == [s \in MCStrings |-> CASE s = "\\t" -> "\t"
                                     [] s = "\\q" -> BadEscape
                                     [] OTHER     -> s]
MCNums     == {0, 1}
MCPointers == {}

InitializedLines == {0}
AnyLines         == {0, -1}

Source(name, regs, globals, params, consts) ==
  [regs |-> regs, globals |-> globals, params |-> params, name |-> name,
   code |-> <<ABx("loadk", 0, Len(consts)), ABC("return", 0, 0, 0)>>, consts |-> consts]

\* A function nested in another, with nothing nested in it.
Leaf == Source("f", 1, Unset, 1, <<Number(1)>>)

Child == <<"child", 0>>

\* The main function with these entries, each Child a leaf of its own.
Flat(entries) ==
  LET number(x) == 1 + Cardinality({y \in 1 .. x : entries[y] = Child})
      consts == [x \in DOMAIN entries |->
                   IF entries[x] = Child THEN Nested(number(x)) ELSE entries[x]]
  IN  <<Source("main", 2, 1, 0, consts)>>
      \o [x \in 1 .. Cardinality({y \in DOMAIN entries : entries[y] = Child}) |-> Leaf]

----------------------------------------------------------------------------
\* Every table of at most three entries.
TableSources ==
  { Flat(entries) : entries \in SeqOf(
      {Null, Number(0), Number(1), Boolean(TRUE), Empty, String("\\t"), String("\t"),
       Refused, Child}, 3) }

\* Functions nested in nested ones, one child too many, settings a byte does not
\* hold, settings left out, a name that cannot be decoded.
DeepSources ==
  { << Source("main", 256, 257, 0, <<Nested(2), Boolean(TRUE), String("\\t")>>),
       Source("", 3, Unset, Unset, <<Number(0), Nested(3)>>), Leaf >>,
    << Source("main", Unset, 0, 0, <<Nested(2), Number(0), Nested(3)>>), Leaf, Leaf >>,
    << Source("main", 1, Unset, 0, <<Nested(2), Nested(3)>>),
       Source("\\q", 1, 0, 0, <<>>), Leaf >>,
    << Source("main", 1, 0, 0, <<Null, Nested(2), Nested(3), Nested(4)>>),
       Leaf, Leaf, Leaf >> }

\* One function too many for an allocator with room for two.
ThreeChildren == { Flat(<<Child, Child, Child>>) }

----------------------------------------------------------------------------
(* What a comment says of the assembler and it does not do.                *)

\* block.c, BijouBlock_push_child: "Push a nested block (function) returns index
\* at which function is inserted".  No number of functions is too large for it.
NestedFunctionsAreInserted == phase # "wild"
=============================================================================
