----------------------------- MODULE MCLibrary -----------------------------
(***************************************************************************)
(* An instance of Library for TLC: one constant, texts of at most two      *)
(* characters in buffers of three bytes, two registers and two openings.   *)
(***************************************************************************)
EXTENDS Library, TLC

MCTexts     == {<<>>, <<"a", "b">>}
MCNumbers   == {-1, 1}

\* malloc rounds up; glibc to 24, 40, 56 bytes.
MCLeftover == {0, 1}

MCUsable(n) == IF n <= 3 THEN 3 ELSE n

Interchangeable == Permutations(Buffers) \cup Permutations(Addresses) \cup Permutations(Regs)

\* lib/string.c:51 says that char_at returns the "character at index [String]", and
\* :121 that substr returns "string[begin]..string[begin + length]": the strings of
\* a careful program hold nothing that malloc left in their buffers.
NothingLeftOver ==
  careful => \A v \in Held("string") : v.from # "recv" => "x" \notin Range(v.text)
=============================================================================
