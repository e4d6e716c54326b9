------------------------------ MODULE WholeText ------------------------------
(***************************************************************************)
(* Two readings side by side: of a text, and of the whole text it was cut  *)
(* from.  The reader of compiler.c learns only by reading that its file    *)
(* ends early, so what it does with a text that is cut off it would do     *)
(* with the whole, up to the character it misses.                          *)
(***************************************************************************)
EXTENDS Reader

\* The text that w was cut from.
WholeOf(w) ==
  [text |-> w.text \o w.rest, rest |-> <<>>, means |-> w.means,
   kind |-> IF w.kind = "cut" THEN "styled" ELSE w.kind]

WholeWritings == {WholeOf(w) : w \in Writings}

\* A reading that is given up stays, for the whole text, where it was.
Whole == INSTANCE Reader WITH
  Writings <- WholeWritings,
  writing  <- WholeOf(writing),
  status   <- IF status = "done" THEN status ELSE "reading"

\* Whatever is read of a text that ends early is read the same of the whole: no
\* setting, operand, line or end of a function is made of the end of the file, and
\* no decision is taken on a character before it is read (compiler.c:352-382).
CutIsReadAsWhole == Whole!Safe
=============================================================================
