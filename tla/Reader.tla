------------------------------- MODULE Reader -------------------------------
(***************************************************************************)
(* How compiler.c cuts the text of an assembly file into settings,         *)
(* instructions and constants (read_char, read_next, read_line, read_args, *)
(* expect), and what compile_header, compile_code and compile_const make   *)
(* of them: the source that module Assembly starts from.                   *)
(*                                                                         *)
(* The reader asks four things of a character: is it white space, the end  *)
(* of the line, a semicolon, a quote?  A text is therefore a sequence of   *)
(* pieces: a blank, a newline, a semicolon, a quote, or a word of all the  *)
(* characters up to the next of these.  Only expect asks more: it compares *)
(* as many characters as a mark has and leaves the rest of a longer word,  *)
(* so that a word that begins with a mark is two pieces, mark and rest.    *)
(*                                                                         *)
(* The end of the file is one more character to this reader, 0xFF, which   *)
(* is no white space, no newline and no quote, and can be read for ever.   *)
(***************************************************************************)
EXTENDS Source, SequencesExt

CONSTANTS
  Writings,   \* the texts, with what they are meant to say, how they are written, and
              \* the rest of the text when the file ends early
  Words,      \* the words that may occur in a text
  AtoI,       \* the number atoi makes of a word
  Konst,      \* the words whose digits are followed by a K
  Malformed,  \* the words with a minus after their digits
  Shortened,  \* each word without its last character, "" if it has one only
  Hashed,     \* the words that begin with a "#"
  EntryOf     \* what a line of the constants says that begins with a word

VARIABLES
  writing,    \* the text, and what is known of it; the code sees the text
  pos,        \* the next piece of the file
  wanted,     \* what is read next
  open,       \* the functions being read, the outermost first
  functions,  \* the functions read, or begun
  inst,       \* the instruction whose operands are being read
  status      \* how the reading goes

vars == <<writing, pos, wanted, open, functions, inst, status>>

Marks == {">HEAD", ">CODE", ">CONST"}

\* "hangs" is a loop that reads the end of the file for ever; "exhausted" one
\* that stores each character it reads, so that the memory ends.
Ends == {"done", "exit1", "hangs", "exhausted"}

\* What EntryOf says of a word that ends with its "#": the text of a string, the
\* digits of a number or of a boolean follow, or a function does.
TextLine     == <<"text", 0>>
NumberLine   == <<"digits", 0>>
BooleanLine  == <<"truth", 0>>
FunctionLine == Nested(0)

\* Of a word with more in it, the value; of a string, what is left of the word.
WordEntry ==
  {Null, Refused, TextLine, NumberLine, BooleanLine, FunctionLine}
  \cup ({"number"} \X Nums) \cup ({"boolean"} \X BOOLEAN)
  \cup ({"string"} \X (Words \cup {""}))

ASSUME ReaderAssumption ==
  /\ \A w \in Writings :
       /\ w.kind \in {"styled", "loose", "cut"}
       /\ w.text \in Seq(Words \cup {" ", "\n", ";", "\""})
       /\ w.rest \in Seq(Words \cup {" ", "\n", ";", "\""})
       /\ w.kind = "cut" => w.rest # <<>>
       /\ LET t == w.text \o w.rest
          IN  \A x \in 1 .. Len(t) - 1 :
                t[x] \notin Words \/ t[x] \in Marks \/ t[x + 1] \notin Words
  /\ AtoI \in [Words -> Nums] /\ 0 \in Nums
  /\ Konst \subseteq Words /\ Malformed \subseteq Words /\ Hashed \subseteq Words
  /\ Shortened \in [Words -> Words \cup {""}]
  /\ EntryOf \in [Words -> WordEntry]
  /\ {"main", ""} \subseteq Strings

----------------------------------------------------------------------------
(* The characters of the file.                                             *)

text  == writing.text
Space == {" ", "\n"}

Eof       == Len(text) + 1
From(p)   == p .. Len(text)

\* The first place from p on that is as P says, or the end of the file.
First(p, P(_)) ==
  IF \E q \in From(p) : P(q)
    THEN CHOOSE q \in From(p) : P(q) /\ \A r \in p .. q - 1 : ~P(r)
    ELSE Eof

Newline(p) == First(p, LAMBDA q : text[q] = "\n")

\* Mutant: the newline that ends a comment is skipped with the line after it.
EndOfLineTwice(p) == Newline(Newline(p) + 1)

\* Where the comment ends that is being skipped at p.
EndOfLine(p) == Newline(p)

Quotes(p, q) == Cardinality({r \in p .. q : text[r] = "\""})
Odd(n)       == n % 2 = 1

\* The pieces as one text, the quotes that close one another left out.
Join(pieces) == FoldLeft(LAMBDA s, t : s \o t, "", pieces)

Unquoted(p, q) ==
  Join([x \in 1 .. q - p + 1 |->
          IF text[p + x - 1] = "\"" /\ x > 1 /\ ~Odd(Quotes(p + 1, p + x - 1))
            THEN "" ELSE text[p + x - 1]])

\* What a read gives: the pieces it consumed as a word, and where it stopped; or
\* how the reading ends.
Word(p, q, next) == [how |-> "reading", first |-> text[p], word |-> Unquoted(p, q), next |-> next]
Stuck(how)       == [how |-> how, first |-> "", word |-> "", next |-> Eof]

AtoIOf(piece) == IF piece \in Words THEN AtoI[piece] ELSE 0

----------------------------------------------------------------------------
(* read_char, with white space ignored, and read_next.                     *)

\* q is part of a comment that begins at p or later.
Commented(p, q) == \E s \in p .. q - 1 : text[s] = ";" /\ EndOfLine(s) >= q

Solid(p) ==
  First(p, LAMBDA q : text[q] \notin Space \cup {";"} /\ ~Commented(p, q))

EndlessComment(p) == \E s \in From(p) : text[s] = ";" /\ EndOfLine(s) = Eof

\* A semicolon inside the word does not end it; a quote that is not its first
\* character takes everything up to the next one into the word.
WordEnd(s) ==
  First(s + 1, LAMBDA q : text[q] \in Space /\ ~Odd(Quotes(s + 1, q - 1)))

\* Mutant: the end of the file ends a word, as white space does.
ReadNextToEnd(p) ==
  LET s == Solid(p)
      e == WordEnd(s)
  IN  IF s # Eof THEN Word(s, e - 1, Min({e + 1, Eof})) ELSE Stuck("exit1")

ReadNext(p) ==
  LET s == Solid(p)
      e == WordEnd(s)
  IN  CASE e # Eof -> Word(s, e - 1, e + 1)
        [] e = Eof /\ s = Eof /\ EndlessComment(p)             -> Stuck("hangs")
        [] e = Eof /\ s # Eof /\ Odd(Quotes(s + 1, Len(text))) -> Stuck("exhausted")
        [] OTHER -> Stuck("exit1")

----------------------------------------------------------------------------
(* What read_args makes of a word, and compile_code of the operands.       *)

MAKEK(n) == RKASK(n)

\* Mutant: the K after a number is not looked at.
OperandPlain(piece) == AtoIOf(piece)

Operand(piece) == IF piece \in Konst THEN MAKEK(AtoI[piece]) ELSE AtoIOf(piece)

HasBx  == {"loadk", "getglobal", "setglobal", "getlocal", "setlocal", "getarg", "closure"}
HasSBx == {"jmp"}

\* An operand that is not there is -1.
Compiled(op, args) ==
  LET arg(x) == IF x <= Len(args) THEN args[x] ELSE -1
  IN  CASE op \in HasBx  -> ABx(op, arg(1), arg(2))
        [] op \in HasSBx -> AsBx(op, arg(1))
        [] OTHER         -> ABC(op, arg(1), arg(2), arg(3))

----------------------------------------------------------------------------
(* read_line.                                                              *)

\* A comment ends the line one character early: it takes the last character
\* before it along.  What is left of the line is its pieces up to a closing
\* quote, where the code puts the end of the string.
LineBefore(s, e) ==
  LET closing == {r \in s + 1 .. e - 1 : text[r] = "\"" /\ ~Odd(Quotes(s + 1, r))}
      kept    == SubSeq(text, s, e - 1)
  IN  IF closing # {} THEN SubSeq(text, s, Min(closing) - 1)
      ELSE IF text[e] # ";" THEN kept
      ELSE IF Last(kept) \in Words /\ Shortened[Last(kept)] # ""
             THEN Append(Front(kept), Shortened[Last(kept)])
      ELSE Front(kept)

Line(pieces, next) == [how |-> "reading", line |-> pieces, next |-> next]
NoLine(how)        == [how |-> how, line |-> <<>>, next |-> Eof]

LineStart(p) == First(p, LAMBDA q : text[q] \notin Space)

\* A newline ends the line; between quotes it is refused, and a semicolon is text.
LineEnd(s)  == First(s + 1, LAMBDA q : text[q] \in {"\n", ";"} /\ ~Odd(Quotes(s + 1, q - 1)))
BrokenAt(s) == First(s + 1, LAMBDA q : text[q] = "\n" /\ Odd(Quotes(s + 1, q - 1)))

ReadLine(p) ==
  LET s == LineStart(p)
      b == BrokenAt(s)
      e == LineEnd(s)
  IN  CASE b < e                                  -> NoLine("exit1")
        [] e # Eof /\ e < b /\ text[e] = "\n"     -> Line(LineBefore(s, e), e + 1)
        [] e # Eof /\ e < b /\ text[e] = ";"      ->
             IF EndOfLine(e) = Eof THEN NoLine("hangs")
                                   ELSE Line(LineBefore(s, e), EndOfLine(e) + 1)
        [] s # Eof /\ e = Eof /\ b = Eof /\ Odd(Quotes(s + 1, Len(text))) -> NoLine("exit1")
        [] OTHER                                  -> NoLine("exhausted")

\* What a line says with its first two characters, the second of which is "#": the
\* first is a type, or no digit, which is the type 0 of null.
Says(line) ==
  IF line[1] \in Words THEN EntryOf[line[1]]
  ELSE IF line[1] = "\"" /\ Len(line) > 1 /\ line[2] \in Hashed THEN Null
  ELSE Refused

\* atol and atoi skip the blanks before the digits.
NumberIn(pieces) ==
  LET solid == SelectSeq(pieces, LAMBDA piece : piece # " ")
  IN  IF solid = <<>> THEN 0 ELSE AtoIOf(Head(solid))

\* The entries a line may be read as.  Of a line with nothing left the second
\* character is what malloc gave; a string skips three characters, which may
\* be more than there are.
Entries(line) ==
  LET says == Says(line)
      rest == Tail(line)
  IN  CASE line = <<>> -> {Null, Refused}
        [] line # <<>> /\ says = NumberLine  -> {Number(NumberIn(rest))}
        [] line # <<>> /\ says = BooleanLine -> {Boolean(NumberIn(rest) # 0)}
        [] line # <<>> /\ says = TextLine    ->
             IF rest = <<>> THEN {String(t) : t \in Strings} ELSE {String(Join(Tail(rest)))}
        [] line # <<>> /\ Tag(says) = "string" -> {String(Join(<<Payload(says)>> \o rest))}
        [] OTHER -> {says}

----------------------------------------------------------------------------
(* compile_function: header, code and constants, and for a nested function *)
(* all of it again in the middle of the constants.                         *)

NewFunction(name) ==
  [regs |-> Unset, globals |-> Unset, params |-> Unset, name |-> name,
   code |-> <<>>, consts |-> <<>>]

\* args are the operands stored, arg is the word that is the next.
NoInst == [op |-> "nop", args |-> <<>>, arg |-> ""]

Init ==
  /\ writing \in Writings
  /\ pos = 1
  /\ wanted = ">HEAD"
  /\ open = <<1>>
  /\ functions = <<NewFunction("main")>>
  /\ inst = NoInst
  /\ status = "reading"

Fn == Last(open)

Reading(what) == status = "reading" /\ wanted \in what

\* The reading ends.
End(how) ==
  /\ status' = how
  /\ UNCHANGED <<writing, pos, wanted, open, functions, inst>>

\* It goes on at p with something else; the functions are now fs.
GoOn(p, what, fs) ==
  /\ pos' = p /\ wanted' = what /\ functions' = fs
  /\ UNCHANGED <<writing, open, inst, status>>

Inside(mark) ==
  CASE mark = ">HEAD"  -> "setting"
    [] mark = ">CODE"  -> "instruction"
    [] mark = ">CONST" -> "constant"

\* expect, which stays behind the mark it has compared.
Expect ==
  /\ Reading(Marks)
  /\ LET s == Solid(pos)
     IN  IF s # Eof /\ text[s] = wanted
           THEN GoOn(s + 1, Inside(wanted), functions)
           ELSE End(IF s = Eof /\ EndlessComment(pos) THEN "hangs" ELSE "exit1")

Settings == {".regs", ".globals", ".params", ".upvals", ".name"}

Set(f, setting, v) ==
  CASE setting = ".regs"    -> [f EXCEPT !.regs = AtoIOf(v.first) % 256]
    [] setting = ".globals" -> [f EXCEPT !.globals = AtoIOf(v.first) % 256]
    [] setting = ".params"  -> [f EXCEPT !.params = AtoIOf(v.first) % 256]
    [] setting = ".upvals"  -> f
    [] setting = ".name"    -> [f EXCEPT !.name = v.word]

\* compile_header, one turn of its loop.  (What is read is bound by \E, here and
\* below, for TLC to evaluate it once.)
ReadSetting ==
  /\ Reading({"setting"})
  /\ \E s \in {ReadNext(pos)} : \E v \in {ReadNext(s.next)} :
         CASE s.how # "reading"      -> End(s.how)
           [] s.how = "reading" /\ s.word = "<HEAD" -> GoOn(s.next, ">CODE", functions)
           [] s.how = "reading" /\ s.word \in Settings ->
                IF v.how # "reading" THEN End(v.how)
                ELSE GoOn(v.next, wanted, [functions EXCEPT ![Fn] = Set(@, s.word, v)])
           [] OTHER -> End("exit1")

\* compile_code, up to the operands; read_args reads a word before its loop,
\* wherever that is.
ReadOpcode ==
  /\ Reading({"instruction"})
  /\ \E s \in {ReadNext(pos)} : \E v \in {ReadNext(s.next)} :
         CASE s.how # "reading" -> End(s.how)
           [] s.how = "reading" /\ s.word = "<CODE" -> GoOn(s.next, ">CONST", functions)
           [] s.how = "reading" /\ s.word \in Opcode ->
                IF v.how # "reading" THEN End(v.how)
                ELSE /\ pos' = v.next /\ wanted' = "operand"
                     /\ inst' = [op |-> s.word, args |-> <<>>, arg |-> v.first]
                     /\ UNCHANGED <<writing, open, functions, status>>
           [] OTHER -> End("exit1")

\* The instruction has these operands and is pushed.
Push(args, next) ==
  /\ pos' = next /\ wanted' = "instruction" /\ inst' = NoInst
  /\ functions' = [functions EXCEPT ![Fn].code = Append(@, Compiled(inst.op, args))]
  /\ UNCHANGED <<writing, open, status>>

OperandStart(p) == First(p, LAMBDA q : text[q] # " ")
OperandEnd(q)   == First(q, LAMBDA r : text[r] \in Space \cup {";"})

\* One turn of the loop of read_args: the operand is stored and the next word is
\* looked for.  The end of the line, and a comment, end the operands, but the
\* white space after an operand is consumed with it, the newline too.  A word
\* with a comment glued to it is dropped, and so is a word after the third.
ReadOperand ==
  /\ Reading({"operand"})
  /\ LET args == Append(inst.args, Operand(inst.arg))
         q    == OperandStart(pos)
         e    == OperandEnd(q)
     IN  CASE inst.arg \in Malformed                 -> End("exit1")
           [] inst.arg \notin Malformed /\ e = Eof   -> End("exhausted")
           [] inst.arg \notin Malformed /\ e # Eof /\ text[q] = "\n" -> Push(args, q + 1)
           [] inst.arg \notin Malformed /\ e # Eof /\ text[e] = ";"  ->
                IF EndOfLine(e) = Eof THEN End("hangs") ELSE Push(args, EndOfLine(e) + 1)
           [] OTHER ->
                IF Len(args) = 3 THEN Push(args, e + 1)
                ELSE /\ pos' = e + 1
                     /\ inst' = [inst EXCEPT !.args = args, !.arg = text[q]]
                     /\ UNCHANGED <<writing, wanted, open, functions, status>>

\* Mutant: the end of a nested function is taken for the end of all.
EndConstantsOfAll(next) ==
  /\ pos' = next /\ open' = <<>> /\ status' = "done"
  /\ UNCHANGED <<writing, wanted, functions, inst>>

\* The end of the constants: of the nested function, whose parent goes on, or
\* of the main function.
EndConstants(next) ==
  /\ pos' = next /\ open' = Front(open)
  /\ status' = IF Len(open) = 1 THEN "done" ELSE status
  /\ UNCHANGED <<writing, wanted, functions, inst>>

\* Mutant: a nested function is numbered when it ends, not when it begins.
ReadNestedLate(next) ==
  /\ pos' = next /\ wanted' = ">HEAD"
  /\ open' = Append(open, Len(functions) + 1)
  /\ functions' = Append([functions EXCEPT ![Fn].consts = Append(@, Nested(Len(functions)))],
                         NewFunction(""))
  /\ UNCHANGED <<writing, inst, status>>

\* Mutant: the parent takes the nested function for the one after it.
ReadNestedNext(next) ==
  /\ pos' = next /\ wanted' = ">HEAD"
  /\ open' = Append(open, Len(functions) + 1)
  /\ functions' = Append([functions EXCEPT ![Fn].consts = Append(@, Nested(Fn + 1))],
                         NewFunction(""))
  /\ UNCHANGED <<writing, inst, status>>

\* The line of a nested function, whose text follows.
ReadNested(next) ==
  /\ pos' = next /\ wanted' = ">HEAD"
  /\ open' = Append(open, Len(functions) + 1)
  /\ functions' = Append([functions EXCEPT ![Fn].consts = Append(@, Nested(Len(functions) + 1))],
                         NewFunction(""))
  /\ UNCHANGED <<writing, inst, status>>

ReadEntry(entry, next) ==
  CASE entry = Refused      -> End("exit1")
    [] entry = FunctionLine -> ReadNested(next)
    [] OTHER -> GoOn(next, wanted, [functions EXCEPT ![Fn].consts = Append(@, entry)])

\* compile_const, one turn of its loop.
ReadConstant ==
  /\ Reading({"constant"})
  /\ \E s \in {ReadLine(pos)} :
         CASE s.how # "reading" -> End(s.how)
           [] s.how = "reading" /\ s.line = <<"<CONST">> -> EndConstants(s.next)
           [] s.how = "reading" /\ s.line # <<>> /\ s.line[1] = ";" ->
                GoOn(s.next, wanted, functions)
           [] OTHER -> \E entry \in Entries(s.line) : ReadEntry(entry, s.next)

Step == Expect \/ ReadSetting \/ ReadOpcode \/ ReadOperand \/ ReadConstant

Ended == status \in Ends /\ UNCHANGED vars

Next == Step \/ Ended

\* The reader waits for nothing but the file.
Safe == Init /\ [][Next]_vars
Spec == Safe /\ WF_vars(Step)

----------------------------------------------------------------------------
\* What has been read is a source at every step, whatever the text.
TypeOK ==
  /\ pos \in 1 .. Eof + 1 /\ status \in {"reading"} \cup Ends
  /\ wanted \in Marks \cup {"setting", "instruction", "operand", "constant"}
  /\ inst.op \in Opcode /\ inst.args \in Seq(Int) /\ Len(inst.args) < 3
  /\ open \in Seq(DOMAIN functions) /\ (open = <<>> <=> status = "done")
  /\ IsSource(functions)

----------------------------------------------------------------------------
\* The reader hands over a source as module Assembly assumes it, whatever the
\* text: each nested function is there and has the number its parent knows it by,
\* although its parent is only half read when it begins (compiler.c:248-254).
HandsOverInOrder == status = "done" => InOrder(functions)

\* A text that ends early, anywhere, is never taken for a program: not when its
\* end is inside a nested function, not when only the last newline is missing.
CutIsNeverRead == writing.kind = "cut" => status # "done"

\* A text of functions written like those of sample/ is not taken to be complete
\* before all of it is read, though a nested function is read by the loops of the
\* one around it, and ends with the word that ends the whole (compiler.c:160-259).
ReadToItsEnd == writing.kind = "styled" /\ status = "done" => pos = Eof

\* A text written like those of sample/ is read, and says what its lines say: one
\* instruction a line, with its operands, one constant a line, comments nothing.
StyledIsRead ==
  writing.kind = "styled" ~> (status = "done" /\ functions = writing.means)

\* The reading of a text whose last line has its newline ends, though the loops
\* over comments and over what ends a word look for no end of the file.
ReadingEnds ==
  (text # <<>> /\ Last(text) = "\n") ~> status \in Ends \ {"hangs"}
=============================================================================
