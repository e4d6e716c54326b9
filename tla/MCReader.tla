------------------------------ MODULE MCReader ------------------------------
(***************************************************************************)
(* Instances of Reader for TLC.  A text is made of a meaning, its settings,*)
(* its instructions and its constants, and of how their lines are written; *)
(* it is "styled" when it is written like the programs of sample/, "cut"   *)
(* when the file ends early, and "loose" otherwise.                        *)
(***************************************************************************)
EXTENDS WholeText

SomeOpcodes == {"move", "loadk", "jmp", "nop", "return"}
Operands == {"0", "2", "3", "1K", "-1", "300", "1-1"}
Lines    == {"0#", "1#", "1#4", "1#42", "2#", "2#1", "3#", "3#xc", "4#", "5#", "1", "#c"}

MCWords ==
  Marks \cup {"<HEAD", "<CODE", "<CONST", "<CONS"} \cup Settings \cup SomeOpcodes
  \cup Operands \cup Lines \cup {"f", "c", "42"}

MCAtoI ==
  [w \in MCWords |->
    CASE w \in {"2", "2#", "2#1"} -> 2 [] w = "3" -> 3 [] w = "300" -> 300 [] w = "-1" -> -1
      [] w \in {"1K", "1-1", "1", "1#", "1#4", "1#42"} -> 1
      [] w \in {"3#", "3#xc"} -> 3 [] w = "4#" -> 4 [] w = "5#" -> 5 [] w = "42" -> 42
      [] OTHER -> 0]

MCKonst     == {"1K"}
MCMalformed == {"1-1"}
MCHashed    == {"#c"}

\* The words a semicolon may follow; of the others it does not matter.
MCShortened ==
  [w \in MCWords |->
    CASE w = "1#42" -> "1#4" [] w = "1#4" -> "1#" [] w = "1#" -> "1"
      [] w = "<CONST" -> "<CONS" [] w \in {"1", "c", "f"} -> ""
      [] OTHER -> "1"]

MCEntryOf ==
  [w \in MCWords |->
    CASE w = "0#" -> Null [] w = "1#" -> NumberLine [] w = "1#4" -> Number(4)
      [] w = "1#42" -> Number(42) [] w = "2#" -> BooleanLine [] w = "2#1" -> Boolean(TRUE)
      [] w = "3#" -> TextLine [] w = "3#xc" -> String("c") [] w = "4#" -> FunctionLine [] OTHER -> Refused]

MCNums     == {-1, 0, 1, 2, 3, 4, 5, 42, 300}
MCStrings  == {"main", "", "f", "f\"c c", "c", "c;", "c c"}
MCPointers == {}

----------------------------------------------------------------------------
(* Lines.                                                                  *)

\* Words with a blank before each.
Spaced(words) == FlattenSeq([x \in DOMAIN words |-> <<" ", words[x]>>])

Comment      == <<";", " ", "c", " ", "c", "\n">>
StyledEnds   == {<<" ", "\n">>, <<" ">> \o Comment, <<" ", " ", ";", "\n">>}
TightEnds    == {<<"\n">>, Comment}
EmptyLines   == {<<"\n">>, Comment, <<" ", ";">> \o Comment}

\* What spec/assembly.md says an operand is.
Meant ==
  [w \in Operands |->
    CASE w = "2" -> 2 [] w = "3" -> 3 [] w = "300" -> 300 [] w = "-1" -> -1
      [] w = "1K" -> BITRK + 1 [] OTHER -> 0]

\* An instruction, what it means if it stands in its line, and how it is written.
Code(op, operands, end) ==
  LET arg(x) == IF x <= Len(operands) THEN Meant[operands[x]] ELSE -1
  IN  [means  |-> << CASE op = "loadk" -> ABx(op, arg(1), arg(2))
                       [] op = "jmp"   -> AsBx(op, arg(1))
                       [] OTHER        -> ABC(op, arg(1), arg(2), arg(3)) >>,
       text   |-> <<" ", op>> \o Spaced(operands) \o end,
       styled |-> /\ end \in StyledEnds /\ Len(operands) \in 1 .. 3
                  /\ \A x \in DOMAIN operands : operands[x] \notin MCMalformed]

\* A line of the constants.
Const(line, entry, end) ==
  [means |-> <<entry>>, text |-> line \o end,
   styled |-> end \in {<<"\n">>, <<" ", "\n">>, <<" ">> \o Comment}]

Empty1(line) == [means |-> <<>>, text |-> line, styled |-> TRUE]

Means(lines)    == FlattenSeq([x \in DOMAIN lines |-> lines[x].means])
Texts(lines)    == FlattenSeq([x \in DOMAIN lines |-> lines[x].text])
AllStyled(lines) == \A x \in DOMAIN lines : lines[x].styled

Header(settings, end) ==
  <<">HEAD", "\n">>
  \o FlattenSeq([x \in DOMAIN settings |-> Spaced(settings[x]) \o end]) \o <<"<HEAD", "\n">>

\* A function of one file: its text and its meaning.
FunctionText(header, code, consts) ==
  header \o <<">CODE", "\n">> \o Texts(code) \o <<"<CODE", " ", "\n">>
  \o <<";", "c", "\n", ">CONST", "\n">> \o Texts(consts) \o <<"<CONST", "\n">>

OneFunction(f, header, code, consts) ==
  [text |-> FunctionText(header, code, consts), rest |-> <<>>,
   means |-> <<[f EXCEPT !.code = Means(code), !.consts = Means(consts)]>>,
   kind |-> IF AllStyled(code) /\ AllStyled(consts) THEN "styled" ELSE "loose"]

MCHeader   == Header(<< <<".regs", "3">> >>, <<"\n">>)
MCFunction == [NewFunction("main") EXCEPT !.regs = 3]

----------------------------------------------------------------------------
(* The texts of the run.                                                   *)

CodeLines ==
  {Code(op, SubSeq(<<"0", "1K", "2", "3">>, 1, n), e) :
     op \in {"move", "loadk"}, n \in 0 .. 4, e \in StyledEnds \cup TightEnds}
  \cup {Code("jmp", <<"-1">>, <<" ", "\n">>), Code("nop", <<>>, <<"\n">>),
        Code("nop", <<"300", "1-1">>, <<" ", "\n">>), Code("nop", <<"300">>, <<"\n">>)}
  \cup {Empty1(l) : l \in EmptyLines}

CodeWritings ==
  {OneFunction(MCFunction, MCHeader, c, <<Const(<<"1#42">>, Number(42), <<"\n">>)>>) :
     c \in SeqOf(CodeLines, 2)}

Quoted(pieces) == <<"3#", "\"">> \o pieces \o <<"\"">>

ConstLines ==
  {Const(l[1], l[2], e) :
     l \in { << <<"0#">>, Null>>, << <<"1#42">>, Number(42)>>, << <<"2#1">>, Boolean(TRUE)>>,
             << Quoted(<<"c", ";">>), String("c;")>>, << Quoted(<<>>), String("")>> },
     e \in {<<"\n">>, <<" ", "\n">>, <<" ">> \o Comment, Comment}}
  \cup {[means |-> <<Refused>>, text |-> t, styled |-> FALSE] :
          t \in {<<"5#", "\n">>, <<"1", "\n">>, <<"3#", "\n">>, <<"3#", " ", "c", "\n">>,
                 <<";", ";", "c", "\n">>, <<";", "\"", "c", "\n">>, <<"3#", "\"", "c", "\n">>,
                 <<"1#", " ", " ", "42", " ", "c", "\n">>, <<"1#", "\"", "42", "\"", "\n">>,
                 <<"2#", " ", "2", "\n">>, <<"2#", "\n">>, <<"3#xc", " ", "c", "\n">>,
                 <<"\"", "#c", "\n">>, <<"\"", "c", "\"", "\n">>, <<"c", ";", "\n">>, <<"<CONST", ";", "c", "\n">>}}
  \cup {Empty1(l) : l \in {<<"\n">>, <<" ">> \o Comment}}

ConstWritings ==
  {OneFunction(MCFunction, MCHeader, <<>>, c) : c \in SeqOf(ConstLines, 2)}

\* Every setting, one of them larger than a byte; then the same with a comment
\* glued to the values, and with a word that is no setting.
AllSettings ==
  << <<".regs", "300">>, <<".globals", "2">>, <<".params", "0">>, <<".upvals", "2">>,
     <<".name", "f">> >>

HeaderWriting(settings, end, kind) ==
  [text  |-> FunctionText(Header(settings, end), <<>>, <<>>), rest |-> <<>>,
   means |-> <<[NewFunction("f") EXCEPT !.regs = 44, !.globals = 2, !.params = 0]>>,
   kind  |-> kind]

HeaderWritings ==
  { HeaderWriting(AllSettings, <<"\n">>, "styled"),
    HeaderWriting(AllSettings, <<" ">> \o Comment, "styled"),
    HeaderWriting(AllSettings, Comment, "loose"),
    HeaderWriting(Append(AllSettings, <<"c", "0">>), <<"\n">>, "loose") }

\* The three marks with the next word glued to them.
GluedWriting ==
  [text  |-> <<">HEAD", ".regs", " ", "3", "\n", "<HEAD", "\n", ">CODE", "return", " ", "0", " ",
               "\n", "<CODE", "\n", ">CONST", "1#42", "\n", "<CONST", "\n">>,
   rest  |-> <<>>, kind |-> "loose",
   means |-> <<[MCFunction EXCEPT !.code = <<ABC("return", 0, -1, -1)>>,
                                  !.consts = <<Number(42)>>]>>]

\* A nested function with one of its own, and a second one.
NestedText ==
  FunctionText(MCHeader, <<Code("loadk", <<"0", "0">>, <<" ", "\n">>)>>,
    << Const(<<"1#42">>, 0, <<"\n">>),
       [text |-> <<"4#", " ">> \o Comment \o
          FunctionText(Header(<< <<".name", "f">> >>, <<" ", "\n">>), <<>>,
            << [text |-> <<"4#", "\n">> \o FunctionText(Header(<<>>, <<>>), <<>>, <<>>)],
               Const(<<"0#">>, 0, <<"\n">>) >>)],
       [text |-> <<"4#", "\n">> \o FunctionText(Header(<<>>, <<>>), <<>>, <<>>)] >>)

NestedWriting ==
  [text |-> NestedText, rest |-> <<>>, kind |-> "styled",
   means |-> << [MCFunction EXCEPT !.code = <<ABx("loadk", 0, 0)>>,
                                   !.consts = <<Number(42), Nested(2), Nested(4)>>],
                [NewFunction("f") EXCEPT !.consts = <<Nested(3), Null>>],
                NewFunction(""), NewFunction("") >>]

\* A text that has one of each thing, quotes in a name and in a constant.
FullText ==
  FunctionText(
    <<">HEAD", "\n", " ", ".regs", " ", "3", " ", "\n",
      " ", ".name", " ", "f", "\"", "c", " ", "c", "\"", " ", "\n", "<HEAD", "\n">>,
    << Code("move", <<"0", "1K", "2">>, <<" ">> \o Comment) >>,
    << Const(<<"1#42">>, 0, <<" ">> \o Comment), Const(Quoted(<<"c", ";">>), 0, <<"\n">>) >>)

FullWriting ==
  [text |-> FullText, rest |-> <<>>, kind |-> "styled",
   means |-> << [NewFunction("f\"c c") EXCEPT !.regs = 3,
                   !.code = <<ABC("move", 0, BITRK + 1, 2)>>,
                   !.consts = <<Number(42), String("c;")>>] >>]

Cuts(w) ==
  {[text |-> SubSeq(w.text, 1, n), rest |-> SubSeq(w.text, n + 1, Len(w.text)),
    means |-> w.means, kind |-> "cut"] : n \in 0 .. Len(w.text) - 1}

MCWritings ==
  CodeWritings \cup ConstWritings \cup HeaderWritings
  \cup {GluedWriting, NestedWriting, FullWriting}
  \cup Cuts(NestedWriting) \cup Cuts(FullWriting)

\* Two instructions, each alone on its line, nothing after the last operand.
PlainLines ==
  { OneFunction(MCFunction, MCHeader,
      <<Code("move", <<"0", "2">>, <<"\n">>), Code("return", <<"0">>, <<"\n">>)>>, <<>>) }

\* spec/assembly.md:27: "On each line, there can be only one opcode and its
\* arguments".  A function that is read has the instructions of its lines.
LinesAreInstructions == status = "done" => functions = writing.means
=============================================================================
