------------------------------ MODULE Assembly ------------------------------
(***************************************************************************)
(* How a program gets from its assembly into the virtual machine: bijouc   *)
(* compiles the source into blocks and dumps them into a file (bijouc.c,   *)
(* compiler.c, block.c, dump.c), bijou loads the file and builds the       *)
(* blocks again (bijou.c, load.c).  Cutting the text into words is the     *)
(* module Reader: a source is what that hands over.                        *)
(*                                                                         *)
(* Functions, blocks and protos are numbered in the order they begin,      *)
(* which is the order in which dump.c writes and load.c reads them.        *)
(*                                                                         *)
(* The file is the sequence of the items dump.c writes.  It may end early: *)
(* the disk may be full, the process may be killed.  The loader does not   *)
(* notice the end: each byte it wants is then EOF, 0xFF.                   *)
(***************************************************************************)
EXTENDS Source, SequencesExt

CONSTANTS
  Sources,    \* the sources that may be compiled, sequences of functions
  FileName,   \* the name of the source file
  Unescape,   \* the text each text of a source stands for, or BadEscape
  BadEscape,  \* the answer for a text DumpString refuses
  Garbage,    \* what a byte that malloc gave and nothing wrote may hold
  Lines,      \* what an int that malloc gave and nothing wrote may hold
  ChildRoom,  \* the pointers that fit where malloc was asked for a few bytes
  CountSize,  \* the values numchildren can have: 256, or fewer in an instance
  Cuts        \* whether bijouc may be cut off before the file is complete

VARIABLES
  src,       \* the source
  options,   \* the options bijouc is given
  phase,     \* how far the program got
  open,      \* the functions being compiled, the outermost first
  blocks,    \* the blocks that are compiled, or begun
  file,      \* the bytecode file
  pos,       \* the item the loader reads next
  stack,     \* the protos being loaded, the outermost first
  protos,    \* the protos that are loaded, or begun
  loaded     \* the blocks built of them

given     == <<src, options>>
compiling == <<open, blocks>>
loading   == <<pos, stack, protos, loaded>>
vars      == <<given, phase, compiling, file, loading>>

Ends == {"ready", "refused", "crashed", "wild"}

Phases ==
  {"start", "compiling", "dumping", "compiled", "failed", "loading", "building"}
  \cup Ends

----------------------------------------------------------------------------
(* Assumptions about the constants.                                        *)

ASSUME AssemblyAssumption ==
  /\ \A s \in Sources : IsSource(s) /\ InOrder(s)
  /\ {FileName, ""} \subseteq Strings
  /\ Unescape \in [Strings -> Strings \cup {BadEscape}]
  /\ BadEscape \notin Strings
  /\ Garbage \subseteq Byte /\ Lines \subseteq Int
  /\ ChildRoom \in Nat /\ CountSize \in Nat \ {0}
  /\ Cuts \in BOOLEAN

----------------------------------------------------------------------------
(* The table of constants of a block.                                      *)

\* Mutants: values of one type are taken for equal, or none are.
PushConstByTag(k, v) ==
  IF \E x \in DOMAIN k : Tag(k[x]) = Tag(v) THEN {k} ELSE {Append(k, v)}

PushConstAlways(k, v) == {Append(k, v)}

\* BijouBlock_push_const: a value that equals an earlier one is dropped.
PushConst(k, v) ==
  {t \in {k} : \E x \in DOMAIN k : TRUE \in EqualResults(k[x], v)}
  \cup {t \in {Append(k, v)} : \A x \in DOMAIN k : FALSE \in EqualResults(k[x], v)}

\* The tables that the first n of some values may make.
Pushed(values) ==
  LET upto[n \in 0 .. Len(values)] ==
        IF n = 0 THEN {<<>>}
                 ELSE UNION {PushConst(k, values[n]) : k \in upto[n - 1]}
  IN  upto

PushAll(values) == Pushed(values)[Len(values)]

PushMayTrap(values) ==
  \E x, y \in DOMAIN values : x < y /\ EqualMayTrap(values[x], values[y])

----------------------------------------------------------------------------
(* bijouc.                                                                 *)

\* The process ends.
End(how) ==
  /\ phase' = how
  /\ UNCHANGED <<given, compiling, file, loading>>

Absent == << <<"absent", 0>> >>

Init ==
  /\ src \in Sources
  /\ options \in SUBSET {"parse", "debug"}
  /\ phase = "start"
  /\ open = <<>> /\ blocks = <<>>
  /\ file = Absent
  /\ pos = 1 /\ stack = <<>> /\ protos = <<>> /\ loaded = <<>>

\* Mutant: a setting is kept as it is written.
StoredWide(setting, unset) == IF setting = Unset THEN unset ELSE {setting}

\* A setting is stored in a byte.
Stored(setting, unset) == IF setting = Unset THEN unset ELSE {setting % 256}

\* compile_header and compile_code: the block of function j, no constant yet.
\* Only the registers have a default; the lines are never stored.
NewBlocks(j) ==
  LET f == src[j]
  IN  [source : {IF j = 1 THEN FileName ELSE ""}, name : {f.name},
       line : Lines, lastline : Lines,
       regs : Stored(f.regs, {0}), globals : Stored(f.globals, Garbage),
       params : Stored(f.params, Garbage),
       code : {f.code}, k : {<<>>}, children : {<<>>}]

\* The output is opened, which empties it, before the input is looked at.
Start ==
  /\ phase = "start"
  /\ file' = IF "parse" \in options THEN file ELSE <<>>
  /\ \/ phase' = "failed" /\ UNCHANGED compiling
     \/ /\ phase' = "compiling"
        /\ open' = <<[fn |-> 1, at |-> 0]>>
        /\ \E b \in NewBlocks(1) : blocks' = <<b>>
  /\ UNCHANGED <<given, loading>>

Fn    == Last(open).fn
Entry == src[Fn].consts[Last(open).at + 1]

ReadingConsts == phase = "compiling" /\ Last(open).at < Len(src[Fn].consts)

PastEntry == [open EXCEPT ![Len(open)].at = @ + 1]

CompileConst ==
  /\ ReadingConsts /\ Entry \in ConstValue
  /\ open' = PastEntry
  /\ \E k \in PushConst(blocks[Fn].k, Entry) :
       blocks' = [blocks EXCEPT ![Fn].k = k]
  /\ UNCHANGED <<given, phase, file, loading>>

RefuseConst == ReadingConsts /\ Entry = Refused /\ End("failed")

CompileNested ==
  /\ ReadingConsts /\ IsNested(Entry)
  /\ open' = Append(PastEntry, [fn |-> Entry[2], at |-> 0])
  /\ \E b \in NewBlocks(Entry[2]) : blocks' = Append(blocks, b)
  /\ UNCHANGED <<given, phase, file, loading>>

\* The end of a nested function.  BijouBlock_push_child asks for as many bytes
\* as there are children, which is none when their number wraps: realloc then
\* gives NULL.  At last the function is a constant of its parent.
EndNested ==
  /\ phase = "compiling"
  /\ Last(open).at = Len(src[Fn].consts) /\ Len(open) > 1
  /\ LET parent == open[Len(open) - 1].fn
         n      == Len(blocks[parent].children)
         count  == (n + 1) % CountSize
     IN  CASE count = 0 -> End("crashed")
           [] count # 0 /\ n < ChildRoom ->
                /\ open' = Front(open)
                /\ \E k \in PushConst(blocks[parent].k, Function(<<"block", Fn>>)) :
                     blocks' = [blocks EXCEPT ![parent].k = k,
                                              ![parent].children = Append(@, Fn)]
                /\ UNCHANGED <<given, phase, file, loading>>
           [] OTHER -> End("wild")

\* "if (! options & OPT_PARSE)" is true when there is no option at all.
EndMain ==
  /\ phase = "compiling"
  /\ Last(open).at = Len(src[Fn].consts) /\ Len(open) = 1
  /\ End(IF options = {} THEN "dumping" ELSE "compiled")

Killed == phase = "compiling" /\ Cuts /\ End("failed")

----------------------------------------------------------------------------
(* dump.c.  An item is a kind and what is written: "string" stands for the *)
(* size and the bytes, "words" for the bytes of the instructions.          *)

Text(s) == <<"string", Unescape[s]>>
Int32(n) == <<"int", n>>
Char(c) == <<"char", c>>

\* Mutant: the byte of a boolean is forgotten.
ConstItemsShort(v) ==
  CASE Tag(v) = "null"     -> <<Char(0)>>
    [] Tag(v) = "number"   -> <<Char(1), <<"number", Payload(v)>> >>
    [] Tag(v) = "boolean"  -> <<Char(2)>>
    [] Tag(v) = "string"   -> <<Char(3), Text(Payload(v))>>
    [] Tag(v) = "function" -> <<Char(4)>>

ConstItems(v) ==
  CASE Tag(v) = "null"     -> <<Char(0)>>
    [] Tag(v) = "number"   -> <<Char(1), <<"number", Payload(v)>> >>
    [] Tag(v) = "boolean"  -> <<Char(2), Char(IF Payload(v) THEN 1 ELSE 0)>>
    [] Tag(v) = "string"   -> <<Char(3), Text(Payload(v))>>
    [] Tag(v) = "function" -> <<Char(4)>>

\* What the first n of some sequences make, one after the other.
ConcatTo(seqs) ==
  LET upto[n \in 0 .. Len(seqs)] == IF n = 0 THEN <<>> ELSE upto[n - 1] \o seqs[n]
  IN  upto

Concat(seqs) == ConcatTo(seqs)[Len(seqs)]

\* Mutant: the parameters are written where the upvalues belong.
FunctionItemsSwapped(b) ==
  << Text(b.source), Text(b.name), Int32(b.line), Int32(b.lastline),
     Char(b.regs), Char(b.globals), Char(b.params), Char(0),
     Int32(Len(b.code)), <<"words", b.code>>, Int32(Len(b.k)) >>
  \o Concat([x \in DOMAIN b.k |-> ConstItems(b.k[x])])
  \o << Int32(Len(b.children)) >>

\* DumpFunction up to its children, which follow; nothing makes an upvalue.
FunctionItems(b) ==
  << Text(b.source), Text(b.name), Int32(b.line), Int32(b.lastline),
     Char(b.regs), Char(b.globals), Char(0), Char(b.params),
     Int32(Len(b.code)), <<"words", b.code>>, Int32(Len(b.k)) >>
  \o Concat([x \in DOMAIN b.k |-> ConstItems(b.k[x])])
  \o << Int32(Len(b.children)) >>

Bytecode ==
  << <<"header", 0>> >> \o Concat([j \in DOMAIN blocks |-> FunctionItems(blocks[j])])

Undecodable ==
  LET items == Bytecode IN {x \in DOMAIN items : items[x] = <<"string", BadEscape>>}

\* A text that cannot be decoded ends the process, what is before it has been
\* written.  What becomes of a write is known (D.status) and ignored.  (The items and
\* their number are bound by \E for TLC to evaluate them once.)
Dump ==
  /\ phase = "dumping"
  /\ \E items \in {Bytecode} : \E size \in {Min({Len(items) + 1} \cup Undecodable) - 1} :
       LET ends == IF size = Len(items) THEN "compiled" ELSE "failed"
       IN  \/ file' = SubSeq(items, 1, size) /\ phase' = ends
           \/ /\ Cuts
              /\ \E n \in 0 .. size : file' = SubSeq(items, 1, n)
              /\ phase' \in {ends, "failed"}
  /\ UNCHANGED <<given, compiling, loading>>

----------------------------------------------------------------------------
(* bijou: load.c.                                                          *)

Run ==
  /\ phase \in {"compiled", "failed"}
  /\ End(IF file = Absent THEN "refused" ELSE "loading")

NewProto == [got |-> <<>>, k |-> <<>>, sizep |-> Unset, children |-> <<>>]

\* What LoadFunction reads of a function before its constants: source, name,
\* lines, registers, globals, upvalues, parameters, the size of the code, the
\* code, and the number of constants.
Fields == << "string", "string", "int", "int", "char", "char", "char", "char",
             "int", "words", "int" >>

Cur   == protos[Last(stack)]
SizeK == Cur.got[11]

\* What the loader is about to read, if anything.
Wanted ==
  CASE stack = <<>>                                           -> "header"
    [] stack # <<>> /\ Len(Cur.got) < Len(Fields)             -> Fields[Len(Cur.got) + 1]
    [] stack # <<>> /\ Len(Cur.got) = Len(Fields)
         /\ Len(Cur.k) < SizeK                                -> "constant"
    [] stack # <<>> /\ Len(Cur.got) = Len(Fields)
         /\ Len(Cur.k) = SizeK /\ Cur.sizep = Unset           -> "children"
    [] OTHER                                                  -> "nothing"

Loading(wanted) == phase = "loading" /\ Wanted \in wanted

\* Mutant: a reader that gives zeros past the end.
PastEndZero(kind) ==
  CASE kind = "int"    -> {0}
    [] kind = "char"   -> {0}
    [] kind = "number" -> Nums
    [] kind = "string" -> {BadEscape} \cup Strings
    [] kind = "words"  -> {[x \in 1 .. Cur.got[9] |-> ABC("undefined", 255, 511, 511)]}

\* An item that is not in the file, or not all of it: the high byte of an int is
\* 0xFF; the size of a string is too, and memory for it there is none, or only
\* its bytes are missing.
PastEnd(kind) ==
  CASE kind = "int"    -> {-1}
    [] kind = "char"   -> {255}
    [] kind = "number" -> Nums
    [] kind = "string" -> {BadEscape} \cup Strings
    [] kind = "words"  -> {[x \in 1 .. Cur.got[9] |-> ABC("undefined", 255, 511, 511)]}

Item(x, kind) == IF x <= Len(file) THEN {file[x][2]} ELSE PastEnd(kind)

\* The proto that is read becomes p, of n more items.
Take(p, n) ==
  /\ protos' = [protos EXCEPT ![Last(stack)] = p]
  /\ pos' = pos + n
  /\ UNCHANGED <<given, phase, compiling, file, stack, loaded>>

LoadHeader ==
  /\ Loading({"header"})
  /\ IF pos <= Len(file)
       THEN /\ stack' = <<1>> /\ protos' = <<NewProto>> /\ pos' = pos + 1
            /\ UNCHANGED <<given, phase, compiling, file, loaded>>
       ELSE End("refused")

LoadField ==
  /\ Loading(Range(Fields))
  /\ \E v \in Item(pos, Wanted) :
       CASE Wanted = "int" /\ v < 0            -> End("refused")
         [] Wanted = "string" /\ v = BadEscape -> End("crashed")
         [] OTHER -> Take([Cur EXCEPT !.got = Append(@, v)], 1)

TakeConst(v, n) == Take([Cur EXCEPT !.k = Append(@, v)], n)

\* A function constant keeps the null every constant is set to first.
LoadConstant ==
  /\ Loading({"constant"})
  /\ \E type \in Item(pos, "char") :
       CASE type \in {0, 4} -> TakeConst(Null, 1)
         [] type = 1 -> \E n \in Item(pos + 1, "number") : TakeConst(Number(n), 2)
         [] type = 2 -> \E c \in Item(pos + 1, "char") : TakeConst(Boolean(c # 0), 2)
         [] type = 3 -> \E s \in Item(pos + 1, "string") :
                          IF s = BadEscape THEN End("crashed") ELSE TakeConst(String(s), 2)
         [] OTHER -> End("refused")

\* Mutant: a count of zero is taken for a bad integer.
LoadNumChildrenPositive ==
  /\ Loading({"children"})
  /\ \E n \in Item(pos, "int") :
       IF n <= 0 THEN End("refused") ELSE Take([Cur EXCEPT !.sizep = n], 1)

LoadNumChildren ==
  /\ Loading({"children"})
  /\ \E n \in Item(pos, "int") :
       IF n < 0 THEN End("refused") ELSE Take([Cur EXCEPT !.sizep = n], 1)

LoadChild ==
  /\ Loading({"nothing"}) /\ Len(Cur.children) < Cur.sizep
  /\ protos' = Append([protos EXCEPT ![Last(stack)].children = Append(@, Len(protos) + 1)],
                      NewProto)
  /\ stack' = Append(stack, Len(protos) + 1)
  /\ UNCHANGED <<given, phase, compiling, file, pos, loaded>>

LoadReturn ==
  /\ Loading({"nothing"}) /\ Len(Cur.children) = Cur.sizep
  /\ stack' = Front(stack)
  /\ phase' = IF Len(stack) = 1 THEN "building" ELSE phase
  /\ UNCHANGED <<given, compiling, file, pos, protos, loaded>>

\* proto_to_block2: the constants are pushed once more, and the globals of the
\* main function are those of the VM.
Build ==
  /\ phase = "building"
  /\ LET j == Len(loaded) + 1
         p == protos[j]
     IN  IF PushMayTrap(p.k) THEN End("crashed")
         ELSE /\ \E k \in PushAll(p.k) :
                   loaded' = Append(loaded,
                     [code |-> p.got[10], k |-> k, regc |-> p.got[5], argc |-> p.got[8],
                      numglobal |-> IF j = 1 THEN p.got[6] ELSE 0,
                      children |-> p.children])
              /\ phase' = IF j = Len(protos) THEN "ready" ELSE phase
              /\ UNCHANGED <<given, compiling, file, pos, stack, protos>>

Step ==
  \/ Start \/ CompileConst \/ RefuseConst \/ CompileNested \/ EndNested \/ EndMain
  \/ Killed \/ Dump
  \/ Run \/ LoadHeader \/ LoadField \/ LoadConstant \/ LoadNumChildren
  \/ LoadChild \/ LoadReturn \/ Build

Ended == phase \in Ends /\ UNCHANGED vars

Next == Step \/ Ended

\* Neither process waits for anything, and somebody runs bijou.
Spec == Init /\ [][Next]_vars /\ WF_vars(Step)

----------------------------------------------------------------------------
(* Type correctness.                                                       *)

IsCompiled(b) ==
  /\ b.source \in Strings /\ b.name \in Strings
  /\ b.line \in Lines /\ b.lastline \in Lines
  /\ {b.regs, b.globals, b.params} \subseteq Byte
  /\ b.code \in Seq(Instruction)
  /\ b.k \in Seq(ConstValue \cup {Function(<<"block", j>>) : j \in 2 .. Len(src)})
  /\ b.children \in Seq(2 .. Len(src)) /\ Len(b.children) < CountSize

IsProto(p) ==
  /\ Len(p.got) <= Len(Fields)
  /\ \A x \in DOMAIN p.got :
       CASE Fields[x] = "int"    -> p.got[x] \in Nat
         [] Fields[x] = "char"   -> p.got[x] \in Byte
         [] Fields[x] = "string" -> p.got[x] \in Strings
         [] Fields[x] = "words"  -> p.got[x] \in Seq(Instruction)
  /\ p.k \in Seq(ConstValue)
  /\ p.sizep \in Nat \cup {Unset}
  /\ p.children \in Seq(2 .. Len(protos))

TypeOK ==
  /\ options \subseteq {"parse", "debug"} /\ phase \in Phases
  /\ open \in Seq([fn : 1 .. Len(src), at : Nat])
  /\ \A j \in DOMAIN blocks : IsCompiled(blocks[j])
  /\ \A x \in DOMAIN file :
       file[x][1] \in {"absent", "header", "string", "int", "char", "number", "words"}
  /\ pos \in Nat \ {0}
  /\ stack \in Seq(1 .. Len(protos))
  /\ \A j \in DOMAIN protos : IsProto(protos[j])
  /\ phase = "ready" => IsProgram(loaded)

----------------------------------------------------------------------------
(* Safety.                                                                 *)

\* The loader reads every item as what it was written as, whatever the program:
\* nothing in the file names a field or tells where one ends, so DumpFunction
\* and LoadFunction must walk the functions and their fields in one order.
InStep ==
  phase = "loading" /\ pos <= Len(file) =>
    LET kind == file[pos][1]
    IN  CASE Wanted = "nothing"  -> TRUE
          [] Wanted = "children" -> kind = "int"
          [] Wanted = "constant" ->
               /\ kind = "char" /\ file[pos][2] \in 0 .. 4
               /\ pos < Len(file) /\ file[pos][2] \in 1 .. 3 =>
                    file[pos + 1][1] = <<"number", "char", "string">>[file[pos][2]]
          [] OTHER -> kind = Wanted

\* A file that ends early never becomes a program, although the reader makes up
\* the bytes that are missing and its caller's test for EOF never succeeds:
\* whatever the place, an int comes after it, and it is negative.
CutNeverRuns ==
  phase \in {"building", "ready"} => file = Bytecode /\ pos = Len(file) + 1

\* Everything but the constants arrives as it was compiled: the functions, who
\* nests whom, their code, registers and parameters, and the main function's
\* globals.
LoadedKeepsBlocks ==
  phase = "ready" =>
    /\ DOMAIN loaded = DOMAIN blocks
    /\ loaded[1].numglobal = blocks[1].globals
    /\ \A j \in DOMAIN blocks :
         /\ loaded[j].code = blocks[j].code
         /\ loaded[j].regc = blocks[j].regs
         /\ loaded[j].argc = blocks[j].params
         /\ loaded[j].children = blocks[j].children

Decoded(e) == IF Tag(e) = "string" THEN String(Unescape[Payload(e)]) ELSE e

\* A table the two passes that drop equal values, one over the texts as they are
\* written and one over what they stand for, leave alone.
TidyConsts(consts) ==
  /\ \A x, y \in DOMAIN consts : x < y =>
       /\ IsNested(consts[x]) => IsNested(consts[y])
       /\ ~IsNested(consts[y]) => Decoded(consts[x]) # Decoded(consts[y])

\* The constants of a tidy function, its nested functions last, are where the
\* code expects them: operand x means the entry on line x of the source.
ConstantsKept ==
  phase = "ready" =>
    \A j \in DOMAIN src : TidyConsts(src[j].consts) =>
      \A x \in DOMAIN src[j].consts : ~IsNested(src[j].consts[x]) =>
        x <= Len(loaded[j].k) /\ loaded[j].k[x] = Decoded(src[j].consts[x])

----------------------------------------------------------------------------
(* Liveness.                                                               *)

NoNegativeLine == \A j \in DOMAIN blocks : blocks[j].line >= 0 /\ blocks[j].lastline >= 0

\* A file that is complete is loaded, if the lines nothing stored are no
\* negative numbers.  In particular the second pass never meets two empty
\* strings, whose addresses are NULL: the first pass has dropped one.
CompleteIsLoaded ==
  (phase = "loading" /\ file = Bytecode /\ NoNegativeLine) ~> phase = "ready"
=============================================================================
