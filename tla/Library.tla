------------------------------ MODULE Library ------------------------------
(***************************************************************************)
(* The string, file and network libraries (lib/string.c, lib/io.c,         *)
(* lib/net.c, and the operations of string.c they use), called in any      *)
(* order by a program that holds their results in registers.               *)
(*                                                                         *)
(* What matters is the memory behind the values.  A string is an address   *)
(* and a length; the text at the address ends at the first NUL, which not  *)
(* every function writes: strlen goes on through what malloc left in the   *)
(* buffer, and out of it when there is no NUL.  A buffer is kept as the    *)
(* text up to its NUL.  Nothing is ever freed but the buffer of recv and   *)
(* the streams a program closes, whose addresses the next allocation may   *)
(* take.                                                                   *)
(*                                                                         *)
(* The model stops with status "wild" at an access to memory that is not   *)
(* what the function takes it for, and with "crashed" when it follows NULL.*)
(***************************************************************************)
EXTENDS Integers, SequencesExt

CONSTANTS
  NULL,       \* the address of nothing
  Regs,       \* the registers of the program
  Texts,      \* its string constants; the empty one has a NULL address
  Numbers,    \* its number constants
  Usable(_),  \* the size of the buffer malloc gives for a size asked for
  Leftover,   \* how many bytes before the first NUL are left in a buffer malloc gives
  Buffers,    \* where malloc puts buffers
  Addresses,  \* where the C library puts streams and address infos
  MaxFile,    \* how long a file or a message is at most
  MaxText,    \* how long the text of a concatenation is at most
  MaxOpens    \* how many streams and infos are made at most

VARIABLES
  heap,     \* what each buffer holds
  objects,  \* what is at each address: a stream, an info, or nothing
  opens,    \* how many streams and infos were made
  regs,     \* the registers
  status,   \* "running", or how the process ended
  closed,   \* history: the streams the program has closed
  careful   \* history: the program has kept to the contract so far

vars == <<heap, objects, opens, regs, status, closed, careful>>

\* How many bytes a buffer that is read into is asked for at most.
MaxAsked == 2 * MaxText

ASSUME LibraryAssumption ==
  /\ MaxText \in Nat /\ MaxOpens \in Nat /\ MaxFile \in 0 .. MaxText
  /\ \A n \in 0 .. MaxAsked : Usable(n) \in Nat /\ Usable(n) >= n
  /\ \A t \in Texts : t \in Seq(Range(t)) /\ Len(t) <= MaxText
  /\ \E t \in Texts : t # <<>>
  /\ Numbers \subseteq Int /\ Leftover \subseteq Nat
  /\ NULL \notin Buffers \cup Addresses /\ Buffers \cap Addresses = {}

----------------------------------------------------------------------------
(* Values and memory.                                                      *)

\* text is what strlen made of a string when it was made, and its length the
\* length of the value.  The rest is history: from is where a value comes from, and n
\* which opening made a pointer.
Value(tt, ptr, n, text, from) ==
  [tt |-> tt, ptr |-> ptr, n |-> n, text |-> text, from |-> from]

Null           == Value("null", NULL, 0, <<>>, "")
Number(n)      == Value("number", NULL, n, <<>>, "")
Pointer(p, kind, opening) == Value("pointer", p, opening, <<>>, kind)
Constant(text) == Value("string", NULL, 0, text, "constant")
NoString       == Value("string", NULL, 0, <<>>, "malloc")

Arguments == {regs[r] : r \in Regs} \cup {Constant(t) : t \in Texts}
               \cup {Number(n) : n \in Numbers} \cup {Null}

Buffer(state, text) == [state |-> state, text |-> text]
NoBuffer            == Buffer("unused", <<>>)

Object(kind, opening) == [kind |-> kind, opening |-> opening]
NoObject              == Object("nothing", 0)

String(p, text, from) == Value("string", p, 0, text, from)

\* A size that malloc is asked for is bounded.
Asked(size) == size <= MaxAsked

\* What malloc gives has been used before: after the content that was copied to
\* its start the text goes on until a byte happens to be NUL.
Unended(content) == {content \o [i \in 1 .. k |-> "x"] : k \in Leftover}

\* The buffer is longer than the text, so that its NUL is in it too.
LiesIn(text, size) == Len(text) < Usable(size)

\* As many bytes can be read into a buffer without strlen ever leaving it: malloc
\* has rounded up enough for what it may have left.
Ends(size) == size >= 0 => \A k \in Leftover : size + k < Usable(size)

\* A constant lies in the memory of the program.
Memory(v) == IF v.from = "constant" THEN Buffer("used", v.text) ELSE heap[v.ptr]
TextAt(v) == Memory(v).text
IsNULL(v) == v.ptr = NULL /\ (v.from = "constant" => v.text = <<>>)

Readable(v) == ~IsNULL(v) /\ Memory(v).state = "used"

----------------------------------------------------------------------------
(* The shapes of a call.                                                   *)

\* The process ends, and its memory with it.
Stop(s) ==
  /\ status' = s
  /\ heap' = [p \in Buffers |-> NoBuffer]
  /\ objects' = [p \in Addresses |-> NoObject]
  /\ regs' = [r \in Regs |-> Null]
  /\ opens' = 0
  /\ closed' = {}

\* A call whose arguments have the types the function asks for.  Its contract is
\* what a program must know of them; whether it was kept goes into the history.
Calling(types, args, contract, Effect) ==
  /\ \A i \in DOMAIN types : args[i].tt = types[i]
  /\ careful' = (careful /\ contract)
  /\ Effect

\* The register gets the result.  What no register points to is never seen again:
\* it is left out.
Store(a, v, heap2, objects2) ==
  /\ regs' = [regs EXCEPT ![a] = v]
  /\ LET held == {regs'[r].ptr : r \in Regs}
     IN  /\ heap' = [p \in Buffers |-> IF p \in held THEN heap2[p] ELSE NoBuffer]
         /\ objects' = [p \in Addresses |-> IF p \in held THEN objects2[p] ELSE NoObject]
  /\ UNCHANGED status

Answer(a, v) ==
  /\ Store(a, v, heap, objects)
  /\ UNCHANGED <<opens, closed>>

\* Memory that is given out is new, or was freed while a register still points to it;
\* which of the new ones it is makes no difference.
Given(free) ==
  LET held == {regs[r].ptr : r \in Regs}
  IN  IF free \subseteq held THEN free ELSE (free \cap held) \cup {CHOOSE p \in free \ held : TRUE}

\* The result is a string in a buffer of its own, for which malloc was asked for size
\* bytes; strlen, or the writing of the text, goes past one that is too small.
AnswerText(a, text, size, state, from) ==
  IF LiesIn(text, size)
    THEN /\ \E p \in Given({p \in Buffers : heap[p].state # "used"}) :
              Store(a, String(p, text, from), [heap EXCEPT ![p] = Buffer(state, text)], objects)
         /\ UNCHANGED <<opens, closed>>
    ELSE Stop("wild")

\* malloc took a negative size for a huge one and gave NULL: writing there crashes,
\* and a string without an address is the result when there was nothing to write.
AnswerNULL(a) == Stop("crashed") \/ Answer(a, NoString)

\* The texts of args are needed, up to their NULs.
WithTexts(args, Effect) ==
  IF \A v \in args : Readable(v) THEN Effect
  ELSE Stop(IF \E v \in args : IsNULL(v) THEN "crashed" ELSE "wild")

\* As many bytes of v are needed as its length says.  A buffer that was given away
\* again holds the text that is there now, with its NUL, and perhaps nothing more.
ByLength(v, Effect) ==
  \/ (IsNULL(v) \/ Readable(v)) /\ Effect
  \/ /\ ~IsNULL(v) /\ (Readable(v) => Len(v.text) > Len(TextAt(v)) + 1)
     /\ Stop("wild")

\* The contract of a text: not from recv, and not NULL.
Sound(v) == v.from # "recv" /\ ~IsNULL(v)

Init ==
  /\ heap = [p \in Buffers |-> NoBuffer]
  /\ objects = [p \in Addresses |-> NoObject]
  /\ opens = 0
  /\ regs = [r \in Regs |-> Null]
  /\ status = "running"
  /\ closed = {}
  /\ careful = TRUE

----------------------------------------------------------------------------
(* string.c and lib/string.c.                                              *)

\* As many bytes as the two lengths are asked for; both texts and a NUL are written.
BijouString_cat(a, to, from) ==
  /\ Len(TextAt(to)) + Len(TextAt(from)) <= MaxText
  /\ AnswerText(a, TextAt(to) \o TextAt(from), Len(to.text) + Len(from.text), "used", "malloc")

\* The contract: the size is not all of a buffer, which leaves room for the NUL.
StringCat(a, base, append) ==
  LET size == Len(base.text) + Len(append.text)
  IN  Calling(<<"string", "string">>, <<base, append>>,
        Sound(base) /\ Sound(append) /\ size + 1 <= Usable(size),
        WithTexts({base, append}, BijouString_cat(a, base, append)))

\* What strlen may find in a new buffer after strncpy to it, which fills up with NULs
\* what a shorter text leaves, and writes none after one that is as long.
Copies(text, length) ==
  IF Len(text) < length THEN {text} ELSE Unended(SubSeq(text, 1, length))

From(text, begin) == SubSeq(text, begin + 1, Len(text))

BijouString_substr(a, v, begin, length) ==
  IF length < 0 THEN Stop("crashed")
  ELSE WithTexts({v},
         IF begin \notin 0 .. Len(TextAt(v)) THEN Stop("wild")
         ELSE /\ Asked(length)
              /\ \E text \in Copies(From(TextAt(v), begin), length) :
                   AnswerText(a, text, length, "used", "malloc"))

\* Mutant: the index is an int, and a negative one is below every length.
OutOfRangeSigned(v, index) == index >= Len(v.text)

\* A negative index is a huge size_t.
OutOfRange(v, index) == index \notin 0 .. Len(v.text) - 1

\* The text is printed before the process ends over an index out of range.
CharAt(a, string, index) ==
  Calling(<<"string", "number">>, <<string, index>>,
    Sound(string) /\ Ends(1),
    IF OutOfRange(string, index.n)
      THEN Stop(IF IsNULL(string) \/ Readable(string) THEN "exit1" ELSE "wild")
      ELSE BijouString_substr(a, string, index.n, 1))

\* The contract: inside the text, and to its end or of a size that is sure to end.
Substr(a, string, begin, length) ==
  Calling(<<"string", "number", "number">>, <<string, begin, length>>,
    /\ Sound(string) /\ begin.n \in 0 .. Len(string.text) /\ length.n >= 0
    /\ length.n > Len(string.text) - begin.n \/ Ends(length.n),
    BijouString_substr(a, string, begin.n, length.n))

\* Mutant: the lengths are compared, and not the texts.
EqualLengths(part, v) == Len(part) = Len(v.text)

BijouString_equal(part, v) == Len(part) = Len(v.text) /\ part = TextAt(v)

\* The loop compares the part at every multiple of the length of what is searched,
\* until one is equal.  A part is as long as was asked for, so that what malloc left
\* may follow it: one that stands there may be missed, or have no end in its buffer.
\* With an empty search the loop stays at 0.
Search(a, string, search) ==
  LET size      == Len(TextAt(search))
      Places    == {i \in 0 .. Len(string) - 1 : i = 0 \/ (size # 0 /\ i % size = 0)}
      Parts(i)  == Copies(From(string, i), size)
      Missed(i) == \E part \in Parts(i) : LiesIn(part, size) /\ ~BijouString_equal(part, search)
  IN  \/ \E i \in Places :
           /\ \A j \in Places : j < i => Missed(j)
           /\ \E part \in Parts(i) :
                IF LiesIn(part, size)
                  THEN BijouString_equal(part, search) /\ Answer(a, Number(i))
                  ELSE Stop("wild")
      \/ /\ \A i \in Places : Missed(i)
         /\ IF size = 0 /\ Places # {} THEN Stop("spins") ELSE Answer(a, Number(-1))

IndexOf(a, string, search) ==
  Calling(<<"string", "string">>, <<string, search>>,
    Sound(string) /\ Sound(search) /\ search.text # <<>> /\ Ends(Len(search.text)),
    WithTexts({string, search},
      Asked(Len(TextAt(search))) /\ Search(a, TextAt(string), search)))

Length(a, string) ==
  Calling(<<"string">>, <<string>>,
    Sound(string),
    WithTexts({string}, Answer(a, Number(Len(TextAt(string))))))

----------------------------------------------------------------------------
(* lib/io.c.                                                               *)

\* The contract of a pointer: it is from the right function, and was not closed.
Opened(v, kind) == v.from = kind /\ v.n \notin closed

\* What it points to is what it is taken for, whichever opening made it.
At(v, kind, Effect) == IF objects[v.ptr].kind = kind THEN Effect ELSE Stop("wild")

\* The C library makes an object at an address where there is none.
Make(a, kind) ==
  /\ opens < MaxOpens
  /\ opens' = opens + 1
  /\ \E p \in Given({p \in Addresses : objects[p].kind = "nothing"}) :
       Store(a, Pointer(p, kind, opens'), heap, [objects EXCEPT ![p] = Object(kind, opens')])
  /\ UNCHANGED closed

\* Mutant: a file that does not open is a pointer all the same.
OpenFileUnchecked(a, filename, mode) ==
  Calling(<<"string", "string">>, <<filename, mode>>,
    Sound(filename) /\ Sound(mode),
    WithTexts({filename, mode}, Answer(a, Pointer(NULL, "stream", 0)) \/ Make(a, "stream")))

OpenFile(a, filename, mode) ==
  Calling(<<"string", "string">>, <<filename, mode>>,
    Sound(filename) /\ Sound(mode),
    WithTexts({filename, mode}, Answer(a, Null) \/ Make(a, "stream")))

fclose(a, file, v) ==
  /\ Store(a, v, heap, [objects EXCEPT ![file.ptr] = NoObject])
  /\ UNCHANGED opens

FileClose(a, file) ==
  Calling(<<"pointer">>, <<file>>,
    Opened(file, "stream"),
    At(file, "stream", fclose(a, file, Null) /\ closed' = closed \cup {file.n}))

\* Fewer bytes than asked for come in at the end of a file.
Incoming(size) == {[i \in 1 .. k |-> "b"] : k \in 0 .. Min({size, MaxFile})}

\* What is read into a buffer of size bytes is made a string.
ReadInto(a, size, state, from) ==
  /\ Asked(size)
  /\ \E content \in Incoming(size) : \E text \in Unended(content) :
       AnswerText(a, text, size, state, from)

\* Mutant: the buffer is freed before the string in it is returned, as in recv.
ReadTextAndFree(a, size) ==
  IF size < 0 THEN AnswerNULL(a) ELSE ReadInto(a, size, "freed", "malloc")

ReadText(a, size) ==
  IF size < 0 THEN AnswerNULL(a) ELSE ReadInto(a, size, "used", "malloc")

FileRead(a, file, size) ==
  Calling(<<"pointer", "number">>, <<file, size>>,
    Opened(file, "stream") /\ Ends(size.n),
    At(file, "stream", ReadText(a, size.n)))

FileWrite(a, file, string) ==
  Calling(<<"pointer", "string">>, <<file, string>>,
    Opened(file, "stream") /\ string.from # "recv",
    At(file, "stream",
       ByLength(string, \E written \in 0 .. Len(string.text) : Answer(a, Number(written)))))

\* The size of what cannot be sought in, a pipe, is -1.
FileSlurp(a, file) ==
  \E size \in -1 .. MaxFile :
    Calling(<<"pointer">>, <<file>>,
      Opened(file, "stream") /\ Ends(size),
      At(file, "stream", ReadText(a, size)))

\* Mutant: the stream is closed.
FileFlushCloses(a, file) ==
  Calling(<<"pointer">>, <<file>>,
    Opened(file, "stream"),
    At(file, "stream", fclose(a, file, Number(0)) /\ UNCHANGED closed))

FileFlush(a, file) ==
  Calling(<<"pointer">>, <<file>>,
    Opened(file, "stream"),
    At(file, "stream", \E error \in {0, -1} : Answer(a, Number(error))))

----------------------------------------------------------------------------
(* lib/net.c.  What the system refuses ends the process.                   *)

Refused == Stop("exit1")

Getaddrinfo(a, node, port) ==
  Calling(<<"string", "string">>, <<node, port>>,
    Sound(node) /\ Sound(port),
    IF \A v \in {node, port} : IsNULL(v) \/ Readable(v)
      THEN Refused \/ Make(a, "info")
      ELSE Stop("wild"))

Socket(a, info) ==
  Calling(<<"pointer">>, <<info>>,
    Opened(info, "info"),
    At(info, "info", Refused \/ \E sock \in Numbers \cap Nat : Answer(a, Number(sock))))

\* info is read from the first argument, which is the number of the socket.
Bind(a, sock, info) ==
  Calling(<<"number", "pointer">>, <<sock, info>>, FALSE, Stop("wild"))

Connect(a, sock, info) ==
  Calling(<<"number", "pointer">>, <<sock, info>>,
    Opened(info, "info"),
    At(info, "info", Refused \/ Answer(a, Number(0))))

\* The backlog is the address of the argument; the system takes any.
Listen(a, sock, backlog) ==
  Calling(<<"number", "number">>, <<sock, backlog>>, TRUE,
    Refused \/ Answer(a, Number(0)))

Send(a, sock, message) ==
  Calling(<<"number", "string">>, <<sock, message>>,
    message.from # "recv",
    ByLength(message,
      Refused \/ \E sent \in 0 .. Len(message.text) : Answer(a, Number(sent))))

\* The string that is returned is in the buffer that was freed.
Recv(a, sock, size) ==
  Calling(<<"number", "number">>, <<sock, size>>,
    Ends(size.n),
    \/ Refused
    \/ size.n < 0 /\ Answer(a, NoString)
    \/ size.n >= 0 /\ ReadInto(a, size.n, "freed", "recv"))

----------------------------------------------------------------------------
(* The program.                                                            *)

Types == {"string", "number", "pointer"}

\* SHOULD_BE: every function ends the process over an argument of another type.
Misuse(x) ==
  /\ \E type \in Types : x.tt # type
  /\ Stop("exit1")
  /\ UNCHANGED careful

\* The two texts of open_file and of getaddrinfo are treated alike: one varies.
Some == Constant(CHOOSE t \in Texts : t # <<>>)

OnString(a, x)  == \/ Length(a, x)
                   \/ OpenFile(a, x, Some) \/ OpenFile(a, Some, x)
                   \/ Getaddrinfo(a, x, Some) \/ Getaddrinfo(a, Some, x)
OnPointer(a, x) == FileClose(a, x) \/ FileSlurp(a, x) \/ FileFlush(a, x) \/ Socket(a, x)

OnStrings(a, x, y)      == StringCat(a, x, y) \/ IndexOf(a, x, y)
OnStringNumber(a, x, y) == CharAt(a, x, y) \/ \E n \in Numbers : Substr(a, x, y, Number(n))
OnPointerAnd(a, x, y)   == FileRead(a, x, y) \/ FileWrite(a, x, y)
OnNumberAnd(a, x, y)    == Bind(a, x, y) \/ Connect(a, x, y) \/ Listen(a, x, y)
                             \/ Send(a, x, y) \/ Recv(a, x, y)

AnySocket == Number(0)  \* which one it is makes no difference

Of(type) == {v \in Arguments : v.tt = type}

Running ==
  /\ status = "running"
  /\ \/ \E x \in Arguments : Misuse(x)
     \/ \E a \in Regs :
          \/ \E x \in Of("string") :
               \/ OnString(a, x)
               \/ \E y \in Of("string") : OnStrings(a, x, y)
               \/ \E y \in Of("number") : OnStringNumber(a, x, y)
          \/ \E x \in Of("pointer") : OnPointer(a, x) \/ \E y \in Arguments : OnPointerAnd(a, x, y)
          \/ \E y \in Arguments : OnNumberAnd(a, AnySocket, y)

Over == status # "running" /\ UNCHANGED vars

Next == Running \/ Over

Spec == Init /\ [][Next]_vars

----------------------------------------------------------------------------
(* Properties.                                                             *)

Kinds == {"nothing", "stream", "info"}

\* Every variable has its type; there are no more objects than were made, and every
\* text ends in a buffer of a size that was asked for.
TypeOK ==
  /\ \A p \in Buffers :
       \/ heap[p] = NoBuffer
       \/ /\ heap[p].state \in {"used", "freed"}
          /\ \E size \in 0 .. MaxAsked : LiesIn(heap[p].text, size)
  /\ objects \in [Addresses -> [kind : Kinds, opening : 0 .. opens]]
  /\ opens \in 0 .. MaxOpens
  /\ \A r \in Regs :
       /\ regs[r].tt \in {"null", "number", "string", "pointer"}
       /\ regs[r].tt = "string" => regs[r].ptr \in Buffers \cup {NULL}
       /\ regs[r].tt = "pointer" => regs[r].ptr \in Addresses /\ regs[r].n \in 1 .. opens
  /\ status \in {"running", "exit1", "crashed", "wild", "spins"}
  /\ closed \subseteq 1 .. opens
  /\ careful \in BOOLEAN

Held(tt) == {regs[r] : r \in {r \in Regs : regs[r].tt = tt}}

\* A string of any function but recv keeps its memory and its text, whatever is
\* called in between (string.c:24-49, io.c:84-104).
StringsStay ==
  \A v \in Held("string") :
    v.ptr # NULL /\ v.from # "recv" =>
      heap[v.ptr] = Buffer("used", v.text)

\* An index that index_of returns is one at which the text does stand, although the
\* parts it compares go on with what malloc left (lib/string.c:103-110): of texts that
\* are not from recv, whose memory may hold another text by then.
StandsAt(text, search, i) ==
  /\ i + Len(search) <= Len(text)
  /\ SubSeq(text, i + 1, i + Len(search)) = search

IndexIsFound ==
  [][status' = "running" /\ careful' =>
       \A a \in Regs : regs'[a] # regs[a] /\ regs'[a].tt = "number" /\ regs'[a].n >= 0 =>
         \A x, y \in Held("string") \cup {Constant(t) : t \in Texts} :
           IndexOf(a, x, y) => StandsAt(x.text, y.text, regs'[a].n)]_vars

\* A pointer that a careful program has not closed points to what was opened for it,
\* although the addresses of closed streams are given again (io.c:60-76).
PointersKeepTheirStream ==
  \A v \in Held("pointer") :
    careful /\ v.n \notin closed => objects[v.ptr] = Object(v.from, v.n)

\* The contracts are enough: a program that keeps to them never makes a library
\* access memory that is not what it takes it for, strlen's of what it has just filled
\* included (string.c:15, :48), nor loop for ever.
CarefulNeverWild == careful => status \notin {"wild", "spins"}
=============================================================================
