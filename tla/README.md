# Bijou in TLA+

Bijou is a small register machine in the manner of Lua: `bijouc` assembles a
text into a bytecode file, `bijou` loads the file and interprets it. These
modules model the way of a program from its text to the interpreter, the
interpreter, its threads and its libraries; TLC checks them on small instances,
and TLAPS proves the safety properties of the interpreter, the threads, the
libraries, the reader, and of the way from assembler to loader, for every program.

Paths are relative to the repository; `src/vm.c` stands for the file of that
name in its directory `src`.

## Inventory

| component | state | operations | talks to |
|---|---|---|---|
| interpreter (`vm.c`, `func.c`, `bopcodes.h`) | per activation: block, pc, registers, `argc`, `argv`; per VM: globals | one case of the switch per opcode, `BijouFunction_call` | itself through `BijouFunction_call`; values; internal and external functions; shares globals with other threads |
| values (`value.c`, `number.c`, `string.c`, `bijou.h`) | none | arithmetic, order, equality, truth, texts of values | called by everything |
| internal functions, constants (`lib.c`, `const.c`) | `vm->functions`, `vm->constants`, filled once | `print` ... `rand_int` | called through `BijouFunction_call` |
| assembler (`bijouc.c`, `compiler.c`, `block.c`) | the blocks being compiled, the constant table of each, the output file | `compile_header`, `compile_code`, `compile_const`, `BijouBlock_push_*` | source reader, writer |
| source reader (`compiler.c`) | position in the text | `read_next`, `read_line`, `read_args`, `expect` | assembler |
| writer (`dump.c`) | position in the file, status of the last write | `DumpHeader`, `DumpFunction`, `DumpConstants`, `DumpString` | the file |
| loader (`load.c`, reader of `bijou.c`) | position in the file, the protos read so far | `LoadHeader`, `LoadFunction`, `LoadConstants`, `proto_to_block` | the file, blocks |
| driver (`bijou.c`) | options, the thread of the main function | load, start, join, tear down | loader, interpreter |
| threads (`lib/thread.c`) | the threads, a `call_struct` for each that begins | `thread_create`, `thread_join`, `thread_yield`, `sleep` | interpreters over one VM |
| strings (`lib/string.c`, `string.c`) | buffers that are never freed | `string_cat`, `char_at`, `index_of`, `substr`, `length` | called through `getexternal` |
| files (`lib/io.c`) | the streams behind pointer values | `open_file`, `file_close`, `file_read`, `file_write`, `file_slurp`, `file_flush` | the C library |
| network (`lib/net.c`) | the address infos behind pointer values, sockets as numbers | `getaddrinfo`, `socket`, `bind`, `connect`, `listen`, `send`, `recv` | the C library |
| debug, test (`lib/debug.c`, `lib/test.c`) | none | printing | the VM |

What is hard in it:

* *Calls.* Arguments are not copied: the callee reads the registers of its
  caller through a pointer. Functions are values. An error ends the activation
  it occurs in and no other. Recursion is that of C.
* *Unchecked code.* Registers, constants and jumps are not checked, memory is
  not initialized, payloads are read whatever their tag says.
* *Two constant passes.* Equal constants are dropped when a function is compiled
  and once more when it is loaded, where the texts have been decoded and
  functions have become nulls. Operands are indexes into what remains.
* *A format without names, and a reader without an end.* Writer and loader
  agree on nothing but the order of the fields. Writes may fail unnoticed, and
  a file that ends early reads as 0xFF for ever.
* *Limits.* Bytes for counters, eight bits for an operand that needs nine, `<=`
  and `>` where `<` and `>=` are meant.
* *A reader that looks one character ahead of nothing.* `read_args` knows the
  end of a line only from the blank before it; comments are skipped by two
  different loops; no loop looks for the end of the file.
* *Threads.* They share globals, blocks and VM without a lock, a value is more
  than a machine word, handles go around in globals, and the main thread tears
  everything down when it is done.
* *Memory behind values.* Strings are an address and a length, and their NUL is
  not always written; pointers are addresses the C library gives again; `recv`
  frees what it returns.

What makes each component correct: the interpreter accesses nothing outside the
blocks of a program that keeps to its own blocks, keeps its activations a stack
with arguments that stand still, and ends every program that never jumps back;
the assembler, writer and loader hand the program over as it is written, or
refuse it; a text or a file that is not complete is refused; a line says what it
says whatever stands around it; threads run what they were made for and the main
one sees whole values and nothing taken down under it; a string keeps its text
and a pointer its stream for as long as a program may use them.

`PROJECT.json` lists the components with their status, and under "hazards" each
place where one of these things can go wrong.

## Modules

      Opcodes    Values
           \     /
            Program                  a loaded program
           /      \
      Interp      Source             a program as its assembly says it
      /    \      /     \
CallStack   |  Reader  Assembly      Threads      Library
                  |
              WholeText

module      instances                          proofs
Interp      MCInterp, MCInterpDocs, MCSamples  InterpProofs
Reader,
 WholeText  MCReader                           ReaderProofs
Assembly    MCAssembly                         AssemblyProofs, BytecodeProofs,
                                               CompilerProofs, RoundTripProofs
Threads     MCThreads                          ThreadsProofs
Library     MCLibrary                          LibraryProofs

**Opcodes** is the instruction word: a record of opcode and fields, cut to their
widths as the SETARG macros do.

**Values** has the tagged values and the operators on them. A payload the code
reads without having written it is why an operator yields a *set* of outcomes:
`CompareResults` of a string and a number is both truth values, since
`TValue_num_lt` leaves the result unwritten. `Junk` is what `malloc` leaves: any
tag over any payload. Numbers are a finite set of integers; a result outside
it, or a quotient or power, is represented by every number.

**Program** says what `proto_to_block2` leaves: the blocks, each naming its
children. It is the assumption `Interp` makes and what `Assembly` is shown to
deliver. **Source** says what the reader of `compiler.c` leaves: the settings,
the instructions and the constant lines of each function, and that the functions
are numbered in the order they begin (`InOrder`). It is what `Reader` is shown to
deliver and the assumption `Assembly` makes. So the three stages
compose by their interfaces: text, source, loaded program, run.

**Interp** is `bijou_interpret` and `BijouFunction_call`. `cur` holds the local
variables of the running activation, `callers` those of the suspended ones, in
the order they lie on the C stack. There is one action per opcode, except that
those that differ in one operator are together (`Arithmetic`, `Compare`), one
for a word that is no opcode and one for leaving the code. `status` tells how a
run ended: `returned`, `exit0` and `exit1` (the calls of exit), `crashed` (a
signal), `wild` (an access outside of registers, constants or code), `stray`
(a call through memory nothing wrote), `overrun` (memory no operand of the program
names was left: a buffer the machine makes too small, or a library's own) and
`away` (in a library function that does not come back). Of what follows these the
model says nothing. `MaxDepth` bounds the activations, as the C stack does.
Two constants stand for lengths: `FullNames` are the strings for which `malloc`
gives just the `5 + strlen` bytes `getexternal` asks for, one too few, and
`LongNums` the numbers whose `"%f"` is longer than the 20 bytes of
`TValue_to_string`. A call of a library function (`CallExternal`) stores any value
of its own, or ends in `exit1`, `crashed`, `overrun` or `away`; Library says when.

**CallStack** is the abstract specification of calls: activations with their
arguments, entered with as many as the function declares, arguments unchanged
while the activation lives, last in first out.

**Reader** is `read_char`, `read_next`, `read_line`, `read_args`, `expect` and the
loops of `compile_header`, `compile_code` and `compile_const` over them. A text is a
sequence of pieces: blank, newline, semicolon, quote, or a word, for that is all the
reader tells apart. `expect` compares as many characters as its mark has, so a word
that begins with a mark (`>HEAD.regs`) is two pieces, the mark and the rest. A line of
constants says its type with its first two characters (`Says`); the number behind may
come after blanks (`NumberIn`), and a line that begins with a quote is a null if `#`
follows (`Hashed`, the words that begin with it). A read is a function of the text and
the place (`ReadNext`, `ReadLine`, `Operand`): where its word begins and ends, where
the next read starts, or that it never comes back (`hangs`, `exhausted`). `pos` is the
place in the file, `wanted` which loop the compiler is in, `open` the recursion of
`compile_function`, `inst` the instruction whose operands are read. A writing has a
`rest`, what was cut off its text; no action looks at it.

**WholeText** puts two readings side by side, of a text and of the text it was cut
from, the second being `Reader` again (INSTANCE Reader WITH ...). The whole text is
text and rest; place, wants and what has been read are those of the cut one; a
reading that is given up stays, for the whole, where it was. Texts are cut between
pieces: a word that is cut in the middle is another word, and so another whole text.

**Assembly** is the pipeline behind it. `phase` runs from `start` over
`compiling`, `dumping`, `compiled` or `failed` (bijouc) to `loading`, `building`
and the end (bijou). `open` is the recursion of `compile_function`, `stack` that
of `LoadFunction`; `file` is the sequence of items written, an int, a char, a
text, and so on; an item that is missing reads as 0xFF bytes. Options other than
`-p` and `-d` have no state. `ChildRoom` is how many pointers the allocator has room
for where it was asked for a few bytes, and `CountSize` how many values the byte
`numchildren` has: the child after the last of them makes it 0, `realloc` gives
NULL, and the store behind that crashes (EndNested). `Cuts` lets bijouc be killed,
or its writes fail, at any item.

**Threads** is `lib/thread.c` and the part of `main` from the thread that
interprets to the end of the process. A thread is `starting` until it has read
its `call_struct`, then `running`, `joining`, `sleeping`, `leaving` (it has
returned and is in `pthread_exit`) and `ended`. A value has two words; `getglobal`
and `setglobal` copy them one at a time, in any order, so that other threads may
store in between. The teardown frees the VM, the globals, the blocks and the
libraries in the order of `main`, one a step; a thread that touches what is
freed ends the model with `dangling`. Of the interpreter it keeps the opcodes by
which threads see one another; the rest is Interp.

**Library** is the string, file and network functions, called in any order by a
program whose registers keep what they answer. A buffer is the text up to its first
NUL. `Unended` is what `strlen` may find where a function writes no NUL: the content
and what `malloc` left behind it (`Leftover` says how many bytes until one happens to
be NUL). A text and its NUL that do not lie in the buffer (`LiesIn`) are an access
outside it: the call that makes the string ends with `wild`, be it `strlen` that
leaves the buffer or the copy that fills it. `index_of` is its loop: the places it
looks at, at each one a part copied to a buffer of its own, which may be missed, or
leave its buffer, for what `malloc` left. Streams and address infos are made at
addresses where there is none at the moment. A string keeps the length it was made
with, and `file_write` and `send` read that many bytes (`ByLength`) whatever lies
there by then.

Two histories state the contract a program can be held to: `closed`, the streams
it has closed, and `careful`, that no call so far had a closed pointer, a pointer
to another kind, an index outside the text, an empty search, recv's string, a
concatenation that needs the last byte of its buffer, or a buffer to be filled up
without a NUL that may have none (`Ends`). Each function has its contract as an
argument of `Calling`. The last two are conditions on the allocator: that it rounds
the size up by more than it has left. A program cannot see that. A `file_slurp` of 24
bytes fills the 24 bytes glibc gives, and whether the byte behind them is NUL is luck:
the contract says what these functions depend on, not what a program can ensure.

The MC modules hold families of programs, texts and sources, the Proofs modules
the proofs.

## Runs

| run | instance | shows |
|---|---|---|
| MCInterp | up to two instructions from an alphabet of 55 and a return, with one child; a main function and a callee of up to three instructions that make, store, pass and call closures; and a `println`; depth 3 | TypeOK, CallChain, CheckedNeverWild, ImplementsCallStack, ForwardProgramsEnd |
| MCSamples | the six programs of `sample/` that stay inside their memory | SamplesReturnWhatTheySay |
| MCAssemblyTables | tables of up to three constants out of nine kinds; a count of children that wraps at three | ConstantsKept, CompleteIsLoaded |
| MCAssemblyCuts | four sources with nested functions and odd settings; every cut | TypeOK, InStep, CutNeverRuns, LoadedKeepsBlocks, CompleteIsLoaded |
| MCReader | 4957 texts: two lines of code or of constants with every kind of operand, blank, comment and line end, every setting, nested functions, words glued to marks and types, and each text cut after each piece | TypeOK, HandsOverInOrder, CutIsNeverRead, ReadToItsEnd, CutIsReadAsWhole, StyledIsRead, ReadingEnds |
| MCThreads | 13 main functions, 9 workers, 2 last functions, at most 3 threads, one global | TypeOK, OwnFunction, MainNeverDangles, MainIsNotInACircle, LoadsAreExact, ForwardMainEnds |
| MCLibrary | two registers, three buffers of three bytes, two addresses, two openings, texts, files and messages of at most two characters, `malloc` leaving nothing or one byte | TypeOK, StringsStay, PointersKeepTheirStream, CarefulNeverWild, IndexIsFound |
| Doc... | one family of programs, sources or texts each | a statement of a document or comment the code does not keep; see "findings" |

*Why the bounds are enough.* An instruction of the interpreter reads the running
activation, the one below it and the globals. Two instructions set up and use
any operand; the alphabet has for every opcode operands inside, at and past the
limit. Three instructions after a closure reach the calls of calls; with depth
3 there are callers of callers, and recursion meets the end of the stack. In a
table of constants it takes two entries to collide and a third to move. A cut
is tried after every item of the file, with functions two levels deep. What the
reader does at the end of a line depends on the piece before and after it, and
what it does to the next line shows in the second line. A thread interferes with
one other at a time, over one value of two words; a third thread makes a circle
of joins that leaves out the main one possible, and lets a `call_struct` be
written before an earlier one is read. Two registers let a library hold one
object while another takes its address; a third buffer keeps the one that was
freed apart. Apart from `ReadToItsEnd`, which is about the texts of the instance, every
invariant, and apart from liveness every property of the runs, is proved without
these bounds. A
buffer that is read into is asked for at most `MaxAsked` bytes, twice the longest text;
nothing a program of the instance can ask for is more. MCLibrary uses the symmetry of
registers, buffers and addresses, none of which the module or its properties tell apart.
Of three bytes one that is asked for ends whatever `malloc` left, and two may not: the
contract `Ends` is kept by some calls of the instance and broken by others. A byte
is too large to wrap in an instance, so that MCAssemblyTables has three values of
`numchildren` in place of 256; the proofs are for any number.

*What the properties mean.* `CheckedNeverWild` says which checks the machine may leave
out: if the operands of each block name its own registers and constants and its jumps
stay in it (`CheckedBlock`), no access is wild, although arguments are read from the
registers of another block. `CallChain` is why. It says nothing of the memory of
names, printed numbers and libraries, which is `overrun`. `ForwardProgramsEnd`
excludes the runs in which a library function never returns (`LibrariesReturn`), as
`index_of` with an empty search, `thread_join`, `recv` and the reads of a pipe may;
what is left is what the interpreter itself can promise. `CutNeverRuns` holds for a
reason nothing in the code states: after every place in the file an int follows, the
last one being the number of children of the last function, and a missing int is
negative. `ConstantsKept` needs `TidyConsts`: decoded texts distinct, nested functions
last. Without it the constants move and the operands do not. `StyledIsRead` is about
texts that keep a blank before the end of each line of code, as those of `sample/` do;
`CutIsNeverRead` is about all others as well: a text of which anything is missing,
even its last newline, is never taken for a program. `CutIsReadAsWhole` is why: as far
as a cut text is read it is read like the whole, although a comment, a quote or the
last word of a line may be what is cut. A reader that took the end of the file for the
end of a word or a line would finish a function the text does not finish.
`ReadToItsEnd` says that a text in the style of the samples is done only when all of
it is read, so that whoever stops earlier has not read a program. `HandsOverInOrder`
says that each nested function has the number its parent knows it by, though the
reader fixes that number in the middle of the parent. `LoadsAreExact` says which
globals need no lock: those the main function stores to only before it makes a thread,
and those it alone uses. Of a global on which threads race it says nothing: such a
load may be of a tag and of another value's payload. `MainNeverDangles` is about the
main function alone: a worker that outlives it does touch what was freed, and the
model shows it as `dangling`. `MainIsNotInACircle` rests on two facts far apart:
nobody has the handle of the first thread, and pthread_join takes one waiter for a
thread. The second is a service of glibc's; POSIX leaves a second join undefined, and
Bijou does not look at what pthread_join returns (JoinRefused). `StringsStay` and
`PointersKeepTheirStream` are why `CarefulNeverWild` is true, and why recv's strings
are excluded from it. What `CarefulNeverWild` shows of buffers that are filled is that
the contract is enough for every later call too: for the `strlen` of each function,
and for the lengths that were stored. `IndexIsFound` says that an index `index_of`
answers is one at which the text stands, although what it compares goes on with what
`malloc` left; the loop may miss a text, and does (lib/string.c:104 steps by the
length of the search).

*Where code and documents disagree* there is a run for each of these: a global
whose number is a late constant (DocLateGlobal); more nested functions than
`realloc` was asked room for (DocChildren); an operand that ends its line, after
which the words of the next line are taken for operands (DocLineEnd); a join of a
thread that was created, which follows the NULL `thread_call` exits with
(DocJoin); and texts that go on with what `malloc` left (DocLeftOver).

Others follow from the modules and have no run of their own.

* Interpreter: `return 0K` returns a register, since operand A has eight bits
  (ABC of Opcodes); `eq` of a function with itself is false (EqualResults); an
  internal function one past the last is called (CallFunction); `sample/debug.s`
  has no return and runs past its code; `loadk` never loads an internal constant
  although `bopcodes.h:145` says so (LoadK); every setlocal is refused (SetLocal);
  `sample/function.s` asks for one register and stores to its second.
* Assembler: `bijouc -d` writes no bytecode (EndMain); `.regs 256` asks for no
  register (Stored).
* Reader: an operand glued to a semicolon is dropped; a second semicolon at the
  start of a line of constants makes a line of the comment that is refused; a
  comment glued to a constant cuts its last digit; a comment that ends the file
  is skipped for ever.
* Libraries: `bind` takes the socket for the address info (Bind); `recv` returns
  a buffer it has freed (Recv).

*Deadlock* is checked in all runs; an ended program stutters (`Ended`, `Over`).

*Fairness.* In Interp, Reader and Assembly it is WF of `Step`: there is one thread
of control, it waits for nothing (the interpreter takes no lock and calls no
blocking function but those of the libraries, which are one step here: it returns, or
the run is `away`), and a scheduler that runs at all
lets it go on. The step between bijouc and bijou is somebody running bijou. In
Threads it is WF of each thread and of the driver, for each is a thread of the
system, which runs all that can run; a thread that joins another cannot until
that has ended. Library has no liveness and no fairness.

## Proofs

Everything here is proved for every value of the constants, from the assumptions
of the modules alone (`ProgramsAssumption`, `LibsAssumption`, `NumsAssumption`,
`ReaderAssumption`, `AssemblyAssumption`, `ThreadsAssumption`,
`LibraryAssumption`), which TLC evaluates on its instances. Two theorems, `ReaderTypes` and
`CutsAreNeverRead`, have a hypothesis of their own.

The assumptions chain: a loaded program satisfies what `ProgramsAssumption` asks
(`AssemblyTypes`), and what the reader hands over satisfies what `AssemblyAssumption`
asks, being a source (`ReaderTypes`) and in order (`ReaderNumbers`).

*Induction.* The induction theorems of the library take a predicate as a parameter,
which the provers cannot instantiate. `WFMin`, that a set without a least element is
empty, takes a set. `LeastElement` and `Induction` of BytecodeProofs are had from
it, and with them what the recursive functions of Assembly (`Concat`, `Pushed`) and
the searches of Reader (`First`) yield for every input.

**InterpProofs**: `TypeCorrect` (TypeOK), `CallChainHolds` (CallChain),
`CheckedProgramsStayInside` (CheckedNeverWild) and `CallsImplemented`
(ImplementsCallStack), for every set of programs, libraries, numbers and every
depth.

*The argument.* There are 22 actions and few shapes. Every step of the
interpreter is one of four (`StepShape`): a step inside the running activation,
which changes its pc and at most one register, or one global; a stop, which
changes the status; a return, which drops the running activation and stores one
value in the one below; an entry, which puts a new activation on top.
Each action is shown to have its shape once, and each invariant to be kept by
each shape once.

`CheckedNeverWild` is not inductive: nothing in it says that the pc is inside the
code, which is what makes the next access harmless. The strengthening
`StaysInside` adds that in a checked program the pc of every activation, the
suspended ones too, is inside its block. The argument array needs `CallChain`:
`argv + x` is a register of the caller because the caller waits in a call whose
operands were checked.

The refinement maps the stack of activations to the one of CallStack, where the
arguments are what `argv` points to at this moment. That they stand still while
the caller is suspended follows from the shapes: a local step writes registers
of the running activation only, and the arguments that lie in those registers
belong to a callee that does not exist yet.

**ThreadsProofs**: `ThreadsTypeCorrect` (TypeOK), `ThreadsRunTheirOwn`
(OwnFunction), `MainIsSafe` (MainNeverDangles), `MainNeverInACircle`
(MainIsNotInACircle) and `LoadsHold` (LoadsAreExact), for every program and any
number of threads, registers and globals.

*The argument.* A step moves one thread, or makes one, or is the driver's
(`Moves`, `Makes`, `Rests`, lemma `NextShape`). The properties need, beside the
types: that no value names the main function or the first thread (`Clean`), that
a thread that has not begun has nothing to show (`InPlace`), that the thread the
driver waits for is the first and nothing is taken down before it ends (`First`,
`TornDown`), who waits for whom and that no two wait for one (`Waits`), and, for
the loads, that the main function is past its early part once there is a thread
(`Past`), that nobody else is in a store to the global then (`Quiet`), and that
the words a thread has copied so far are still those of the global (`Agrees`).
The circle is a counting argument: in a circle each thread is waited for by one
of the circle, nobody waits for the first, so as many threads would wait for
fewer, each for one of its own (the pigeonhole theorem of FiniteSetTheorems).

**LibraryProofs**: `StringsHold` (StringsStay), `PointersHold`
(PointersKeepTheirStream), `ContractsSuffice` (CarefulNeverWild), `IndexHolds`
(IndexIsFound) and `LibraryTypes` (TypeOK), for any registers, buffers,
addresses, texts and numbers, any rounding of `malloc` and anything it leaves.

*The argument.* The properties are inductive only together, with the types of
values (`Typed`). Twenty functions have five shapes (`Shape`): the process ends,
and not wildly if the program was careful; a register gets a value that is no
address; a string in memory that was not in use; a pointer to an object where
there was none; or a stream is closed. That a careful call never ends wildly
follows from the two properties about memory: `SoundText` turns the contract of
a text into the memory being there and ended, `OpenedIsThere` the contract of a
pointer into the object being there. What is new in memory is one lemma
(`TextShape`): a string is in the heap only if it lies in the buffer asked for, and
a careful call asked for one in which it does, which for reads follows from `Ends`
(`ReadShape`) and for copies from it or from a text that is shorter than asked for
(`CopyShape`). The types need two more facts: that openings are counted without gaps
(`Counted`), and that every text lies in a buffer of some size that was asked for (`Fits`).
`IndexHolds` goes through the loop: the answer is the first place whose
part is equal (`SearchIs`); a part is the beginning of what stands there, of the length
of the search or shorter at the end, with what malloc left behind it (`PartIs`);
and one as long as the search and equal to it has nothing behind (`IndexOfIs`).

**AssemblyProofs**: `NoProgramIsMadeUp`, that for every source and every cut the
loader builds no program from items past the end of the file. The invariant says
that the number of children is the last thing that is read of a function
(`ChildrenLast`), and that whoever has read one is not past the end
(`NotPastEnd`), since a missing int is negative. It is the half of `CutNeverRuns`
that does not depend on what the file should hold.

**CompilerProofs**: `CompiledAsNested`, that what bijouc has compiled is what the
source says, and that the file is a beginning of what the writer makes of it.

*The argument.* A source numbers its functions in the order they begin; `LastIn[j]`
is the last that begins inside function j, and so the next child of a block begins
where the one before it ended (`Chained`). While functions are compiled `Nest`
says of each open one how far it is: the inner ones have begun, the outer ones wait at the
entry of the one inside. When one is closed it has all its children
(`Compiled`), which is what the writer and the loader walk over later. `Kept` is the
constants of a tidy function: after n entries the plain ones are at their places.
Neither says anything without the other parts: how far the parent has come is what
the number of the next child follows from.

**BytecodeProofs** says where each item stands: `FunctionsTo(j)` and
`ConstsTo(b, x)` are how many items the file holds before a function and before a
constant, and the item behind them is the one of that field.

**RoundTripProofs**: `ReadsAsWritten` (InStep), `OnlyWholeFilesRun` (CutNeverRuns),
`LoadedAsCompiled` (LoadedKeepsBlocks), `ConstantsArrive` (ConstantsKept) and
`AssemblyTypes` (TypeOK), for every source, every cut, and anything `malloc` or
unwritten fields hold.

*The argument.* None of the five is inductive. What ties the loader to the compiler is
a statement about places: `Place` says which item the loader is at, from what
it has read of the function on top of its stack, and `Matches` that what
it has read is what stood there in the blocks. With `LastIn` a function whose children
are not all loaded is followed by the next of them, so the recursion of the loader
meets the functions in the order of that of the writer. All of it holds only as
long as the loader is inside the file (`Faithful`); that it builds nothing once it is
past the end is `NoProgramIsMadeUp`, whose invariant is a part of `LoaderInv`. So a
built program has read all of the file, and all of the file is all of the
bytecode. The last two results go through the second table of constants: `PushAll`
drops nothing of a tidy function since decoded texts are distinct and the nulls of nested
functions come last.

**ReaderProofs**: `ReaderNumbers` (HandsOverInOrder), `ReaderTypes` (TypeOK),
`CutsAreReadAsWhole` (CutIsReadAsWhole) and `CutsAreNeverRead` (CutIsNeverRead), for
every set of texts.

*The argument.* The functions being read are a path inwards (`PathInwards`): each is
the last entry of the one around it, so all functions begun so far lie inside all of
them, and the count of functions is the number of the next (`Numbered`). When a
function ends it takes nothing with it, for the last function inside the one around
it stays the last function there is. `NestedOnce` is needed because a parent whose entry is
appended must not be somebody else's child, nor change the number of one. This holds
whatever the words of a text mean. `ReaderTypes` has a hypothesis, `JoinsAreStrings`:
`Strings` holds the texts that joining pieces makes. The set of all texts satisfies it,
which is what the program has; a finite set does not, and the instance lists only
the joins its own texts lead to. In the order of the cases of
`ReadNext` two guards used to overlap, TLC taking the first; the proof asked for
them to be exclusive, and they are now.

*The argument for cut texts.* `CutsAreReadAsWhole` is a refinement, shown action by
action. The reader goes by searches for the first place of a kind (a newline, the end of
a word, a quote that closes). What a search finds inside the text it finds at the
same place in the whole (`...Whole`), and what it does not find it finds no earlier
(`NewlineLate`, `BrokenAtLate`); so a word or line that ends in the text is the
same in both, and one that does not leaves the cut reading hanging, which for the
whole is a stutter. A function ends with a word that is read, so no step but these
remains. `CutsAreNeverRead` has the hypothesis that the whole texts are read
to their end (`Whole!Safe => []Whole!ReadToItsEnd`): what is done with the cut text
would be done with the whole one, at a place inside it, which contradicts this.
The hypothesis is about texts, not about cutting: a text may well go on
after its main function has ended, and then a cut behind that loses nothing. That
the texts of the instance do not is what `ReadToItsEnd` checks.

*Model-checked only.* Liveness (`ForwardProgramsEnd`, `CompleteIsLoaded`,
`SamplesReturnWhatTheySay`, `StyledIsRead`, `ReadingEnds`, `ForwardMainEnds`), which
the prover does not do under fairness; and `ReadToItsEnd`, which is about the
texts of the instance: to the reader a text is any sequence of pieces, and that one is
in the style of the samples is known only to the module that wrote it.

## Plan

1. (done) Opcodes, Values, Interp, CallStack with their runs; proofs.
2. (done) Assembly with the cut and table runs; the loader's theorem.
3. (done) Source and Reader.
4. (done) Threads and its proofs.
5. (done) Library and its proofs.
6. (left) An abstract specification of the whole pipeline, from text to run (a
   program is delivered whole or refused), with Reader, Assembly and Interp as one
   system that implements it. The interfaces Source and Program are its seams.
7. (done) Proofs of the way through compiler, file and loader, of the reader and of
   the types of all components.
8. (done) WholeText, and the proofs that a cut text is read like the whole and is
   never taken for a program.

## Not modelled

* What a program cannot tell apart: the layout of the allocator, so that the byte
  `read_next` and `read_line` write past their buffers when a word has a certain
  length is no more than a hazard in the list.
* Printing: `lib/debug.c`, `lib/test.c`, `BijouBlock_dump`, `-d`, `-v` and `-h` of
  bijou, the texts `TValue_to_string` makes. They change no state.
* The mathematics of `sin` and its like: any number.
* Garbage collection: the default build has none, memory is never reused while a
  value refers to it.
* `kvec.h`, vendored, whose vectors are sequences here.

What `strcpy` does to overlapping texts in DumpString is taken to be the copy from
left to right.
