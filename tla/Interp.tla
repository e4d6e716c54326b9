------------------------------- MODULE Interp -------------------------------
(***************************************************************************)
(* The interpreter of the Bijou virtual machine: bijou_interpret (vm.c),   *)
(* which runs one activation of a block, and BijouFunction_call (func.c),  *)
(* through which it calls itself.  One thread of the program is modelled.  *)
(*                                                                         *)
(* cur is the activation that runs, that is the local variables of the     *)
(* innermost bijou_interpret, and callers holds the ones below it on the C *)
(* stack, each waiting in its call instruction.  Arguments are not copied: *)
(* argv is where they start in the registers of the caller.                *)
(*                                                                         *)
(* The machine checks little of the code it runs.  An access outside the   *)
(* registers, the constants or the code reads memory that holds something  *)
(* else; the model stops there with status "wild", or "stray" when it      *)
(* calls through a pointer nothing wrote, and says nothing of what follows.*)
(* Nor does it follow a run into a library: the function may return or end *)
(* the process, but also never come back ("away") or leave its own memory. *)
(* "overrun" is the end of a run that left memory the program has no say   *)
(* in: there, or in the buffers the machine makes for a name and a number. *)
(***************************************************************************)
EXTENDS Program, SequencesExt

CONSTANTS
  Programs,  \* the programs that may be loaded, sequences of blocks
  Libs,      \* the loaded libraries: the arity of each name they export
  FullNames, \* the strings for which malloc gives the 5 + strlen bytes asked, no more
  LongNums,  \* the numbers whose "%f" is longer than the 20 bytes asked for it
  MaxDepth   \* how many activations the C stack holds below the running one

VARIABLES
  prog,     \* the loaded program; its first block is the main function
  cur,      \* the running activation
  callers,  \* the suspended activations, the oldest first
  globals,  \* vm->globals
  status,   \* "running", or how the run ended
  result    \* what the main function returned

vars == <<prog, cur, callers, globals, status, result>>

ASSUME ProgramsAssumption == \A p \in Programs : IsProgram(p)

ASSUME LibsAssumption ==
  /\ \A l \in DOMAIN Libs : \A name \in DOMAIN Libs[l] :
       name \in Strings /\ Libs[l][name] \in Int
  /\ FullNames \subseteq Strings \ {""} /\ LongNums \subseteq Nums
  /\ MaxDepth \in Nat

Status ==
  {"running", "returned", "exit0", "exit1", "crashed", "wild", "stray",
   "overrun", "away"}

----------------------------------------------------------------------------
(* What the running activation sees.                                       *)

Registers(f) == 0 .. prog[f.block].regc - 1
CallOf(f)    == prog[f.block].code[f.pc + 1]

Blk == prog[cur.block]
I   == Blk.code[cur.pc + 1]

InRegisters(x) == x \in Registers(cur)
InConsts(x)    == x \in 0 .. Len(Blk.k) - 1
K(x)           == Blk.k[x + 1]

InRK(x) == IF ISK(x) THEN InConsts(INDEXRK(x)) ELSE InRegisters(x)
RK(x)   == IF ISK(x) THEN K(INDEXRK(x)) ELSE cur.R[x]

NumGlobals == prog[1].numglobal

\* The caller's registers that argv points into, and its element x.
ArgInRegisters(x) == cur.argv + x \in Registers(Last(callers))
Arg(x)            == Last(callers).R[cur.argv + x]

Executing(ops) ==
  /\ status = "running"
  /\ cur.pc \in 0 .. Len(Blk.code) - 1
  /\ I.op \in ops

----------------------------------------------------------------------------
(* The ways an instruction ends.                                           *)

\* The process ends, or is no longer the one the model describes.
Stop(s) ==
  /\ status' = s
  /\ UNCHANGED <<prog, cur, callers, globals, result>>

Goto(pc) ==
  /\ cur' = [cur EXCEPT !.pc = pc]
  /\ UNCHANGED <<prog, callers, globals, status, result>>

Dispatch == Goto(cur.pc + 1)

\* R[A] = v, for one of the values the right-hand side can have.
Store(values) ==
  IF InRegisters(I.a)
    THEN /\ \E v \in values :
              cur' = [cur EXCEPT !.R = [@ EXCEPT ![I.a] = v], !.pc = @ + 1]
         /\ UNCHANGED <<prog, callers, globals, status, result>>
    ELSE Stop("wild")

\* return v: the caller stores it in its R[A] and dispatches.  The macro EXIT
\* is Leave(None): an error ends the activation it occurs in and no other.
Leave(v) ==
  IF callers = <<>>
    THEN /\ status' = "returned"
         /\ result' = v
         /\ UNCHANGED <<prog, cur, callers, globals>>
    ELSE LET f == Last(callers)
             a == CallOf(f).a
         IN  IF a \in Registers(f)
               THEN /\ cur' = [f EXCEPT !.R = [@ EXCEPT ![a] = v], !.pc = @ + 1]
                    /\ callers' = Front(callers)
                    /\ UNCHANGED <<prog, globals, status, result>>
               ELSE Stop("wild")

\* Mutant: one register more than the block asks for.
ActivationOneMore(p, b, argc, argv) ==
  [block |-> b, pc |-> 0, R |-> [x \in 0 .. p[b].regc |-> Junk],
   argc |-> argc, argv |-> argv]

\* bijou_interpret starts: malloc gives it registers nothing was stored in.
Activation(p, b, argc, argv) ==
  [block |-> b, pc |-> 0, R |-> [x \in 0 .. p[b].regc - 1 |-> Junk],
   argc |-> argc, argv |-> argv]

Init ==
  /\ prog \in Programs
  /\ cur = Activation(prog, 1, 0, 0)
  /\ callers = <<>>
  /\ globals = [x \in 0 .. prog[1].numglobal - 1 |-> Junk]
  /\ status = "running"
  /\ result = None

----------------------------------------------------------------------------
(* The instructions.                                                       *)

Nop == Executing({"nop"}) /\ Dispatch

Move ==
  /\ Executing({"move"})
  /\ IF InRegisters(I.b) THEN Store({cur.R[I.b]}) ELSE Stop("wild")

LoadK ==
  /\ Executing({"loadk"})
  /\ IF InConsts(Bx(I)) THEN Store({K(Bx(I))}) ELSE Stop("wild")

LoadBool == Executing({"loadbool"}) /\ Store({Boolean(I.b # 0)})

LoadNull == Executing({"loadnull"}) /\ Store({Null})

\* Both compare the index of the CONSTANT with the number of globals before
\* they look at the number it holds.
GlobalIndex == Payload(K(Bx(I)))
NamesGlobal == /\ Tag(K(Bx(I))) = "number"
               /\ GlobalIndex \in 0 .. NumGlobals - 1

GlobalAccess(Effect) ==
  \/ Bx(I) >= NumGlobals /\ Leave(None)
  \/ Bx(I) < NumGlobals /\ ~InConsts(Bx(I)) /\ Stop("wild")
  \/ /\ Bx(I) < NumGlobals /\ InConsts(Bx(I))
     /\ IF NamesGlobal THEN Effect ELSE Leave(None)

GetGlobal ==
  /\ Executing({"getglobal"})
  /\ GlobalAccess(Store({globals[GlobalIndex]}))

SetGlobal ==
  /\ Executing({"setglobal"})
  /\ GlobalAccess(
       IF InRegisters(I.a)
         THEN /\ globals' = [globals EXCEPT ![GlobalIndex] = cur.R[I.a]]
              /\ cur' = [cur EXCEPT !.pc = @ + 1]
              /\ UNCHANGED <<prog, callers, status, result>>
         ELSE Stop("wild"))

\* No block has a local, so every index is refused: getlocal compares the
\* index of the constant with their number, setlocal the number it holds.
GetLocal == Executing({"getlocal"}) /\ Leave(None)

SetLocal ==
  /\ Executing({"setlocal"})
  /\ Leave(None)

GetArg ==
  /\ Executing({"getarg"})
  /\ \/ Bx(I) >= cur.argc /\ Leave(None)
     \/ /\ Bx(I) < cur.argc
        /\ IF ArgInRegisters(Bx(I)) THEN Store({Arg(Bx(I))}) ELSE Stop("wild")

Exporters(name) == {l \in DOMAIN Libs : name \in DOMAIN Libs[l]}

\* The name is looked for in the libraries in the order they were linked.  An
\* empty one has no address to take the length of; "func_" and another one need
\* a byte more than is asked for them.
LookUp(name) ==
  \/ name = "" /\ Stop("crashed")
  \/ name \in FullNames /\ Stop("overrun")
  \/ /\ name \notin FullNames \cup {""} /\ Exporters(name) # {}
     /\ Store({Function(<<"external", name>>)})
  \/ /\ name \notin FullNames \cup {""} /\ Exporters(name) = {}
     /\ Stop("exit1")

GetExternal ==
  /\ Executing({"getexternal"})
  /\ \/ ~InConsts(I.b) /\ Stop("wild")
     \/ /\ InConsts(I.b)
        /\ IF Tag(K(I.b)) = "string" /\ Libs # <<>>
             THEN LookUp(Payload(K(I.b)))
             ELSE Stop("exit1")

\* A result that is None leaves R[A] as it was.
StoreUnlessNone(values) ==
  \/ None \in values /\ Dispatch
  \/ \E v \in values \ {None} : Store({v})

Arithmetic ==
  /\ Executing(ArithOps)
  /\ IF InRK(I.b) /\ InRK(I.c)
       THEN \/ StoreUnlessNone(ArithResults(I.op, RK(I.b), RK(I.c)))
            \/ ArithMayTrap(I.op, RK(I.b), RK(I.c)) /\ Stop("crashed")
       ELSE Stop("wild")

Unm ==
  /\ Executing({"unm"})
  /\ IF InRK(I.b) THEN StoreUnlessNone(UnmResults(RK(I.b))) ELSE Stop("wild")

Not ==
  /\ Executing({"not"})
  /\ IF InRK(I.b) THEN Store({Boolean(~b) : b \in BoolReadings(RK(I.b))})
                  ELSE Stop("wild")

\* Mutant: the pc is moved by two before the dispatch moves it.
SkipTwoIf(b) == Goto(cur.pc + IF b THEN 3 ELSE 1)

\* ++pc before the dispatch: the next instruction is skipped.
SkipNextIf(b) == Goto(cur.pc + IF b THEN 2 ELSE 1)

Eq ==
  /\ Executing({"eq"})
  /\ IF InRK(I.a) /\ InRK(I.b)
       THEN \/ \E b \in EqualResults(RK(I.a), RK(I.b)) : SkipNextIf(b)
            \/ EqualMayTrap(RK(I.a), RK(I.b)) /\ Stop("crashed")
       ELSE Stop("wild")

Compare ==
  /\ Executing(CompareOps)
  /\ IF InRK(I.a) /\ InRK(I.b)
       THEN \E b \in CompareResults(I.op, RK(I.a), RK(I.b)) : SkipNextIf(b)
       ELSE Stop("wild")

\* Mutant: the dispatch after a jump is forgotten.
JmpNoDispatch == Executing({"jmp"}) /\ Goto(cur.pc + sBx(I))

Jmp == Executing({"jmp"}) /\ Goto(cur.pc + sBx(I) + 1)

Return ==
  /\ Executing({"return"})
  /\ IF InRK(I.a) THEN Leave(RK(I.a)) ELSE Stop("wild")

\* A closure is made of a function of the VM or of a child of the block.  The
\* tests are "index > size": the element past the end passes them.  Past the
\* end of the children it is dereferenced at once.
Closure ==
  /\ Executing({"closure"})
  /\ IF ISK(Bx(I))
       THEN LET x == INDEXRK(Bx(I))  n == Len(InternalArity)
            IN  CASE x > n -> Stop("exit1")
                  [] x = n -> Store({Function(Stray)})
                  [] x < n -> Store({Function(<<"internal", x>>)})
       ELSE LET x == Bx(I)  n == Len(Blk.children)
            IN  CASE x > n -> Stop("exit1")
                  [] x = n -> Stop("wild")
                  [] x < n -> Store({Function(<<"block", Blk.children[x + 1]>>)})

----------------------------------------------------------------------------
(* Calls.                                                                  *)

Arity(f) ==
  CASE f[1] = "block"    -> prog[f[2]].argc
    [] f[1] = "internal" -> InternalArity[f[2] + 1]
    [] f[1] = "external" -> Libs[Min(Exporters(f[2]))][f[2]]

Args == {I.b + x : x \in 1 .. I.c}

\* Mutant: the arguments start at the function.
EnterAtFunction(b) ==
  IF Len(callers) < MaxDepth
    THEN /\ callers' = Append(callers, cur)
         /\ cur' = Activation(prog, b, I.c, I.b)
         /\ UNCHANGED <<prog, globals, status, result>>
    ELSE Stop("crashed")

\* A block runs in an activation of its own, on top of the running one.
Enter(b) ==
  IF Len(callers) < MaxDepth
    THEN /\ callers' = Append(callers, cur)
         /\ cur' = Activation(prog, b, I.c, I.b + 1)
         /\ UNCHANGED <<prog, globals, status, result>>
    ELSE Stop("crashed")

\* A number is printed from a buffer of 20 bytes.
TooLong(v) == v \in {"number"} \X LongNums

Given == {cur.R[r] : r \in Args}

\* The functions of lib.c.  Those of a number read one whatever they are given;
\* those that print follow the address in an argument nothing was stored in, or
\* take it for a number.
CallInternal(x) ==
  \/ ~(Args \subseteq Registers(cur)) /\ Stop("wild")
  \/ /\ Args \subseteq Registers(cur)
     /\ \/ x \notin Printers /\ Store(AnyNumber)
        \/ x \in Printers /\ (\A v \in Given : ~TooLong(v)) /\ Store({Null})
        \/ x \in Printers /\ Junk \in Given /\ Stop("crashed")
        \/ /\ x \in Printers /\ (\E v \in Given : v = Junk \/ TooLong(v))
           /\ Stop("overrun")

\* A function of a library returns a value of its own.  Or it never returns
\* (the index of an empty string, a join, an empty pipe), calls exit(1) over an
\* argument it does not like, or leaves the memory it was given, at once or
\* through a string without a NUL; Library says when.
LibValue == PlainValue \ {Junk}

CallExternal ==
  \/ ~(Args \subseteq Registers(cur)) /\ Stop("wild")
  \/ /\ Args \subseteq Registers(cur)
     /\ \/ Store(LibValue)
        \/ \E s \in {"away", "exit1", "crashed", "overrun"} : Stop(s)

\* Mutant: a function is called whatever number of arguments it takes.
CallAnyArity(f) ==
  CASE f = Stray         -> Stop("stray")
    [] f[1] = "block"    -> Enter(f[2])
    [] f[1] = "internal" -> CallInternal(f[2])
    [] f[1] = "external" -> CallExternal

CallFunction(f) ==
  CASE f = Stray                              -> Stop("stray")
    [] f # Stray /\ Arity(f) \notin {-1, I.c} -> Stop("exit0")
    [] f # Stray /\ Arity(f) \in {-1, I.c}    ->
         CASE f[1] = "block"    -> Enter(f[2])
           [] f[1] = "internal" -> CallInternal(f[2])
           [] f[1] = "external" -> CallExternal

Call ==
  /\ Executing({"call"})
  /\ \/ ~InRegisters(I.b) /\ Stop("wild")
     \/ /\ InRegisters(I.b)
        /\ \/ Tag(cur.R[I.b]) # "function" /\ Stop("exit1")
           \/ cur.R[I.b] = Junk /\ Stop("stray")
           \/ /\ Tag(cur.R[I.b]) = "function"
              /\ CallFunction(Payload(cur.R[I.b]))

----------------------------------------------------------------------------
(* An instruction that is none, and the end of the code.                   *)

\* A word with no such opcode ends the activation.
Undefined == Executing({"undefined"}) /\ Leave(None)

\* The loop runs while pc <= code + size.  A pc past that ends the activation,
\* if the word it was fetched from could be read at all; one word after the
\* code, or any word before it, is executed.
RunOff ==
  /\ status = "running"
  /\ \/ /\ cur.pc > Len(Blk.code)
        /\ Leave(None) \/ Stop("crashed")
     \/ cur.pc \in Int \ (0 .. Len(Blk.code) - 1)
        /\ cur.pc <= Len(Blk.code)
        /\ Stop("wild")

Step ==
  \/ Nop \/ Move \/ LoadK \/ LoadBool \/ LoadNull
  \/ GetGlobal \/ SetGlobal \/ GetLocal \/ SetLocal \/ GetArg \/ GetExternal
  \/ Arithmetic \/ Unm \/ Not \/ Eq \/ Compare \/ Jmp
  \/ Call \/ Closure \/ Return \/ Undefined \/ RunOff

\* Once the program has ended nothing happens.
Ended == status # "running" /\ UNCHANGED vars

Next == Step \/ Ended

\* The thread that interprets the program is never kept from its next step.
Spec == Init /\ [][Next]_vars /\ WF_vars(Step)

----------------------------------------------------------------------------
(* Type correctness.                                                       *)

Value == ValueOver(1 .. Len(prog))

IsFrame(f) ==
  f \in [block : 1 .. Len(prog), pc : Int, R : [Registers(f) -> Value],
          argc : 0 .. 511, argv : 0 .. 512]

TypeOK ==
  /\ IsProgram(prog)
  /\ IsFrame(cur)
  /\ callers \in Seq(Range(callers))
  /\ \A f \in Range(callers) : IsFrame(f)
  /\ globals \in [0 .. NumGlobals - 1 -> Value]
  /\ status \in Status
  /\ result \in Value

----------------------------------------------------------------------------
(* Safety.                                                                 *)

Stack == Append(callers, cur)

\* Every suspended activation waits in the call that made the activation above
\* it: the callee is still in its R[B], the arguments are where argv says and
\* as many as the callee wants, and at the bottom is the main function, called
\* with none (bijou_interpret, OP_CALL, and BijouFunction_call).
WaitsFor(f, g) ==
  LET c == CallOf(f)
  IN  /\ f.pc \in 0 .. Len(prog[f.block].code) - 1
      /\ c.op = "call"
      /\ c.b \in Registers(f)
      /\ f.R[c.b] = Function(<<"block", g.block>>)
      /\ g.argv = c.b + 1 /\ g.argc = c.c
      /\ g.argc = prog[g.block].argc

CallChain ==
  /\ Stack[1].block = 1 /\ Stack[1].argc = 0
  /\ \A d \in 1 .. Len(callers) : WaitsFor(callers[d], Stack[d + 1])

(* What a program must keep to, as the machine does not check it.          *)

Successors(i, pc) ==
  CASE i.op = "jmp" -> {pc + sBx(i) + 1}
    [] i.op \in {"return", "getlocal", "setlocal", "undefined"} -> {}
    [] i.op \in CompareOps \cup {"eq"} -> {pc + 1, pc + 2}
    [] OTHER -> {pc + 1}

CheckedOperands(i, b) ==
  LET Register(x) == x < b.regc
      Const(x)    == x < Len(b.k)
      Operand(x)  == IF ISK(x) THEN Const(INDEXRK(x)) ELSE Register(x)
  IN  /\ i.op \notin {"nop", "getlocal", "setlocal", "jmp", "undefined"} =>
           Register(i.a)
      /\ i.op = "move" => Register(i.b)
      /\ i.op \in {"loadk", "getglobal", "setglobal"} => Const(Bx(i))
      /\ i.op = "getexternal" => Const(i.b)
      /\ i.op \in ArithOps \cup {"unm", "not", "eq"} \cup CompareOps => Operand(i.b)
      /\ i.op \in ArithOps => Operand(i.c)
      /\ i.op = "call" => Register(i.b + i.c)
      /\ i.op = "closure" => ISK(Bx(i)) \/ Bx(i) # Len(b.children)

CheckedBlock(b) ==
  /\ b.code # <<>>
  /\ \A x \in 1 .. Len(b.code) :
       /\ CheckedOperands(b.code[x], b)
       /\ Successors(b.code[x], x - 1) \subseteq 0 .. Len(b.code) - 1

Checked(p) == \A j \in 1 .. Len(p) : CheckedBlock(p[j])

\* A program whose operands and jumps stay inside its blocks makes the
\* interpreter access nothing outside them, however its functions are passed
\* around and called: bijou_interpret leaves out the checks of registers,
\* constants and code, but the argument array, which it indexes in the
\* registers of another activation, needs no check beyond that of getarg.
CheckedNeverWild == Checked(prog) => status # "wild"

----------------------------------------------------------------------------
(* The interpreter implements CallStack.  The abstract arguments are the   *)
(* caller's registers that argv points into, read at this moment.          *)

ArgumentsOf(g, f) ==
  [x \in 0 .. g.argc - 1 |->
     IF g.argv + x \in Registers(f) THEN f.R[g.argv + x] ELSE Junk]

ActivationsOf(stack) ==
  [d \in 1 .. Len(stack) |->
     [fn |-> stack[d].block, args |-> ArgumentsOf(stack[d], stack[d - 1])]]

Calls == INSTANCE CallStack WITH
  arity <- [b \in 1 .. Len(prog) |-> prog[b].argc],
  acts  <- IF status = "returned" THEN <<>> ELSE ActivationsOf(Stack),
  ended <- status \notin {"running", "returned"}

\* The arguments of a live activation never change although they are not
\* copied, every block is entered with the number of arguments it declares,
\* and activations end last in, first out (BijouFunction_call passing the
\* address of the caller's registers, OP_GETARG reading through it).
ImplementsCallStack == Calls!Spec

----------------------------------------------------------------------------
(* Liveness.                                                               *)

ForwardOnly(p) ==
  \A j \in 1 .. Len(p) : \A x \in 1 .. Len(p[j].code) :
    p[j].code[x].op = "jmp" => sBx(p[j].code[x]) >= 0

\* A program without backward jumps ends, however it recurses: a call either
\* goes deeper, where the C stack ends, or comes back to a later instruction.
\* Only a library function keeps it: index_of with an empty text to look for
\* (lib/string.c:104), thread_join, recv and reads of a pipe need not return.
LibrariesReturn == [](status # "away")

ForwardProgramsEnd ==
  ForwardOnly(prog) /\ LibrariesReturn => <>(status \notin {"running", "away"})

=============================================================================

