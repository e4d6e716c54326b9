------------------------------ MODULE Threads ------------------------------
(***************************************************************************)
(* The threads of a Bijou program (lib/thread.c), which interpret blocks   *)
(* at the same time over one set of globals, and the driver (bijou.c) that *)
(* starts the first of them, waits for it, and takes everything down.      *)
(*                                                                         *)
(* Of the interpreter this module keeps what threads can see of each       *)
(* other: loads and stores of globals, which copy a value word by word,    *)
(* closures, the calls of the thread library, jumps and the return.        *)
(* Module Interp has the rest.                                             *)
(*                                                                         *)
(* The model stops with status "stray" when a pointer that nothing wrote   *)
(* is followed, and with "dangling" when something that was taken down is  *)
(* touched; it says nothing of what follows.                               *)
(***************************************************************************)
EXTENDS Integers, Sequences, FiniteSets

CONSTANTS
  Programs,   \* the programs that may be loaded, sequences of functions
  Regs,       \* the registers of an activation
  Globals,    \* the indices of the globals
  MaxThreads  \* pthread_create fails when this many threads were made

VARIABLES
  prog,     \* the loaded program; its first function is the main function
  threads,  \* the state of each thread
  structs,  \* the call_structs allocated, in their order
  globals,  \* vm->globals
  phase,    \* where the driver is: "interpret", "teardown" or "gone"
  freed,    \* what the teardown has taken down
  status    \* "running", or how the process ended

vars == <<prog, threads, structs, globals, phase, freed, status>>

----------------------------------------------------------------------------
(* Programs and values.                                                    *)

ThreadIds == 1 .. MaxThreads
Main      == 1  \* the thread INTERPRET makes

Ops == {"loadk", "getglobal", "setglobal", "closure", "jmp", "return",
        "thread_create", "thread_join", "thread_yield", "sleep"}

\* a is the register written, or read by setglobal and return; x is the number,
\* the global, the function, the target, or the register of the argument.
IsInstruction(p, f, i) ==
  /\ i.op \in Ops
  /\ i.a \in Regs
  /\ i.x \in CASE i.op = "loadk" -> Nat
               [] i.op \in {"getglobal", "setglobal"} -> Globals
               [] i.op = "closure" -> DOMAIN p \ {1}
               [] i.op = "jmp" -> DOMAIN p[f].code
               [] OTHER -> Regs

IsFunction(p, f) ==
  /\ p[f].argc \in Nat
  /\ p[f].code \in Seq([op : Ops, a : Regs, x : Nat])
  /\ Len(p[f].code) > 0
  /\ p[f].code[Len(p[f].code)].op \in {"return", "jmp"}
  /\ \A pc \in DOMAIN p[f].code : IsInstruction(p, f, p[f].code[pc])

ASSUME ThreadsAssumption ==
  /\ MaxThreads \in Nat \ {0}
  /\ Regs \subseteq Nat
  /\ Globals \subseteq Nat
  /\ \A p \in Programs :
       /\ p \in Seq([argc : Nat, code : Seq([op : Ops, a : Regs, x : Nat])])
       /\ Len(p) > 0
       /\ \A f \in DOMAIN p : IsFunction(p, f)

\* A TValue is copied in more than one access.  The payload of the model tells
\* what it was written as; a torn value has the tag of another.
Words == {"value", "tt"}

Value(tag, n) == [value |-> <<tag, n>>, tt |-> tag]

Junk        == Value("junk", 0)
Null        == [value |-> <<"junk", 0>>, tt |-> "null"]
Number(n)   == Value("number", n)
Function(f) == Value("function", f)
Thread(t)   == Value("pointer", t)

Tags   == {"junk", "null", "number", "function", "pointer"}
TValue == [value : Tags \X Nat, tt : Tags]

\* A tag nothing wrote may happen to be the one that is asked for.
MayBe(v, tag)    == v.tt \in {tag, "junk"}
MayNotBe(v, tag) == v.tt # tag

----------------------------------------------------------------------------
(* What a thread sees.                                                     *)

Code(t)  == prog[threads[t].func].code
Inst(t)  == Code(t)[threads[t].pc]
Reg(t,r) == threads[t].R[r]

Created == {t \in ThreadIds : threads[t].state # "none"}
Ended   == {t \in ThreadIds : threads[t].state = "ended"}

\* cs is the struct thread_call is given, left what remains to be copied by the
\* instruction that runs, on the thread that is joined.  asked is a history: what
\* thread_create was called with.
Unused ==
  [state |-> "none", cs |-> 0, asked |-> Junk.value, func |-> 1, pc |-> 1,
   R |-> [r \in Regs |-> Junk], left |-> Words, on |-> 0]

\* What the next step of a thread touches of what the driver takes down.
Library == {"thread_create", "thread_join", "thread_yield", "sleep"}

Touches(t) ==
  CASE threads[t].state = "running" ->
         {"blocks"}
           \cup (IF Inst(t).op \in {"getglobal", "setglobal"} THEN {"globals", "vm"} ELSE {})
           \cup (IF Inst(t).op \in Library THEN {"libs"} ELSE {})
    [] threads[t].state \in {"starting", "joining", "sleeping"} -> {"libs"}
    [] threads[t].state = "leaving" -> IF t = Main THEN {} ELSE {"libs"}
    [] OTHER -> {}

Dangles(t) == Touches(t) \cap freed # {}

CanStep(t, state) ==
  /\ status = "running"
  /\ threads[t].state = state
  /\ ~Dangles(t)

Executing(t, op) ==
  /\ CanStep(t, "running")
  /\ Inst(t).op = op

Stop(s) ==
  /\ status' = s
  /\ UNCHANGED <<prog, threads, structs, globals, phase, freed>>

\* The thread writes R[a] and dispatches.
Answer(t, v) ==
  /\ threads' = [threads EXCEPT ![t].R[Inst(t).a] = v, ![t].pc = @ + 1,
                                ![t].state = "running", ![t].on = 0]
  /\ UNCHANGED <<prog, globals, phase, freed, status>>

Init ==
  /\ prog \in Programs
  /\ threads = [t \in ThreadIds |->
                  IF t = Main THEN [Unused EXCEPT !.state = "running"] ELSE Unused]
  /\ structs = <<>>
  /\ globals = [x \in Globals |-> Junk]
  /\ phase = "interpret"
  /\ freed = {}
  /\ status = "running"

----------------------------------------------------------------------------
(* The instructions that matter to other threads.                          *)

LoadK(t) ==
  /\ Executing(t, "loadk")
  /\ Answer(t, Number(Inst(t).x))
  /\ UNCHANGED structs

Closure(t) ==
  /\ Executing(t, "closure")
  /\ Answer(t, Function(Inst(t).x))
  /\ UNCHANGED structs

Jmp(t) ==
  /\ Executing(t, "jmp")
  /\ threads' = [threads EXCEPT ![t].pc = Inst(t).x]
  /\ UNCHANGED <<prog, structs, globals, phase, freed, status>>

\* Mutant: the copy ends after one word.
CopiedInPart(t, w, R) == [threads[t] EXCEPT !.R = R, !.pc = @ + 1]

\* Mutant: the next copy goes on where this one ended.
CopiedAndLeft(t, w, R) ==
  [threads[t] EXCEPT !.R = R, !.left = @ \ {w},
                     !.pc = IF threads[t].left = {w} THEN @ + 1 ELSE @]

\* One word of the value has been copied; after the last one the thread dispatches.
Copied(t, w, R) ==
  IF threads[t].left = {w}
    THEN [threads[t] EXCEPT !.R = R, !.left = Words, !.pc = @ + 1]
    ELSE [threads[t] EXCEPT !.R = R, !.left = @ \ {w}]

GetGlobal(t) ==
  /\ Executing(t, "getglobal")
  /\ \E w \in threads[t].left :
       threads' = [threads EXCEPT ![t] =
         Copied(t, w, [@.R EXCEPT ![Inst(t).a][w] = globals[Inst(t).x][w]])]
  /\ UNCHANGED <<prog, structs, globals, phase, freed, status>>

SetGlobal(t) ==
  /\ Executing(t, "setglobal")
  /\ \E w \in threads[t].left :
       /\ globals' = [globals EXCEPT ![Inst(t).x][w] = Reg(t, Inst(t).a)[w]]
       /\ threads' = [threads EXCEPT ![t] = Copied(t, w, @.R)]
  /\ UNCHANGED <<prog, structs, phase, freed, status>>

\* bijou_interpret returns to thread_call, or to thread_handle in the first thread.
Return(t) ==
  /\ Executing(t, "return")
  /\ threads' = [threads EXCEPT ![t].state = "leaving"]
  /\ UNCHANGED <<prog, structs, globals, phase, freed, status>>

----------------------------------------------------------------------------
(* The thread library.                                                     *)

\* Mutant: one call_struct for all threads, as if it were static.
FillShared(f) == <<f>>

\* cs = B_ALLOC(call_struct); cs->func = f: the struct of this call alone.
Fill(f) == Append(structs, f)

\* pthread_create takes the next thread, or fails and the process exits.
ThreadCreate(t) ==
  /\ Executing(t, "thread_create")
  /\ LET f == Reg(t, Inst(t).x)
     IN  \/ MayNotBe(f, "function") /\ Stop("exit1")
         \/ MayBe(f, "function") /\ Created = ThreadIds /\ Stop("exit1")
         \/ /\ MayBe(f, "function")
            /\ \E u \in ThreadIds \ Created :
                 /\ u - 1 \in Created
                 /\ structs' = Fill(f.value)
                 /\ threads' =
                      [threads EXCEPT
                         ![t].R[Inst(t).a] = Thread(u), ![t].pc = @ + 1,
                         ![u].state = "starting", ![u].cs = Len(structs'),
                         ![u].asked = f.value]
            /\ UNCHANGED <<prog, globals, phase, freed, status>>

\* thread_call reads the struct, then the function it points to, whose arity must
\* be that of a call without arguments.
ThreadCall(t) ==
  /\ CanStep(t, "starting")
  /\ LET f == structs[threads[t].cs]
     IN  \/ f \notin {"function"} \X DOMAIN prog /\ Stop("stray")
         \/ /\ f \in {"function"} \X DOMAIN prog
            /\ prog[f[2]].argc # 0
            /\ Stop("exit0")
         \/ /\ f \in {"function"} \X DOMAIN prog
            /\ prog[f[2]].argc = 0
            /\ threads' = [threads EXCEPT ![t].state = "running", ![t].func = f[2]]
            /\ UNCHANGED <<prog, structs, globals, phase, freed, status>>

\* pthread_exit(NULL), or the return of thread_handle with a value of its own.
ThreadExit(t) ==
  /\ CanStep(t, "leaving")
  /\ threads' = [threads EXCEPT ![t].state = "ended"]
  /\ UNCHANGED <<prog, structs, globals, phase, freed, status>>

\* Mutant: a join that waits whatever the others do.
JoinNeverRefused(t, u) == FALSE

\* The pthread_join of glibc returns at once when the thread is this one, waits
\* for this one, or is waited for already; POSIX leaves these undefined.  Bijou
\* does not look at what it returns: val was never written, and *val goes astray.
JoinRefused(t, u) ==
  \/ u = t
  \/ threads[u].state = "joining" /\ threads[u].on = t
  \/ \E v \in ThreadIds : threads[v].state = "joining" /\ threads[v].on = u

ThreadJoin(t) ==
  /\ Executing(t, "thread_join")
  /\ LET p == Reg(t, Inst(t).x)
     IN  \/ MayNotBe(p, "pointer") /\ Stop("exit1")
         \/ /\ MayBe(p, "pointer")
            /\ p.value \notin {"pointer"} \X Created
            /\ Stop("stray")
         \/ /\ MayBe(p, "pointer")
            /\ p.value \in {"pointer"} \X Created
            /\ IF JoinRefused(t, p.value[2])
                 THEN Stop("stray")
                 ELSE /\ threads' = [threads EXCEPT ![t].state = "joining",
                                                    ![t].on = p.value[2]]
                      /\ UNCHANGED <<prog, structs, globals, phase, freed, status>>

\* The thread ended with pthread_exit(NULL): *val follows a NULL pointer.
Joined(t) ==
  /\ CanStep(t, "joining")
  /\ threads[t].on \in Ended
  /\ Stop("crashed")

ThreadYield(t) ==
  /\ Executing(t, "thread_yield")
  /\ Answer(t, Null)
  /\ UNCHANGED structs

Sleep(t) ==
  /\ Executing(t, "sleep")
  /\ LET s == Reg(t, Inst(t).x)
     IN  \/ MayNotBe(s, "number") /\ Stop("exit1")
         \/ /\ MayBe(s, "number")
            /\ threads' = [threads EXCEPT ![t].state = "sleeping"]
            /\ UNCHANGED <<prog, structs, globals, phase, freed, status>>

\* The time is over, or the wait ends early; a timeout is no error to the code.
Wake(t) ==
  /\ CanStep(t, "sleeping")
  /\ Answer(t, Null)
  /\ UNCHANGED structs

\* The next access of the thread is to something that was taken down.
Dangle(t) ==
  /\ status = "running"
  /\ Dangles(t)
  /\ Stop("dangling")

ThreadStep(t) ==
  \/ LoadK(t) \/ Closure(t) \/ Jmp(t) \/ GetGlobal(t) \/ SetGlobal(t) \/ Return(t)
  \/ ThreadCreate(t) \/ ThreadCall(t) \/ ThreadExit(t)
  \/ ThreadJoin(t) \/ Joined(t) \/ ThreadYield(t) \/ Sleep(t) \/ Wake(t)
  \/ Dangle(t)

----------------------------------------------------------------------------
(* The driver.                                                             *)

\* Mutant: the driver does not join the thread it has made.
InterpretedAtOnce == threads[Main].state \in {"running", "leaving", "ended"}

\* Mutant: it waits for the threads of the program too.
InterpretedByAll == Created = Ended

\* pthread_join of the interpreting thread returns.
Interpreted == threads[Main].state = "ended"

\* INTERPRET is over and the result is printed.
FinishInterpret ==
  /\ status = "running"
  /\ phase = "interpret"
  /\ Interpreted
  /\ phase' = "teardown"
  /\ UNCHANGED <<prog, threads, structs, globals, freed, status>>

\* BijouVM_destroy, BijouBlock_destroy, Proto_destroy, in the order they free.
TeardownOrder == <<"functions", "libs", "globals", "vm", "blocks", "proto">>

Teardown ==
  /\ status = "running"
  /\ phase = "teardown"
  /\ \E i \in DOMAIN TeardownOrder :
       /\ freed = {TeardownOrder[j] : j \in 1 .. i - 1}
       /\ freed' = freed \cup {TeardownOrder[i]}
       /\ phase' = IF i = Len(TeardownOrder) THEN "gone" ELSE "teardown"
  /\ UNCHANGED <<prog, threads, structs, globals, status>>

\* main returns: the threads that are left end with the process.
ProcessEnd ==
  /\ status = "running"
  /\ phase = "gone"
  /\ Stop("returned")

DriverStep == FinishInterpret \/ Teardown \/ ProcessEnd

Over ==
  /\ status # "running"
  /\ UNCHANGED vars

Next == DriverStep \/ (\E t \in ThreadIds : ThreadStep(t)) \/ Over

\* The threads are scheduled by the system: each one that can step does.
Fairness ==
  /\ WF_vars(DriverStep)
  /\ \A t \in ThreadIds : WF_vars(ThreadStep(t))

Spec == Init /\ [][Next]_vars /\ Fairness

----------------------------------------------------------------------------
(* Properties.                                                             *)

ThreadState ==
  {"none", "starting", "running", "joining", "sleeping", "leaving", "ended"}

\* Every variable has its type; threads are created in their order, and a thread
\* that joins one waits for a thread that was created.
TypeOK ==
  /\ prog \in Programs
  /\ threads \in [ThreadIds ->
       [state : ThreadState, cs : 0 .. Len(structs), asked : Tags \X Nat,
        func : DOMAIN prog, pc : Nat, R : [Regs -> TValue],
        left : (SUBSET Words) \ {{}}, on : 0 .. MaxThreads]]
  /\ \A t \in Created :
       /\ threads[t].pc \in DOMAIN Code(t)
       /\ 1 .. t \subseteq Created
       /\ threads[t].state = "joining" => threads[t].on \in Created
  /\ structs \in Seq(Tags \X Nat)
  /\ globals \in [Globals -> TValue]
  /\ phase \in {"interpret", "teardown", "gone"}
  /\ freed \subseteq {TeardownOrder[i] : i \in DOMAIN TeardownOrder}
  /\ status \in {"running", "returned", "exit0", "exit1", "crashed", "stray", "dangling"}

\* A thread runs the function its creator named, however many threads are created
\* before it gets to read its call_struct (thread.c:62-72).
OwnFunction ==
  \A t \in Created \ {Main} :
    threads[t].state # "starting" => threads[t].asked = <<"function", threads[t].func>>

\* A global is published when only the main function stores to it, before it makes
\* a thread, and it never comes back to there; it is private when no other function
\* uses it at all.
Uses(f, x, ops) == \E i \in DOMAIN prog[f].code :
                     prog[f].code[i].op \in ops /\ prog[f].code[i].x = x

Early == {pc \in DOMAIN prog[Main].code :
            \A i \in 1 .. pc : prog[Main].code[i].op # "thread_create"}

Published(x) ==
  /\ \A f \in DOMAIN prog \ {1} : ~Uses(f, x, {"setglobal"})
  /\ \A pc \in DOMAIN prog[1].code \ Early :
       LET i == prog[1].code[pc]
       IN  /\ ~(i.op = "setglobal" /\ i.x = x)
           /\ ~(i.op = "jmp" /\ i.x \in Early)

Private(x) ==
  \A f \in DOMAIN prog \ {1} : ~Uses(f, x, {"getglobal", "setglobal"})

\* Without a lock (vm.c:206, 236), a global that is published or private is loaded
\* as it is: all of its words, from the last store to it.
LoadsAreExact ==
  [][\A t \in ThreadIds :
       (/\ Executing(t, "getglobal")
        /\ threads'[t].pc # threads[t].pc
        /\ Published(Inst(t).x) \/ Private(Inst(t).x))
       => threads'[t].R[Inst(t).a] = globals[Inst(t).x]]_vars

\* Nothing is taken down under the main function: what the driver frees is missed
\* only by threads that outlive it (bijou.c:162-171).
MainNeverDangles ==
  /\ freed # {} => threads[Main].state = "ended"
  /\ status = "dangling" => threads[Main].state = "ended"

\* The main function never waits in a circle: whoever it joins, and whoever that
\* thread joins, the last of them still runs.  pthread_join takes one waiter for
\* each thread, and nobody has the handle of the first (thread.c:163-164).
MainIsNotInACircle ==
  ~\E circle \in SUBSET Created :
     /\ Main \in circle
     /\ \A t \in circle : threads[t].state = "joining" /\ threads[t].on \in circle

\* A main function that goes forward, and joins nothing, ends the process whatever
\* its threads do: the driver waits for no other (bijou.c:162-171).
ForwardMain ==
  \A pc \in DOMAIN prog[1].code :
    LET i == prog[1].code[pc]
    IN  i.op # "thread_join" /\ (i.op = "jmp" => i.x > pc)

ForwardMainEnds == ForwardMain ~> status # "running"
=============================================================================
