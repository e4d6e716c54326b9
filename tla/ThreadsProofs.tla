--------------------------- MODULE ThreadsProofs ---------------------------
(***************************************************************************)
(* Theorems about Threads, for every program, every number of threads and  *)
(* every interleaving.                                                     *)
(***************************************************************************)
EXTENDS Threads, TLAPS, FiniteSetTheorems, SequenceTheorems

----------------------------------------------------------------------------
(* Types.                                                                  *)

\* No payload names the first thread, which has no handle, or the main function, of
\* which no closure is made.
Payloads   == (Tags \X Nat) \ {<<"function", 1>>, <<"pointer", Main>>}
CleanValue == [value : Payloads, tt : Tags]

ThreadRec ==
  [state : ThreadState, cs : Nat, asked : Payloads, func : DOMAIN prog, pc : Nat,
   R : [Regs -> CleanValue], left : (SUBSET Words) \ {{}}, on : 0 .. MaxThreads]

Clean ==
  /\ threads \in [ThreadIds -> ThreadRec]
  /\ structs \in Seq(Payloads)
  /\ globals \in [Globals -> CleanValue]

LEMMA ValueTypes ==
  /\ Junk \in CleanValue /\ Null \in CleanValue
  /\ \A n \in Nat : Number(n) \in CleanValue
  /\ \A n \in Nat \ {1} : Function(n) \in CleanValue /\ Thread(n) \in CleanValue
  /\ CleanValue \subseteq TValue
BY DEF CleanValue, TValue, Payloads, Tags, Value, Junk, Null, Number, Function, Thread, Main

LEMMA Naturals ==
  ASSUME TypeOK
  PROVE  /\ ThreadIds \subseteq Nat /\ Main \in ThreadIds
         /\ DOMAIN prog \subseteq Nat /\ 1 \in DOMAIN prog
         /\ 0 \in 0 .. MaxThreads /\ ThreadIds \subseteq 0 .. MaxThreads
<1>1. ThreadIds \subseteq Nat /\ Main \in ThreadIds /\ 0 \in 0 .. MaxThreads
      /\ ThreadIds \subseteq 0 .. MaxThreads
  BY ThreadsAssumption DEF ThreadIds, Main
<1>2. prog \in Seq([argc : Nat, code : Seq([op : Ops, a : Regs, x : Nat])]) /\ Len(prog) > 0
  BY ThreadsAssumption DEF TypeOK
<1>3. DOMAIN prog = 1 .. Len(prog) /\ Len(prog) \in Nat
  BY <1>2, LenProperties
<1> QED
  BY <1>1, <1>2, <1>3

\* What a created thread executes is an instruction of its function, and when it
\* is not the last one, neither a return nor a jump, another follows it.
LEMMA Fetched ==
  ASSUME TypeOK, Clean, NEW t \in Created
  PROVE  /\ t \in ThreadIds
         /\ threads[t] \in ThreadRec
         /\ IsInstruction(prog, threads[t].func, Inst(t))
         /\ threads[t].pc \in DOMAIN Code(t)
         /\ Inst(t).op \notin {"return", "jmp"} => threads[t].pc + 1 \in DOMAIN Code(t)
<1>1. t \in ThreadIds /\ threads[t].func \in DOMAIN prog /\ threads[t].pc \in DOMAIN Code(t)
  BY DEF TypeOK, Created
<1>2. threads[t] \in ThreadRec
  BY <1>1 DEF Clean
<1>3. IsFunction(prog, threads[t].func)
  BY <1>1, ThreadsAssumption DEF TypeOK
<1>4. IsInstruction(prog, threads[t].func, Inst(t))
  BY <1>1, <1>3 DEF IsFunction, Inst, Code
<1>5. ASSUME Inst(t).op \notin {"return", "jmp"}
      PROVE  threads[t].pc + 1 \in DOMAIN Code(t)
  <2>1. Code(t)[Len(Code(t))].op \in {"return", "jmp"} /\ Code(t) \in Seq([op : Ops, a : Regs, x : Nat])
    BY <1>3 DEF IsFunction, Code
  <2>2. DOMAIN Code(t) = 1 .. Len(Code(t)) /\ Len(Code(t)) \in Nat
    BY <2>1, LenProperties
  <2>3. threads[t].pc # Len(Code(t))
    BY <1>5, <2>1 DEF Inst
  <2> QED
    BY <1>1, <2>2, <2>3
<1> QED
  BY <1>1, <1>2, <1>4, <1>5

----------------------------------------------------------------------------
(* The shapes of a step.                                                   *)

\* A thread sleeps in a call of sleep, and only a load or a store of a global leaves
\* something to be copied.
Placed(th) ==
  LET op == prog[th.func].code[th.pc].op
  IN  /\ th.state = "sleeping" => op = "sleep"
      /\ th.left # Words => th.state = "running" /\ op \in {"getglobal", "setglobal"}

\* What thread t may become in a step of its own: it keeps the struct it was given and
\* the function it runs, and waits for a thread nobody waits for.
May(t, u) ==
  /\ u \in ThreadRec
  /\ u.cs = threads[t].cs /\ u.asked = threads[t].asked
  /\ threads[t].state \notin {"none", "ended"}
  /\ u.state \notin {"none", "starting"}
  /\ IF threads[t].state = "starting" THEN u.asked = <<"function", u.func>>
                                      ELSE u.func = threads[t].func
  /\ u.pc \in DOMAIN prog[u.func].code
  /\ \/ u.pc \in {threads[t].pc, threads[t].pc + 1}
     \/ Inst(t).op = "jmp" /\ u.pc = Inst(t).x
  /\ u.state = "joining" =>
       /\ u.on \in Created \ {Main}
       /\ \A v \in ThreadIds : ~(threads[v].state = "joining" /\ threads[v].on = u.on)
  /\ Placed(u)

\* Thread t alone moves on.
Moves(t) ==
  /\ t \in Created
  /\ threads' = [threads EXCEPT ![t] = threads'[t]]
  /\ May(t, threads'[t])
  /\ globals' \in [Globals -> CleanValue]
  /\ \/ GetGlobal(t) \/ SetGlobal(t)
     \/ threads'[t].left = Words /\ globals' = globals
  /\ UNCHANGED <<prog, structs, phase, freed, status>>

\* Thread t makes thread u, which is given a struct of its own.
Makes(t, u) ==
  /\ t \in Created /\ u \in ThreadIds \ Created /\ u - 1 \in Created
  /\ Executing(t, "thread_create")
  /\ structs' = Append(structs, Reg(t, Inst(t).x).value)
  /\ threads' = [threads EXCEPT
       ![t].R[Inst(t).a] = Thread(u), ![t].pc = @ + 1,
       ![u].state = "starting", ![u].cs = Len(structs'),
       ![u].asked = Reg(t, Inst(t).x).value]
  /\ UNCHANGED <<prog, globals, phase, freed, status>>

\* The process ends, or the driver goes on.
Rests == UNCHANGED <<prog, threads, structs, globals>>

\* What TypeOK leaves out: a thread that has not begun is at its first instruction,
\* and the struct it was given still names the function asked for; the others are
\* where their state says.
InPlace ==
  \A t \in ThreadIds :
    /\ threads[t].state = "none" => threads[t] = Unused
    /\ threads[t].state = "starting" =>
         /\ threads[t].pc = 1
         /\ threads[t].left = Words
         /\ threads[t].cs \in DOMAIN structs
         /\ structs[threads[t].cs] = threads[t].asked
    /\ Placed(threads[t])

LEMMA Place ==
  ASSUME TypeOK, Clean, InPlace, NEW t \in Created
  PROVE  /\ threads[t].state = "sleeping" => Inst(t).op = "sleep"
         /\ \/ threads[t].state # "running"
            \/ Inst(t).op \notin {"getglobal", "setglobal"}
            => threads[t].left = Words
BY Fetched DEF InPlace, Placed, Inst, Code

LEMMA CanStepCreated ==
  ASSUME NEW t \in ThreadIds, NEW s, CanStep(t, s), s # "none"
  PROVE  t \in Created
BY DEF CanStep, Created

LEMMA MovesTo ==
  ASSUME TypeOK, Clean, NEW t \in Created, NEW u, May(t, u),
         threads' = [threads EXCEPT ![t] = u],
         globals' \in [Globals -> CleanValue],
         \/ GetGlobal(t) \/ SetGlobal(t)
         \/ u.left = Words /\ globals' = globals,
         UNCHANGED <<prog, structs, phase, freed, status>>
  PROVE  Moves(t)
<1>1. threads'[t] = u
  BY Fetched DEF Clean
<1> QED
  BY <1>1 DEF Moves

\* What an instruction answers is written to a register of its thread.
LEMMA AnswerMoves ==
  ASSUME TypeOK, Clean, InPlace, NEW t \in Created, NEW v \in CleanValue,
         Answer(t, v), structs' = structs,
         threads[t].state \in {"running", "sleeping"},
         Inst(t).op \notin {"return", "jmp", "getglobal", "setglobal"}
  PROVE  Moves(t)
<1> DEFINE u == [threads[t] EXCEPT !.R = [@ EXCEPT ![Inst(t).a] = v], !.pc = @ + 1,
                                   !.state = "running", !.on = 0]
<1>1. threads \in [ThreadIds -> ThreadRec] /\ t \in ThreadIds /\ threads[t] \in ThreadRec
  BY Fetched DEF Clean
<1>2. Inst(t).a \in Regs /\ threads[t].pc + 1 \in DOMAIN Code(t)
  BY Fetched DEF IsInstruction
<1>3. threads' = [threads EXCEPT ![t] = u]
  BY <1>1 DEF Answer
<1>5. [threads[t].R EXCEPT ![Inst(t).a] = v] \in [Regs -> CleanValue]
  BY <1>1, <1>2 DEF ThreadRec
<1>6. 0 \in 0 .. MaxThreads /\ threads[t].pc + 1 \in Nat
  BY <1>1, ThreadsAssumption DEF ThreadRec
<1>7. /\ u.func = threads[t].func /\ u.pc = threads[t].pc + 1
      /\ u.cs = threads[t].cs /\ u.asked = threads[t].asked /\ u.state = "running"
  BY <1>1 DEF ThreadRec
<1>8. u \in ThreadRec
  BY <1>1, <1>5, <1>6 DEF ThreadRec, ThreadState
<1>9. globals \in [Globals -> CleanValue]
  BY DEF Clean
<1>10. u.left = Words
  BY <1>1, Place DEF ThreadRec
<1> HIDE DEF u
<1> QED
  BY <1>2, <1>3, <1>7, <1>8, <1>9, <1>10, MovesTo DEF Answer, Code, Placed, May

LEMMA CopyMoves ==
  ASSUME TypeOK, Clean, InPlace, NEW t \in Created, NEW w \in threads[t].left, NEW R \in [Regs -> CleanValue],
         threads' = [threads EXCEPT ![t] = Copied(t, w, R)],
         threads[t].state = "running", Inst(t).op \in {"getglobal", "setglobal"},
         GetGlobal(t) \/ SetGlobal(t),
         globals' \in [Globals -> CleanValue],
         UNCHANGED <<prog, structs, phase, freed, status>>
  PROVE  Moves(t)
<1> DEFINE u == Copied(t, w, R)
<1>1. threads[t] \in ThreadRec /\ threads[t].pc + 1 \in DOMAIN Code(t)
      /\ threads[t].pc \in DOMAIN Code(t)
  BY Fetched
<1>2. threads[t].pc + 1 \in Nat
  BY <1>1 DEF ThreadRec
<1>3. Words \in (SUBSET Words) \ {{}}
  BY DEF Words
<1>4. threads[t].left # {w} => threads[t].left \ {w} \in (SUBSET Words) \ {{}}
  BY <1>1 DEF ThreadRec
<1>5. u \in ThreadRec
  BY <1>1, <1>2, <1>3, <1>4 DEF Copied, ThreadRec
<1>6. /\ u.func = threads[t].func /\ u.pc \in {threads[t].pc, threads[t].pc + 1}
      /\ u.cs = threads[t].cs /\ u.asked = threads[t].asked /\ u.state = "running"
  BY <1>1 DEF Copied, ThreadRec
<1>7. threads' = [threads EXCEPT ![t] = u]
  OBVIOUS
<1>8. u.pc # threads[t].pc => u.left = Words
  BY <1>1 DEF Copied, ThreadRec
<1> HIDE DEF u
<1> QED
  BY <1>1, <1>5, <1>6, <1>7, <1>8, MovesTo DEF Code, Inst, Placed, May

LEMMA StateMoves ==
  ASSUME TypeOK, Clean, InPlace, NEW t \in Created, NEW s \in ThreadState \ {"none", "starting", "joining"},
         threads[t].state \notin {"starting", "ended"}, threads[t].left = Words, s = "sleeping" => Inst(t).op = "sleep",
         threads' = [threads EXCEPT ![t].state = s],
         UNCHANGED <<prog, structs, globals, phase, freed, status>>
  PROVE  Moves(t)
<1> DEFINE u == [threads[t] EXCEPT !.state = s]
<1>1. threads[t] \in ThreadRec /\ threads[t].pc \in DOMAIN Code(t)
  BY Fetched
<1>2. u \in ThreadRec
  BY <1>1 DEF ThreadRec
<1>3. /\ u.func = threads[t].func /\ u.pc = threads[t].pc
      /\ u.cs = threads[t].cs /\ u.asked = threads[t].asked /\ u.state = s
      /\ u.left = Words
  BY <1>1 DEF ThreadRec
<1>4. threads' = [threads EXCEPT ![t] = u] /\ globals \in [Globals -> CleanValue]
  BY DEF Clean
<1> HIDE DEF u
<1> QED
  BY <1>1, <1>2, <1>3, <1>4, MovesTo DEF Code, Inst, Placed, May, Created

----------------------------------------------------------------------------
(* Every action has a shape.                                               *)

LEMMA LoadKShape ==
  ASSUME TypeOK, Clean, InPlace, NEW t \in ThreadIds, LoadK(t)
  PROVE  Moves(t)
<1>1. t \in Created /\ threads[t].state = "running" /\ Inst(t).op = "loadk"
  BY CanStepCreated DEF LoadK, Executing, CanStep
<1>2. Inst(t).x \in Nat
  BY <1>1, Fetched DEF IsInstruction
<1> QED
  BY <1>1, <1>2, ValueTypes, AnswerMoves DEF LoadK

LEMMA ClosureShape ==
  ASSUME TypeOK, Clean, InPlace, NEW t \in ThreadIds, Closure(t)
  PROVE  Moves(t)
<1>1. t \in Created /\ threads[t].state = "running" /\ Inst(t).op = "closure"
  BY CanStepCreated DEF Closure, Executing, CanStep
<1>2. Inst(t).x \in Nat \ {1}
  BY <1>1, Fetched, Naturals DEF IsInstruction
<1> QED
  BY <1>1, <1>2, ValueTypes, AnswerMoves DEF Closure

LEMMA JmpShape ==
  ASSUME TypeOK, Clean, InPlace, NEW t \in ThreadIds, Jmp(t)
  PROVE  Moves(t)
<1> DEFINE u == [threads[t] EXCEPT !.pc = Inst(t).x]
<1>1. t \in Created /\ threads[t].state = "running" /\ Inst(t).op = "jmp"
  BY CanStepCreated DEF Jmp, Executing, CanStep
<1>2. /\ threads[t] \in ThreadRec
      /\ Inst(t).x \in DOMAIN prog[threads[t].func].code
  BY <1>1, Fetched DEF IsInstruction
<1>3. Inst(t).x \in Nat
  <2>1. threads[t].func \in DOMAIN prog /\ prog \in Programs
    BY <1>2 DEF TypeOK, ThreadRec
  <2>2. prog[threads[t].func].code \in Seq([op : Ops, a : Regs, x : Nat])
    BY <2>1, ThreadsAssumption DEF IsFunction
  <2> QED
    BY <1>2, <2>2
<1>4. /\ u \in ThreadRec /\ u.func = threads[t].func /\ u.pc = Inst(t).x
      /\ u.cs = threads[t].cs /\ u.asked = threads[t].asked /\ u.state = "running"
      /\ u.left = Words
  BY <1>1, <1>2, <1>3, Place DEF ThreadRec
<1>5. threads' = [threads EXCEPT ![t] = u] /\ globals \in [Globals -> CleanValue]
  BY DEF Jmp, Clean
<1> HIDE DEF u
<1> QED
  BY <1>1, <1>2, <1>4, <1>5, MovesTo DEF Jmp, Placed, May

LEMMA GetGlobalShape ==
  ASSUME TypeOK, Clean, InPlace, NEW t \in ThreadIds, GetGlobal(t)
  PROVE  Moves(t)
<1>1. t \in Created /\ threads[t].state = "running" /\ Inst(t).op = "getglobal"
  BY CanStepCreated DEF GetGlobal, Executing, CanStep
<1>2. Inst(t).a \in Regs /\ Inst(t).x \in Globals /\ threads[t] \in ThreadRec
  BY <1>1, Fetched DEF IsInstruction
<1>3. PICK w \in threads[t].left :
        threads' = [threads EXCEPT ![t] =
          Copied(t, w, [@.R EXCEPT ![Inst(t).a][w] = globals[Inst(t).x][w]])]
  BY DEF GetGlobal
<1> DEFINE R == [threads[t].R EXCEPT ![Inst(t).a][w] = globals[Inst(t).x][w]]
<1>4. threads' = [threads EXCEPT ![t] = Copied(t, w, R)]
  BY <1>1, <1>3, Fetched DEF Clean
<1>5. R \in [Regs -> CleanValue]
  <2>1. threads[t].R \in [Regs -> CleanValue] /\ globals[Inst(t).x] \in CleanValue
    BY <1>2 DEF ThreadRec, Clean
  <2>2. w = "value" \/ w = "tt"
    BY <1>2 DEF ThreadRec, Words
  <2>3. [threads[t].R[Inst(t).a] EXCEPT ![w] = globals[Inst(t).x][w]] \in CleanValue
    <3>1. threads[t].R[Inst(t).a] \in CleanValue
      BY <1>2, <2>1
    <3>2. CASE w = "value"
      BY <2>1, <3>1, <3>2 DEF CleanValue
    <3>3. CASE w = "tt"
      BY <2>1, <3>1, <3>3 DEF CleanValue
    <3> QED
      BY <2>2, <3>2, <3>3
  <2> QED
    BY <1>2, <2>1, <2>3
<1>6. globals' = globals /\ globals \in [Globals -> CleanValue]
  BY DEF GetGlobal, Clean
<1> HIDE DEF R
<1> QED
  BY <1>1, <1>4, <1>5, <1>6, CopyMoves DEF GetGlobal

LEMMA SetGlobalShape ==
  ASSUME TypeOK, Clean, InPlace, NEW t \in ThreadIds, SetGlobal(t)
  PROVE  Moves(t)
<1>1. t \in Created /\ threads[t].state = "running" /\ Inst(t).op = "setglobal"
  BY CanStepCreated DEF SetGlobal, Executing, CanStep
<1>2. Inst(t).a \in Regs /\ Inst(t).x \in Globals /\ threads[t] \in ThreadRec
  BY <1>1, Fetched DEF IsInstruction
<1>3. PICK w \in threads[t].left :
        /\ globals' = [globals EXCEPT ![Inst(t).x][w] = Reg(t, Inst(t).a)[w]]
        /\ threads' = [threads EXCEPT ![t] = Copied(t, w, @.R)]
  BY DEF SetGlobal
<1>4. threads' = [threads EXCEPT ![t] = Copied(t, w, threads[t].R)]
  BY <1>1, <1>3, Fetched DEF Clean
<1>5. threads[t].R \in [Regs -> CleanValue]
  BY <1>2 DEF ThreadRec
<1>6. globals' \in [Globals -> CleanValue]
  <2>1. globals[Inst(t).x] \in CleanValue /\ Reg(t, Inst(t).a) \in CleanValue
    BY <1>2, <1>5 DEF Reg, Clean
  <2>2. w = "value" \/ w = "tt"
    BY <1>2 DEF ThreadRec, Words
  <2>3. [globals[Inst(t).x] EXCEPT ![w] = Reg(t, Inst(t).a)[w]] \in CleanValue
    <3>1. CASE w = "value"
      BY <2>1, <3>1 DEF CleanValue
    <3>2. CASE w = "tt"
      BY <2>1, <3>2 DEF CleanValue
    <3> QED
      BY <2>2, <3>1, <3>2
  <2> QED
    BY <1>2, <1>3, <2>3 DEF Clean
<1> QED
  BY <1>1, <1>4, <1>5, <1>6, CopyMoves DEF SetGlobal

LEMMA ReturnShape ==
  ASSUME TypeOK, Clean, InPlace, NEW t \in ThreadIds, Return(t)
  PROVE  Moves(t)
<1>1. t \in Created /\ threads[t].left = Words /\ threads[t].state = "running"
  BY CanStepCreated, Place DEF Return, Executing, CanStep
<1> QED
  BY <1>1, StateMoves DEF Return, ThreadState

LEMMA MakesEffect ==
  ASSUME TypeOK, Clean, NEW t \in ThreadIds, NEW u \in ThreadIds, Makes(t, u)
  PROVE  /\ t # u
         /\ threads'[t] = [threads[t] EXCEPT !.R = [@ EXCEPT ![Inst(t).a] = Thread(u)],
                                             !.pc = @ + 1]
         /\ threads'[u] = [threads[u] EXCEPT !.state = "starting", !.cs = Len(structs'),
                                             !.asked = Reg(t, Inst(t).x).value]
         /\ \A v \in ThreadIds : v # t /\ v # u => threads'[v] = threads[v]
         /\ DOMAIN threads' = ThreadIds
<1>1. t # u /\ threads \in [ThreadIds -> ThreadRec]
  BY DEF Makes, Clean
<1> DEFINE x == [threads[t] EXCEPT !.R = [@ EXCEPT ![Inst(t).a] = Thread(u)], !.pc = @ + 1]
           y == [threads[u] EXCEPT !.state = "starting", !.cs = Len(structs'),
                                   !.asked = Reg(t, Inst(t).x).value]
           th == [threads EXCEPT ![t] = x]
<1>2. th = [threads EXCEPT ![t].R[Inst(t).a] = Thread(u), ![t].pc = @ + 1]
  BY <1>1
<1>3. th[u] = threads[u]
  BY <1>1
<1>4. threads' = [th EXCEPT ![u].state = "starting", ![u].cs = Len(structs'),
                            ![u].asked = Reg(t, Inst(t).x).value]
  BY <1>2 DEF Makes
<1>5. threads' = [th EXCEPT ![u] = y]
  <2> HIDE DEF th
  <2> QED
    BY <1>3, <1>4
<1> QED
  BY <1>1, <1>5

LEMMA ThreadCreateShape ==
  ASSUME TypeOK, Clean, InPlace, NEW t \in ThreadIds, ThreadCreate(t)
  PROVE  Rests \/ \E u \in ThreadIds : Makes(t, u)
<1>1. t \in Created
  BY CanStepCreated DEF ThreadCreate, Executing
<1>2. CASE Stop("exit1")
  BY <1>2 DEF Stop, Rests
<1>3. CASE /\ \E u \in ThreadIds \ Created :
                /\ u - 1 \in Created
                /\ structs' = Fill(Reg(t, Inst(t).x).value)
                /\ threads' =
                     [threads EXCEPT
                        ![t].R[Inst(t).a] = Thread(u), ![t].pc = @ + 1,
                        ![u].state = "starting", ![u].cs = Len(structs'),
                        ![u].asked = Reg(t, Inst(t).x).value]
           /\ UNCHANGED <<prog, globals, phase, freed, status>>
  <2>1. PICK u \in ThreadIds \ Created :
          /\ u - 1 \in Created
          /\ structs' = Append(structs, Reg(t, Inst(t).x).value)
          /\ threads' =
               [threads EXCEPT
                  ![t].R[Inst(t).a] = Thread(u), ![t].pc = @ + 1,
                  ![u].state = "starting", ![u].cs = Len(structs'),
                  ![u].asked = Reg(t, Inst(t).x).value]
    BY <1>3 DEF Fill
  <2>2. Makes(t, u)
    BY <1>1, <1>3, <2>1 DEF Makes, ThreadCreate
  <2> QED
    BY <2>1, <2>2
<1> QED
  BY <1>2, <1>3 DEF ThreadCreate

LEMMA ThreadCallShape ==
  ASSUME TypeOK, Clean, InPlace, NEW t \in ThreadIds, ThreadCall(t)
  PROVE  Rests \/ Moves(t)
<1>1. t \in Created /\ threads[t].state = "starting"
  BY CanStepCreated DEF ThreadCall, CanStep
<1> DEFINE f == structs[threads[t].cs]
           u == [threads[t] EXCEPT !.state = "running", !.func = f[2]]
<1>2. CASE Stop("stray") \/ Stop("exit0")
  BY <1>2 DEF Stop, Rests
<1>3. CASE /\ f \in {"function"} \X DOMAIN prog
           /\ threads' = [threads EXCEPT ![t].state = "running", ![t].func = f[2]]
           /\ UNCHANGED <<prog, structs, globals, phase, freed, status>>
  <2>1. /\ threads[t] \in ThreadRec /\ threads[t].pc = 1 /\ threads[t].left = Words
        /\ f[2] \in DOMAIN prog
    BY <1>1, <1>3, Fetched DEF InPlace
  <2>2. 1 \in DOMAIN prog[f[2]].code
    <3>1. /\ prog[f[2]].code \in Seq([op : Ops, a : Regs, x : Nat])
          /\ Len(prog[f[2]].code) > 0
      BY <2>1, ThreadsAssumption DEF TypeOK, IsFunction
    <3> QED
      BY <3>1, LenProperties
  <2>3. threads' = [threads EXCEPT ![t] = u]
    BY <1>3, <1>1 DEF ThreadRec, Clean
  <2> HIDE DEF f
  <2>4. /\ u \in ThreadRec /\ u.func = f[2] /\ u.pc = 1
        /\ u.cs = threads[t].cs /\ u.asked = threads[t].asked /\ u.state = "running"
        /\ u.left = Words
    BY <2>1 DEF ThreadRec, ThreadState
  <2>5. globals \in [Globals -> CleanValue]
    BY DEF Clean
  <2>6. threads[t].asked = <<"function", f[2]>>
    BY <1>1, <1>3 DEF InPlace, f
  <2> HIDE DEF u
  <2>7. May(t, u)
    BY <1>1, <2>1, <2>2, <2>4, <2>6 DEF Placed, May
  <2> QED
    BY <1>1, <1>3, <2>3, <2>4, <2>5, <2>7, MovesTo
<1> QED
  BY <1>2, <1>3 DEF ThreadCall

LEMMA ThreadExitShape ==
  ASSUME TypeOK, Clean, InPlace, NEW t \in ThreadIds, ThreadExit(t)
  PROVE  Moves(t)
<1>1. t \in Created /\ threads[t].left = Words /\ threads[t].state = "leaving"
  BY CanStepCreated, Place DEF ThreadExit, CanStep
<1> QED
  BY <1>1, StateMoves DEF ThreadExit, ThreadState

LEMMA ThreadJoinShape ==
  ASSUME TypeOK, Clean, InPlace, NEW t \in ThreadIds, ThreadJoin(t)
  PROVE  Rests \/ Moves(t)
<1>1. /\ t \in Created /\ threads[t] \in ThreadRec /\ threads[t].pc \in DOMAIN Code(t)
      /\ threads[t].left = Words /\ threads[t].state = "running" /\ Inst(t).x \in Regs
  BY CanStepCreated, Fetched, Place DEF ThreadJoin, Executing, CanStep, IsInstruction
<1> DEFINE p == Reg(t, Inst(t).x)
           u == [threads[t] EXCEPT !.state = "joining", !.on = p.value[2]]
<1>2. CASE Stop("exit1") \/ Stop("stray")
  BY <1>2 DEF Stop, Rests
<1>3. CASE /\ p.value \in {"pointer"} \X Created
           /\ ~JoinRefused(t, p.value[2])
           /\ threads' = [threads EXCEPT ![t].state = "joining", ![t].on = p.value[2]]
           /\ UNCHANGED <<prog, structs, globals, phase, freed, status>>
  <2>1. p.value[2] \in Created \ {Main} /\ p.value[2] \in 0 .. MaxThreads
    <3>1. p.value \in Payloads
      BY <1>1, <1>3 DEF ThreadRec, CleanValue, Reg
    <3>2. p.value # <<"pointer", Main>> /\ p.value[2] \in Created
      BY <1>3, <3>1 DEF Payloads
    <3> QED
      BY <1>3, <3>2, Naturals DEF Created
  <2>2. threads' = [threads EXCEPT ![t] = u]
    BY <1>1, <1>3 DEF ThreadRec, Clean
  <2> HIDE DEF p
  <2>3. /\ u \in ThreadRec /\ u.func = threads[t].func /\ u.pc = threads[t].pc
        /\ u.cs = threads[t].cs /\ u.asked = threads[t].asked
        /\ u.state = "joining" /\ u.on = p.value[2] /\ u.left = Words
    BY <1>1, <2>1 DEF ThreadRec, ThreadState
  <2>4. globals \in [Globals -> CleanValue]
    BY DEF Clean
  <2> HIDE DEF u
  <2>5. May(t, u)
    BY <1>1, <1>3, <2>1, <2>3 DEF Code, Placed, May, JoinRefused, p
  <2> QED
    BY <1>1, <1>3, <2>2, <2>3, <2>4, <2>5, MovesTo
<1> QED
  BY <1>2, <1>3 DEF ThreadJoin

LEMMA ThreadYieldShape ==
  ASSUME TypeOK, Clean, InPlace, NEW t \in ThreadIds, ThreadYield(t)
  PROVE  Moves(t)
<1>1. t \in Created /\ threads[t].state = "running" /\ Inst(t).op = "thread_yield"
  BY CanStepCreated DEF ThreadYield, Executing, CanStep
<1> QED
  BY <1>1, ValueTypes, AnswerMoves DEF ThreadYield

LEMMA SleepShape ==
  ASSUME TypeOK, Clean, InPlace, NEW t \in ThreadIds, Sleep(t)
  PROVE  Rests \/ Moves(t)
<1>1. /\ t \in Created /\ threads[t].left = Words
      /\ threads[t].state = "running" /\ Inst(t).op = "sleep"
  BY CanStepCreated, Place DEF Sleep, Executing, CanStep
<1>2. CASE Stop("exit1")
  BY <1>2 DEF Stop, Rests
<1>3. CASE /\ threads' = [threads EXCEPT ![t].state = "sleeping"]
           /\ UNCHANGED <<prog, structs, globals, phase, freed, status>>
  BY <1>1, <1>3, StateMoves DEF ThreadState
<1> QED
  BY <1>2, <1>3 DEF Sleep

LEMMA WakeShape ==
  ASSUME TypeOK, Clean, InPlace, NEW t \in ThreadIds, Wake(t)
  PROVE  Moves(t)
<1>1. t \in Created /\ threads[t].state = "sleeping" /\ Inst(t).op = "sleep"
  BY CanStepCreated, Place DEF Wake, CanStep
<1> QED
  BY <1>1, ValueTypes, AnswerMoves DEF Wake

LEMMA StepShape ==
  ASSUME TypeOK, Clean, InPlace, NEW t \in ThreadIds, ThreadStep(t)
  PROVE  Rests \/ Moves(t) \/ \E u \in ThreadIds : Makes(t, u)
<1>1. CASE Joined(t) \/ Dangle(t)
  BY <1>1 DEF Joined, Dangle, Stop, Rests
<1> QED
  BY <1>1, LoadKShape, ClosureShape, JmpShape, GetGlobalShape, SetGlobalShape, ReturnShape,
     ThreadCreateShape, ThreadCallShape, ThreadExitShape, ThreadJoinShape, ThreadYieldShape,
     SleepShape, WakeShape DEF ThreadStep

----------------------------------------------------------------------------
(* Every step keeps the types.                                             *)

LEMMA MovesCreated ==
  ASSUME Clean, NEW t \in ThreadIds, Moves(t)
  PROVE  /\ Created' = Created
         /\ \A u \in ThreadIds : u # t => threads'[u] = threads[u]
<1>1. \A u \in ThreadIds : u # t => threads'[u] = threads[u]
  BY DEF Moves, Clean
<1> QED
  BY <1>1 DEF Moves, May, Created

LEMMA MovesTypes ==
  ASSUME TypeOK, Clean, InPlace, NEW t \in ThreadIds, Moves(t)
  PROVE  TypeOK' /\ Clean' /\ InPlace'
<1>1. Created' = Created /\ \A u \in ThreadIds : u # t => threads'[u] = threads[u]
  BY MovesCreated
<1>2. threads'[t] \in ThreadRec /\ threads'[t].cs \in 0 .. Len(structs)
  BY DEF Moves, May, TypeOK
<1>3. Clean'
  <2>1. ThreadRec' = ThreadRec
    BY DEF Moves, ThreadRec
  <2> QED
    BY <1>2, <2>1 DEF Moves, Clean
<1>4. threads' \in [ThreadIds ->
         [state : ThreadState, cs : 0 .. Len(structs), asked : Tags \X Nat,
          func : DOMAIN prog, pc : Nat, R : [Regs -> TValue],
          left : (SUBSET Words) \ {{}}, on : 0 .. MaxThreads]]
  <2>1. threads'[t] \in
         [state : ThreadState, cs : 0 .. Len(structs), asked : Tags \X Nat,
          func : DOMAIN prog, pc : Nat, R : [Regs -> TValue],
          left : (SUBSET Words) \ {{}}, on : 0 .. MaxThreads]
    <3>1. [Regs -> CleanValue] \subseteq [Regs -> TValue]
      BY ValueTypes
    <3> QED
      BY <1>2, <3>1 DEF ThreadRec, Payloads
  <2> QED
    BY <2>1 DEF Moves, TypeOK
<1>5. ASSUME NEW u \in Created
      PROVE  /\ threads'[u].pc \in DOMAIN Code(u)'
             /\ 1 .. u \subseteq Created
             /\ threads'[u].state = "joining" => threads'[u].on \in Created
  <2>1. u \in ThreadIds
    BY DEF Created
  <2>2. CASE u = t
    BY <2>2 DEF Moves, May, TypeOK, Code
  <2>3. CASE u # t
    BY <2>1, <2>3, <1>1 DEF Moves, TypeOK, Code
  <2> QED
    BY <2>2, <2>3
<1>6. TypeOK'
  <2>1. globals' \in [Globals -> TValue]
    BY ValueTypes DEF Moves
  <2> QED
    BY <1>1, <1>4, <1>5, <2>1 DEF Moves, TypeOK
<1>7. InPlace'
  <2> SUFFICES ASSUME NEW u \in ThreadIds
               PROVE  /\ threads'[u].state = "none" => threads'[u] = Unused'
                      /\ threads'[u].state = "starting" =>
                           /\ threads'[u].pc = 1
                           /\ threads'[u].left = Words
                           /\ threads'[u].cs \in DOMAIN structs'
                           /\ structs'[threads'[u].cs] = threads'[u].asked
                      /\ Placed(threads[u])'
    BY DEF InPlace
  <2>1. CASE u = t
    BY <2>1 DEF Moves, May, Placed
  <2>2. CASE u # t
    <3>1. threads'[u] = threads[u] /\ prog' = prog /\ structs' = structs
      BY <1>1, <2>2 DEF Moves
    <3>2. Placed(threads[u])'
      BY <3>1 DEF InPlace, Placed
    <3> QED
      BY <3>1, <3>2 DEF InPlace
  <2> QED
    BY <2>1, <2>2
<1> QED
  BY <1>3, <1>6, <1>7

LEMMA MakesTypes ==
  ASSUME TypeOK, Clean, InPlace, NEW t \in ThreadIds, NEW u \in ThreadIds, Makes(t, u)
  PROVE  TypeOK' /\ Clean' /\ InPlace' /\ Created' = Created \cup {u}
<1> DEFINE v == Reg(t, Inst(t).x).value
<1>1. /\ t \in Created /\ t # u /\ u \notin Created /\ u - 1 \in Created
      /\ threads[t].state = "running" /\ Inst(t).op = "thread_create"
      /\ UNCHANGED <<prog, globals, phase, freed, status>>
      /\ structs' = Append(structs, v)
  BY DEF Makes, Executing, CanStep
<1>2. /\ threads[t] \in ThreadRec /\ threads[u] = Unused
      /\ Inst(t).a \in Regs /\ Inst(t).x \in Regs
      /\ threads[t].pc + 1 \in DOMAIN Code(t) /\ threads[t].left = Words
  BY <1>1, Fetched, Place DEF IsInstruction, InPlace, Created
<1>3. v \in Payloads
  BY <1>2 DEF ThreadRec, CleanValue, Reg
<1>4. /\ structs' \in Seq(Payloads) /\ Len(structs') = Len(structs) + 1
      /\ Len(structs) \in Nat /\ structs'[Len(structs')] = v
      /\ \A i \in DOMAIN structs : i \in DOMAIN structs' /\ structs'[i] = structs[i]
      /\ Len(structs') \in DOMAIN structs'
  BY <1>1, <1>3, AppendProperties, LenProperties DEF Clean
<1> HIDE DEF v
<1>5. /\ threads'[t] = [threads[t] EXCEPT !.R = [@ EXCEPT ![Inst(t).a] = Thread(u)],
                                          !.pc = @ + 1]
      /\ threads'[u] = [Unused EXCEPT !.state = "starting", !.cs = Len(structs'),
                                      !.asked = v]
      /\ \A w \in ThreadIds : w # t /\ w # u => threads'[w] = threads[w]
      /\ DOMAIN threads' = ThreadIds
  BY <1>2, MakesEffect, ZenonT(30) DEF v
<1>6. threads'[t].state = "running" /\ threads'[u].state = "starting"
  BY <1>1, <1>2, <1>5 DEF ThreadRec, Unused
<1>7. Created' = Created \cup {u}
  BY <1>1, <1>5, <1>6 DEF Created
<1> DEFINE Rec(n) == [state : ThreadState, cs : 0 .. n, asked : Payloads,
                      func : DOMAIN prog, pc : Nat, R : [Regs -> CleanValue],
                      left : (SUBSET Words) \ {{}}, on : 0 .. MaxThreads]
<1>8. \A w \in ThreadIds : threads[w] \in Rec(Len(structs'))
  <2>1. 0 .. Len(structs) \subseteq 0 .. Len(structs')
    BY <1>4
  <2>2. \A w \in ThreadIds : threads[w] \in ThreadRec /\ threads[w].cs \in 0 .. Len(structs)
    BY DEF Clean, TypeOK
  <2> QED
    BY <2>1, <2>2 DEF ThreadRec
<1>9. threads'[t] \in Rec(Len(structs'))
  <2>1. Thread(u) \in CleanValue
    <3>1. u \in Nat /\ u - 1 \in Nat /\ u - 1 # 0
      BY <1>1, Naturals DEF Created, ThreadIds
    <3> QED
      BY <3>1, ValueTypes
  <2>2. [threads[t].R EXCEPT ![Inst(t).a] = Thread(u)] \in [Regs -> CleanValue]
    BY <1>2, <2>1 DEF ThreadRec
  <2>3. threads[t].pc + 1 \in Nat
    BY <1>2 DEF ThreadRec
  <2> QED
    BY <1>5, <1>8, <2>2, <2>3
<1>10. threads'[u] \in Rec(Len(structs'))
  <2>1. Len(structs') \in 0 .. Len(structs') /\ "starting" \in ThreadState
    BY <1>4 DEF ThreadState
  <2> QED
    BY <1>2, <1>3, <1>5, <1>8, <2>1
<1>11. threads' \in [ThreadIds -> Rec(Len(structs'))]
  <2>1. \A w \in ThreadIds : threads'[w] \in Rec(Len(structs'))
    BY <1>5, <1>8, <1>9, <1>10
  <2>2. threads' = [w \in ThreadIds |-> threads'[w]]
    BY <1>5 DEF Makes
  <2> HIDE DEF Rec
  <2> QED
    BY <2>1, <2>2
<1>12. /\ threads'[t].func = threads[t].func /\ threads'[t].pc = threads[t].pc + 1
       /\ threads'[t].left = Words
       /\ threads'[u].func = 1 /\ threads'[u].pc = 1 /\ threads'[u].left = Words
       /\ threads'[u].cs = Len(structs') /\ threads'[u].asked = v
  BY <1>2, <1>5 DEF ThreadRec, Unused
<1>13. 1 \in DOMAIN prog /\ 1 \in DOMAIN prog[1].code
  <2>1. 1 \in DOMAIN prog
    BY Naturals
  <2>2. prog[1].code \in Seq([op : Ops, a : Regs, x : Nat]) /\ Len(prog[1].code) > 0
    BY <2>1, ThreadsAssumption DEF TypeOK, IsFunction
  <2> QED
    BY <2>1, <2>2, LenProperties
<1>14. ASSUME NEW w \in Created'
       PROVE  /\ threads'[w].pc \in DOMAIN Code(w)'
              /\ 1 .. w \subseteq Created'
              /\ threads'[w].state = "joining" => threads'[w].on \in Created'
  <2>1. CASE w = u
    <3>1. 1 .. u \subseteq Created \cup {u}
      <4>1. 1 .. u - 1 \subseteq Created
        BY <1>1 DEF TypeOK
      <4>2. u \in Nat
        BY DEF ThreadIds
      <4> QED
        BY <4>1, <4>2
    <3> QED
      BY <1>1, <1>6, <1>7, <1>12, <1>13, <2>1, <3>1 DEF Code
  <2>2. CASE w = t
    BY <1>1, <1>2, <1>6, <1>7, <1>12, <2>2 DEF TypeOK, Code
  <2>3. CASE w # t /\ w # u
    BY <1>1, <1>5, <1>7, <2>3 DEF TypeOK, Code, Created
  <2> QED
    BY <2>1, <2>2, <2>3
<1>15. TypeOK'
  <2>1. CleanValue \subseteq TValue /\ Payloads \subseteq Tags \X Nat
    BY ValueTypes DEF Payloads
  <2>2. /\ Rec(Len(structs')) \subseteq
             [state : ThreadState, cs : 0 .. Len(structs'), asked : Tags \X Nat,
              func : DOMAIN prog, pc : Nat, R : [Regs -> TValue],
              left : (SUBSET Words) \ {{}}, on : 0 .. MaxThreads]
    BY <2>1
  <2>3. structs' \in Seq(Tags \X Nat)
    BY <1>4, <2>1
  <2> QED
    BY <1>1, <1>7, <1>11, <1>14, <2>2, <2>3 DEF TypeOK
<1>17. Clean'
  <2>1. Rec(Len(structs')) \subseteq ThreadRec
    BY <1>4 DEF ThreadRec
  <2>2. ThreadRec' = ThreadRec
    BY <1>1 DEF ThreadRec
  <2> QED
    BY <1>1, <1>4, <1>11, <2>1, <2>2 DEF Clean
<1>16. InPlace'
  <2> SUFFICES ASSUME NEW w \in ThreadIds
               PROVE  /\ threads'[w].state = "none" => threads'[w] = Unused'
                      /\ threads'[w].state = "starting" =>
                           /\ threads'[w].pc = 1
                           /\ threads'[w].left = Words
                           /\ threads'[w].cs \in DOMAIN structs'
                           /\ structs'[threads'[w].cs] = threads'[w].asked
                      /\ Placed(threads[w])'
    BY DEF InPlace
  <2>1. CASE w = t \/ w = u
    BY <1>4, <1>6, <1>12, <2>1 DEF Placed
  <2>2. CASE w # t /\ w # u
    <3>1. threads'[w] = threads[w] /\ prog' = prog
      BY <1>1, <1>5, <2>2
    <3>2. Placed(threads[w])'
      BY <3>1 DEF InPlace, Placed
    <3>3. threads[w].state = "starting" =>
            /\ threads[w].cs \in DOMAIN structs'
            /\ structs'[threads[w].cs] = structs[threads[w].cs]
      BY <1>4 DEF InPlace
    <3> QED
      BY <3>1, <3>2, <3>3 DEF InPlace
  <2> QED
    BY <2>1, <2>2
<1> QED
  BY <1>7, <1>15, <1>16, <1>17

LEMMA NextShape ==
  ASSUME TypeOK, Clean, InPlace, [Next]_vars
  PROVE  \/ Rests
         \/ \E t \in ThreadIds : Moves(t)
         \/ \E t, u \in ThreadIds : Makes(t, u)
<1>1. CASE DriverStep
  BY <1>1 DEF DriverStep, FinishInterpret, Teardown, ProcessEnd, Stop, Rests
<1>2. CASE Over \/ UNCHANGED vars
  BY <1>2 DEF Over, vars, Rests
<1>3. CASE \E t \in ThreadIds : ThreadStep(t)
  BY <1>3, StepShape
<1> QED
  BY <1>1, <1>2, <1>3 DEF Next

LEMMA RestsTypes ==
  ASSUME TypeOK, Clean, InPlace, [Next]_vars, Rests
  PROVE  TypeOK' /\ Clean' /\ InPlace' /\ Created' = Created
<1> USE DEF Rests
<1>1. Created' = Created
  BY DEF Created
<1>2. /\ phase' \in {"interpret", "teardown", "gone"}
      /\ freed' \subseteq {TeardownOrder[i] : i \in DOMAIN TeardownOrder}
      /\ status' \in {"running", "returned", "exit0", "exit1", "crashed", "stray", "dangling"}
  <2>1. CASE DriverStep
    BY <2>1 DEF TypeOK, DriverStep, FinishInterpret, Teardown, ProcessEnd, Stop
  <2>2. CASE Over \/ UNCHANGED vars
    BY <2>2 DEF TypeOK, Over, vars
  <2>3. ASSUME NEW t \in ThreadIds, ThreadStep(t)
        PROVE  /\ phase' = phase /\ freed' = freed
               /\ \/ status' = status
                  \/ status' \in {"exit0", "exit1", "crashed", "stray", "dangling"}
    BY <2>3 DEF ThreadStep, LoadK, Closure, Jmp, GetGlobal, SetGlobal, Return, ThreadCreate,
         ThreadCall, ThreadExit, ThreadJoin, Joined, ThreadYield, Sleep, Wake, Dangle,
         Answer, Stop
  <2> QED
    BY <2>1, <2>2, <2>3 DEF Next, TypeOK
<1>3. TypeOK'
  BY <1>1, <1>2 DEF TypeOK, Code
<1>4. Clean'
  BY DEF Clean, ThreadRec
<1>5. InPlace'
  BY DEF InPlace, Placed, Unused
<1> QED
  BY <1>1, <1>3, <1>4, <1>5

LEMMA StepTypes ==
  ASSUME TypeOK, Clean, InPlace, [Next]_vars
  PROVE  TypeOK' /\ Clean' /\ InPlace'
BY NextShape, RestsTypes, MovesTypes, MakesTypes

LEMMA InitTypes ==
  ASSUME Init
  PROVE  TypeOK /\ Clean /\ InPlace
<1>1. /\ prog \in Programs /\ Main \in ThreadIds /\ 1 \in DOMAIN prog
      /\ 0 \in 0 .. MaxThreads
  <2>1. prog \in Seq([argc : Nat, code : Seq([op : Ops, a : Regs, x : Nat])]) /\ Len(prog) > 0
    BY ThreadsAssumption DEF Init
  <2> QED
    BY <2>1, LenProperties, ThreadsAssumption DEF Init, Main, ThreadIds
<1>2. 1 \in DOMAIN prog[1].code
  <2>1. prog[1].code \in Seq([op : Ops, a : Regs, x : Nat]) /\ Len(prog[1].code) > 0
    BY <1>1, ThreadsAssumption DEF IsFunction
  <2> QED
    BY <2>1, LenProperties
<1>3. /\ structs = <<>> /\ Len(structs) = 0 /\ 0 \in 0 .. Len(structs)
      /\ structs \in Seq(Payloads) /\ structs \in Seq(Tags \X Nat)
  BY EmptySeq DEF Init
<1>4. /\ Unused \in ThreadRec /\ [Unused EXCEPT !.state = "running"] \in ThreadRec
      /\ Unused.cs = 0 /\ Unused.state = "none" /\ Unused.pc = 1 /\ Unused.func = 1
      /\ Unused.left = Words
  BY <1>1, ValueTypes DEF Unused, ThreadRec, ThreadState, Payloads, Tags, Junk, Value, Words
<1>5. /\ threads \in [ThreadIds -> ThreadRec]
      /\ \A t \in ThreadIds : /\ threads[t].cs = 0 /\ threads[t].pc = 1 /\ threads[t].func = 1
                              /\ threads[t].left = Words
                              /\ threads[t].state = IF t = Main THEN "running" ELSE "none"
                              /\ t # Main => threads[t] = Unused
  BY <1>4 DEF Init, Unused
<1>6. Created = {Main}
  BY <1>1, <1>5 DEF Created
<1>7. Clean
  BY <1>3, <1>5, ValueTypes DEF Clean, Init
<1>8. TypeOK
  <2>1. threads \in [ThreadIds ->
         [state : ThreadState, cs : 0 .. Len(structs), asked : Tags \X Nat,
          func : DOMAIN prog, pc : Nat, R : [Regs -> TValue],
          left : (SUBSET Words) \ {{}}, on : 0 .. MaxThreads]]
    <3>1. [Regs -> CleanValue] \subseteq [Regs -> TValue] /\ Payloads \subseteq Tags \X Nat
      BY ValueTypes DEF Payloads
    <3>2. \A t \in ThreadIds : threads[t] \in ThreadRec /\ threads[t].cs \in 0 .. Len(structs)
      BY <1>3, <1>5
    <3> QED
      BY <1>5, <3>1, <3>2 DEF ThreadRec
  <2>2. \A t \in Created : /\ threads[t].pc \in DOMAIN Code(t)
                           /\ 1 .. t \subseteq Created
                           /\ threads[t].state # "joining"
    BY <1>1, <1>2, <1>5, <1>6 DEF Code, Main
  <2>3. globals \in [Globals -> TValue]
    BY ValueTypes DEF Init
  <2> QED
    BY <1>1, <1>3, <2>1, <2>2, <2>3 DEF TypeOK, Init
<1>9. InPlace
  BY <1>5 DEF InPlace, Placed
<1> QED
  BY <1>7, <1>8, <1>9

\* Every variable keeps its type, whatever threads do to each other's registers,
\* structs and globals.
THEOREM ThreadsTypeCorrect == Spec => []TypeOK
<1>1. Init => TypeOK /\ Clean /\ InPlace
  BY InitTypes
<1>2. TypeOK /\ Clean /\ InPlace /\ [Next]_vars => TypeOK' /\ Clean' /\ InPlace'
  BY StepTypes
<1> QED
  BY <1>1, <1>2, PTL DEF Spec

\* What is left of a step that makes a thread: the maker goes on, the others stay.
LEMMA MakesFields ==
  ASSUME TypeOK, Clean, NEW t \in ThreadIds, NEW u \in ThreadIds, Makes(t, u)
  PROVE  /\ t # u /\ t \in Created /\ u \notin Created
         /\ threads[t].state = "running" /\ Inst(t).op = "thread_create"
         /\ threads'[t].state = "running" /\ threads'[t].asked = threads[t].asked
         /\ threads'[t].func = threads[t].func /\ threads'[t].pc = threads[t].pc + 1
         /\ threads'[t].left = threads[t].left
         /\ threads'[u].state = "starting"
         /\ \A w \in ThreadIds : w # t /\ w # u => threads'[w] = threads[w]
<1>1. /\ t # u /\ t \in Created /\ u \notin Created
      /\ threads[t].state = "running" /\ Inst(t).op = "thread_create"
  BY DEF Makes, Executing, CanStep
<1>2. threads[t] \in ThreadRec /\ threads[u] \in ThreadRec
  BY DEF Clean
<1> DEFINE R == [threads[t].R EXCEPT ![Inst(t).a] = Thread(u)]
<1>3. /\ threads'[t] = [threads[t] EXCEPT !.R = R, !.pc = @ + 1]
      /\ threads'[u] = [threads[u] EXCEPT !.state = "starting", !.cs = Len(structs'),
                                          !.asked = Reg(t, Inst(t).x).value]
      /\ \A w \in ThreadIds : w # t /\ w # u => threads'[w] = threads[w]
  BY MakesEffect
<1> HIDE DEF R
<1>4. threads'[u].state = "starting"
  BY <1>2, <1>3 DEF ThreadRec
<1>5. /\ threads'[t].state = threads[t].state /\ threads'[t].asked = threads[t].asked
      /\ threads'[t].func = threads[t].func /\ threads'[t].pc = threads[t].pc + 1
      /\ threads'[t].left = threads[t].left
  BY <1>2, <1>3 DEF ThreadRec
<1> QED
  BY <1>1, <1>3, <1>4, <1>5

----------------------------------------------------------------------------
(* A thread runs the function its creator named.                           *)

LEMMA OwnFunctionStep ==
  ASSUME TypeOK, Clean, InPlace, OwnFunction, [Next]_vars
  PROVE  OwnFunction'
<1>1. CASE Rests
  BY <1>1, RestsTypes DEF Rests, OwnFunction
<1>2. ASSUME NEW t \in ThreadIds, Moves(t)
      PROVE  OwnFunction'
  <2>1. Created' = Created /\ \A u \in ThreadIds : u # t => threads'[u] = threads[u]
    BY <1>2, MovesCreated
  <2>2. t \in Created /\ May(t, threads'[t])
    BY <1>2 DEF Moves
  <2> SUFFICES ASSUME NEW u \in Created \ {Main}, threads'[u].state # "starting"
               PROVE  threads'[u].asked = <<"function", threads'[u].func>>
    BY <2>1 DEF OwnFunction
  <2>3. CASE u # t
    BY <2>1, <2>3 DEF OwnFunction, Created
  <2>4. CASE u = t
    BY <2>2, <2>4 DEF OwnFunction, May
  <2> QED
    BY <2>3, <2>4
<1>3. ASSUME NEW t \in ThreadIds, NEW u \in ThreadIds, Makes(t, u)
      PROVE  OwnFunction'
  <2>1. Created' = Created \cup {u}
    BY <1>3, MakesTypes
  <2> QED
    BY <1>3, <2>1, MakesFields DEF OwnFunction, Created
<1> QED
  BY <1>1, <1>2, <1>3, NextShape

\* However many threads are made before a new one gets to read its call_struct, it
\* runs the function it was made for (func_thread_create, thread_call).
THEOREM ThreadsRunTheirOwn == Spec => []OwnFunction
<1>1. Init => OwnFunction
  BY InitTypes DEF Init, OwnFunction, Created, Unused
<1>2. Init => TypeOK /\ Clean /\ InPlace
  BY InitTypes
<1>3. TypeOK /\ Clean /\ InPlace /\ [Next]_vars => TypeOK' /\ Clean' /\ InPlace'
  BY StepTypes
<1>4. TypeOK /\ Clean /\ InPlace /\ OwnFunction /\ [Next]_vars => OwnFunction'
  BY OwnFunctionStep
<1> QED
  BY <1>1, <1>2, <1>3, <1>4, PTL DEF Spec

----------------------------------------------------------------------------
(* The teardown.                                                           *)

\* The driver takes nothing down before the main function has ended; the first
\* thread is the one that runs it.
TornDown ==
  /\ phase = "interpret" => freed = {}
  /\ phase # "interpret" => threads[Main].state = "ended"
  /\ status = "dangling" => threads[Main].state = "ended"

First ==
  /\ threads[Main].state \notin {"none", "starting"}
  /\ threads[Main].func = 1

LEMMA FirstStep ==
  ASSUME TypeOK, Clean, InPlace, First, [Next]_vars
  PROVE  First' /\ (threads[Main].state = "ended" => threads'[Main].state = "ended")
<1>1. Main \in ThreadIds /\ Main \in Created
  BY Naturals DEF First, Created
<1>2. CASE Rests
  BY <1>2 DEF Rests, First
<1>3. ASSUME NEW t \in ThreadIds, Moves(t)
      PROVE  First' /\ (threads[Main].state = "ended" => threads'[Main].state = "ended")
  BY <1>1, <1>3, MovesCreated DEF Moves, May, First
<1>4. ASSUME NEW t \in ThreadIds, NEW u \in ThreadIds, Makes(t, u)
      PROVE  First' /\ (threads[Main].state = "ended" => threads'[Main].state = "ended")
  <2>1. u # Main
    BY <1>1, <1>4, MakesFields
  <2> QED
    BY <1>1, <1>4, <2>1, MakesFields DEF First
<1> QED
  BY <1>2, <1>3, <1>4, NextShape

LEMMA TornDownStep ==
  ASSUME TypeOK, Clean, InPlace, First, TornDown, [Next]_vars
  PROVE  TornDown'
<1>1. threads[Main].state = "ended" => threads'[Main].state = "ended"
  BY FirstStep
<1>2. CASE DriverStep
  BY <1>1, <1>2 DEF DriverStep, FinishInterpret, Interpreted, Teardown, ProcessEnd, Stop,
     TornDown
<1>3. CASE Over \/ UNCHANGED vars
  BY <1>3 DEF Over, vars, TornDown
<1>4. ASSUME NEW t \in ThreadIds, ThreadStep(t)
      PROVE  TornDown'
  <2>1. CASE Dangle(t)
    BY <2>1, <1>1 DEF Dangle, Dangles, Stop, TornDown
  <2>2. CASE ~Dangle(t)
    <3>1. /\ phase' = phase /\ freed' = freed
          /\ status' # "dangling" \/ status' = status
      BY <1>4, <2>2 DEF ThreadStep, LoadK, Closure, Jmp, GetGlobal, SetGlobal, Return,
         ThreadCreate, ThreadCall, ThreadExit, ThreadJoin, Joined, ThreadYield, Sleep, Wake,
         Answer, Stop
    <3> QED
      BY <1>1, <3>1 DEF TornDown
  <2> QED
    BY <2>1, <2>2
<1> QED
  BY <1>2, <1>3, <1>4 DEF Next

LEMMA InitFirst ==
  ASSUME Init
  PROVE  First /\ TornDown
BY ThreadsAssumption DEF Init, First, TornDown, Main, ThreadIds, Unused

\* The main function has the VM, the blocks and the libraries until it ends: what
\* main of bijou.c takes down is missed by the threads that outlive it only.
THEOREM MainIsSafe == Spec => []MainNeverDangles
<1>1. Init => TypeOK /\ Clean /\ InPlace /\ First /\ TornDown
  BY InitTypes, InitFirst
<1>2. /\ TypeOK /\ Clean /\ InPlace /\ First /\ TornDown /\ [Next]_vars
      => TypeOK' /\ Clean' /\ InPlace' /\ First' /\ TornDown'
  BY StepTypes, FirstStep, TornDownStep
<1>3. TornDown => MainNeverDangles
  BY DEF TornDown, MainNeverDangles
<1> QED
  BY <1>1, <1>2, <1>3, PTL DEF Spec

----------------------------------------------------------------------------
(* Who waits for whom.                                                     *)

\* Nobody waits for the first thread, and no two for the same.
Waits ==
  /\ \A t \in ThreadIds : threads[t].state = "joining" => threads[t].on \in Created \ {Main}
  /\ \A t, u \in ThreadIds :
       /\ threads[t].state = "joining" /\ threads[u].state = "joining"
       /\ threads[t].on = threads[u].on
       => t = u

LEMMA WaitsStep ==
  ASSUME TypeOK, Clean, InPlace, Waits, [Next]_vars
  PROVE  Waits'
<1>1. CASE Rests
  BY <1>1, RestsTypes DEF Rests, Waits
<1>2. ASSUME NEW t \in ThreadIds, Moves(t)
      PROVE  Waits'
  <2>1. /\ Created' = Created
        /\ \A u \in ThreadIds : u # t => threads'[u] = threads[u]
        /\ threads'[t].state = "joining" =>
             /\ threads'[t].on \in Created \ {Main}
             /\ \A v \in ThreadIds :
                  ~(threads[v].state = "joining" /\ threads[v].on = threads'[t].on)
    BY <1>2, MovesCreated DEF Moves, May
  <2> QED
    BY <2>1 DEF Waits
<1>3. ASSUME NEW t \in ThreadIds, NEW u \in ThreadIds, Makes(t, u)
      PROVE  Waits'
  <2>1. Created' = Created \cup {u}
    BY <1>3, MakesTypes
  <2>2. \A w \in ThreadIds : threads'[w].state = "joining" => threads'[w] = threads[w]
    BY <1>3, MakesFields
  <2> QED
    BY <2>1, <2>2 DEF Waits
<1> QED
  BY <1>1, <1>2, <1>3, NextShape

\* In a circle with the first thread in it, as many threads as there are would wait
\* for one fewer.
LEMMA NoCircle ==
  ASSUME TypeOK, Waits
  PROVE  MainIsNotInACircle
<1> SUFFICES ASSUME NEW circle \in SUBSET Created,
                    Main \in circle,
                    \A t \in circle : threads[t].state = "joining" /\ threads[t].on \in circle
             PROVE  FALSE
  BY DEF MainIsNotInACircle
<1> DEFINE on == [t \in circle |-> threads[t].on]
           others == circle \ {Main}
<1>1. circle \subseteq ThreadIds
  BY DEF Created
<1>2. on \in [circle -> others]
  BY <1>1 DEF Waits
<1>3. IsFiniteSet(circle)
  <2>1. IsFiniteSet(1 .. MaxThreads)
    BY FS_Interval, ThreadsAssumption
  <2> QED
    BY <1>1, <2>1, FS_Subset DEF ThreadIds
<1>4. IsFiniteSet(others) /\ Cardinality(others) = Cardinality(circle) - 1
      /\ Cardinality(circle) \in Nat
  BY <1>3, FS_RemoveElement, FS_CardinalityType
<1>5. PICK t, u \in circle : t # u /\ on[t] = on[u]
  <2> HIDE DEF on, others
  <2>1. Cardinality(others) < Cardinality(circle)
    BY <1>4
  <2> QED
    BY <1>2, <1>3, <1>4, <2>1, FS_PigeonHole
<1> QED
  BY <1>1, <1>5 DEF Waits

\* The main function never waits in a circle: pthread_join takes one waiter for each
\* thread, and no handle of the first thread is ever made (func_thread_join).
THEOREM MainNeverInACircle == Spec => []MainIsNotInACircle
<1>1. Init => TypeOK /\ Clean /\ InPlace
  BY InitTypes
<1>2. Init => Waits
  BY DEF Init, Waits, Unused
<1>3. TypeOK /\ Clean /\ InPlace /\ [Next]_vars => TypeOK' /\ Clean' /\ InPlace'
  BY StepTypes
<1>4. TypeOK /\ Clean /\ InPlace /\ Waits /\ [Next]_vars => Waits'
  BY WaitsStep
<1>5. TypeOK /\ Waits => MainIsNotInACircle
  BY NoCircle
<1> QED
  BY <1>1, <1>2, <1>3, <1>4, <1>5, PTL DEF Spec

----------------------------------------------------------------------------
(* Loads without a lock.                                                   *)

\* Once a thread is made, the main function is past its early part.
Past ==
  \A x \in Globals : Published(x) /\ Created # {Main} => threads[Main].pc \notin Early

\* The globals no thread stores to while another loads them.
Quiet == {x \in Globals : Published(x) \/ Private(x)}

\* The words a load has copied so far are those the global still has.
Agrees ==
  \A t \in ThreadIds :
    LET i == Inst(t)
    IN  /\ threads[t].state = "running"
        /\ i.op = "getglobal"
        /\ i.x \in Quiet
        => \A w \in Words \ threads[t].left : threads[t].R[i.a][w] = globals[i.x][w]

\* The early part of the main function has no gap.
LEMMA EarlyIsPrefix ==
  ASSUME NEW pc \in Nat, pc \in DOMAIN prog[Main].code, pc + 1 \in Early
  PROVE  pc \in Early
BY DEF Early

LEMMA SamePublished ==
  ASSUME prog' = prog
  PROVE  Early' = Early /\ \A x : Published(x)' = Published(x)
BY DEF Published, Uses, Early

LEMMA PastStep ==
  ASSUME TypeOK, Clean, InPlace, First, Past, [Next]_vars
  PROVE  Past'
<1>1. Main \in ThreadIds /\ Main \in Created /\ Main = 1
  BY Naturals DEF First, Created, Main
<1>2. /\ threads[Main].pc \in Nat /\ threads[Main].pc \in DOMAIN prog[Main].code
      /\ Inst(Main) = prog[Main].code[threads[Main].pc]
  BY <1>1, Fetched DEF Code, Inst, First, ThreadRec
<1>3. CASE Rests
  BY <1>3, RestsTypes, SamePublished DEF Rests, Past
<1>4. ASSUME NEW t \in ThreadIds, Moves(t)
      PROVE  Past'
  <2>1. Created' = Created /\ prog' = prog /\ \A u \in ThreadIds : u # t => threads'[u] = threads[u]
    BY <1>4, MovesCreated DEF Moves
  <2>2. CASE t # Main
    BY <1>1, <2>1, <2>2, SamePublished DEF Past
  <2>3. CASE t = Main
    <3>1. ASSUME NEW x \in Globals, Published(x), threads[Main].pc \notin Early
          PROVE  threads'[Main].pc \notin Early
      <4>1. threads[Main].pc + 1 \notin Early
        BY <1>2, <3>1, EarlyIsPrefix
      <4>2. Inst(Main).op = "jmp" => Inst(Main).x \notin Early
        BY <1>1, <1>2, <3>1 DEF Published
      <4> QED
        BY <1>4, <2>3, <3>1, <4>1, <4>2 DEF Moves, May
    <3> QED
      BY <2>1, <3>1, SamePublished DEF Past
  <2> QED
    BY <2>2, <2>3
<1>5. ASSUME NEW t \in ThreadIds, NEW u \in ThreadIds, Makes(t, u)
      PROVE  Past'
  <2>1. /\ prog' = prog /\ u # Main /\ t # u
        /\ \A w \in ThreadIds : w # t /\ w # u => threads'[w] = threads[w]
        /\ threads'[t].pc = threads[t].pc + 1
        /\ t \in Created /\ Inst(t).op = "thread_create"
    <3>1. /\ t # u /\ u \notin Created
          /\ \A w \in ThreadIds : w # t /\ w # u => threads'[w] = threads[w]
          /\ threads'[t].pc = threads[t].pc + 1
          /\ t \in Created /\ Inst(t).op = "thread_create"
      BY <1>5, MakesFields
    <3>2. prog' = prog
      BY <1>5, Zenon DEF Makes
    <3>3. Main \in Created
      BY <1>1
    <3> QED
      BY <3>1, <3>2, <3>3
  <2>2. CASE t # Main
    BY <1>1, <2>1, <2>2, SamePublished DEF Past
  <2>3. CASE t = Main
    <3>1. threads[Main].pc \notin Early
      <4>1. prog[Main].code \in Seq([op : Ops, a : Regs, x : Nat])
        BY <1>1, Naturals, ThreadsAssumption DEF TypeOK, IsFunction
      <4>2. threads[Main].pc \in 1 .. threads[Main].pc
        BY <1>2, <4>1, LenProperties
      <4> QED
        BY <1>2, <2>1, <2>3, <4>2 DEF Early
    <3>2. threads[Main].pc + 1 \notin Early
      BY <1>2, <3>1, EarlyIsPrefix
    <3> QED
      BY <2>1, <2>3, <3>2, SamePublished DEF Past
  <2> QED
    BY <2>2, <2>3
<1> QED
  BY <1>3, <1>4, <1>5, NextShape

\* A global that is published or private is stored to by no thread while another
\* loads it.
LEMMA NoRace ==
  ASSUME TypeOK, Clean, InPlace, First, OwnFunction, Past,
         NEW t \in Created, NEW u \in Created, t # u,
         threads[t].state = "running", Inst(t).op = "setglobal",
         threads[u].state = "running", Inst(u).op = "getglobal",
         Inst(u).x \in Quiet
  PROVE  Inst(t).x # Inst(u).x
<1> SUFFICES ASSUME Inst(t).x = Inst(u).x
             PROVE  FALSE
  OBVIOUS
<1> DEFINE x == Inst(u).x
<1>1. ASSUME NEW v \in Created, threads[v].state = "running"
      PROVE  /\ threads[v].func \in DOMAIN prog /\ threads[v].pc \in DOMAIN prog[threads[v].func].code
             /\ Inst(v) = prog[threads[v].func].code[threads[v].pc]
             /\ threads[v].func = 1 => v = Main
  <2>1. threads[v] \in ThreadRec /\ threads[v].pc \in DOMAIN Code(v)
    BY Fetched
  <2>2. threads[v].func = 1 => v = Main
    BY <1>1, <2>1 DEF OwnFunction, ThreadRec, Payloads
  <2> QED
    BY <2>1, <2>2 DEF ThreadRec, Code, Inst
<1>2. x \in Globals
  BY DEF Quiet
<1>3. Uses(threads[t].func, x, {"setglobal"}) /\ Uses(threads[t].func, x, {"getglobal", "setglobal"})
  BY <1>1 DEF Uses
<1>4. Uses(threads[u].func, x, {"getglobal", "setglobal"})
  BY <1>1 DEF Uses
<1>5. CASE Private(x)
  <2>1. threads[t].func = 1 /\ threads[u].func = 1
    BY <1>1, <1>3, <1>4, <1>5 DEF Private
  <2> QED
    BY <1>1, <2>1
<1>6. CASE Published(x)
  <2>1. threads[t].func = 1
    BY <1>1, <1>3, <1>6 DEF Published
  <2>2. t = Main
    BY <1>1, <2>1
  <2>3. threads[Main].pc \notin Early
    BY <1>2, <1>6, <2>2 DEF Past
  <2> QED
    BY <1>1, <1>6, <2>1, <2>2, <2>3 DEF Published
<1> QED
  BY <1>5, <1>6 DEF Quiet

LEMMA QuietStep ==
  ASSUME TypeOK, Clean, InPlace, [Next]_vars
  PROVE  prog' = prog /\ Quiet' = Quiet
<1>1. prog' = prog
  <2>1. CASE Rests
    BY <2>1, Zenon DEF Rests
  <2>2. ASSUME NEW t \in ThreadIds, Moves(t)
        PROVE  prog' = prog
    BY <2>2, Zenon DEF Moves
  <2>3. ASSUME NEW t \in ThreadIds, NEW u \in ThreadIds, Makes(t, u)
        PROVE  prog' = prog
    BY <2>3, Zenon DEF Makes
  <2> QED
    BY <2>1, <2>2, <2>3, NextShape
<1> QED
  BY <1>1 DEF Quiet, Published, Private, Uses, Early

\* A thread that loads a global does nothing else.
LEMMA LoadStep ==
  ASSUME NEW t \in ThreadIds, Executing(t, "getglobal"), ThreadStep(t)
  PROVE  GetGlobal(t) \/ threads' = threads
BY DEF ThreadStep, Executing, CanStep, LoadK, Closure, Jmp, SetGlobal, Return, ThreadCreate,
   ThreadCall, ThreadExit, ThreadJoin, Joined, ThreadYield, Sleep, Wake, Dangle, Stop

\* One word more of a load: what was copied before stays, and the word is that of the
\* global.
LEMMA GetGlobalWords ==
  ASSUME TypeOK, Clean, InPlace, Agrees, NEW t \in ThreadIds, GetGlobal(t),
         Inst(t).x \in Quiet
  PROVE  /\ globals' = globals
         /\ threads'[t].pc # threads[t].pc =>
              threads'[t].R[Inst(t).a] = globals[Inst(t).x]
         /\ threads'[t].pc = threads[t].pc =>
              \A w \in Words \ threads'[t].left :
                threads'[t].R[Inst(t).a][w] = globals[Inst(t).x][w]
<1> DEFINE a == Inst(t).a
           x == Inst(t).x
           R == threads[t].R
<1>1. /\ t \in Created /\ threads[t].state = "running" /\ Inst(t).op = "getglobal"
      /\ globals' = globals
  BY CanStepCreated DEF GetGlobal, Executing, CanStep
<1>2. a \in Regs /\ x \in Globals /\ threads[t] \in ThreadRec
  BY <1>1, Fetched DEF IsInstruction
<1>3. R[a] \in CleanValue /\ globals[x] \in CleanValue /\ R \in [Regs -> CleanValue]
  BY <1>2 DEF ThreadRec, Clean
<1>4. \A w \in Words \ threads[t].left : R[a][w] = globals[x][w]
  BY <1>1 DEF Agrees
<1>5. PICK w \in threads[t].left :
        threads' = [threads EXCEPT ![t] =
          Copied(t, w, [@.R EXCEPT ![Inst(t).a][w] = globals[Inst(t).x][w]])]
  BY DEF GetGlobal
<1> DEFINE S == [R EXCEPT ![a][w] = globals[x][w]]
<1>6. threads'[t] = Copied(t, w, S)
  BY <1>5 DEF Clean
<1>7. w \in Words /\ Words = {"value", "tt"}
  BY <1>2 DEF ThreadRec, Words
<1>8. S[a][w] = globals[x][w] /\ \A v \in Words : v # w => S[a][v] = R[a][v]
  <2>1. S[a] = [R[a] EXCEPT ![w] = globals[x][w]]
    BY <1>2, <1>3
  <2> HIDE DEF S, R, a, x
  <2>2. CASE w = "value"
    BY <1>3, <1>7, <2>1, <2>2 DEF CleanValue
  <2>3. CASE w = "tt"
    BY <1>3, <1>7, <2>1, <2>3 DEF CleanValue
  <2> QED
    BY <1>7, <2>2, <2>3
<1>9. S[a] \in CleanValue
  <2>1. S[a] = [R[a] EXCEPT ![w] = globals[x][w]]
    BY <1>2, <1>3
  <2> HIDE DEF S, R, a, x
  <2> QED
    BY <1>3, <1>7, <2>1 DEF CleanValue
<1> HIDE DEF S, R
<1>10. CASE threads[t].left = {w}
  <2>1. threads'[t].R = S /\ threads'[t].pc = threads[t].pc + 1
    BY <1>2, <1>6, <1>10 DEF Copied, ThreadRec
  <2>2. \A v \in Words : S[a][v] = globals[x][v]
    BY <1>4, <1>7, <1>8, <1>10
  <2>3. S[a] = globals[x]
    BY <1>3, <1>7, <1>9, <2>2 DEF CleanValue
  <2>4. threads[t].pc + 1 # threads[t].pc
    BY <1>2 DEF ThreadRec
  <2> QED
    BY <1>1, <2>1, <2>3, <2>4
<1>11. CASE threads[t].left # {w}
  <2>1. /\ threads'[t].R = S /\ threads'[t].pc = threads[t].pc
        /\ threads'[t].left = threads[t].left \ {w}
    BY <1>2, <1>6, <1>11 DEF Copied, ThreadRec
  <2>2. \A v \in Words \ threads'[t].left : S[a][v] = globals[x][v]
    BY <1>4, <1>8, <2>1
  <2> QED
    BY <1>1, <2>1, <2>2
<1> QED
  BY <1>10, <1>11

LEMMA AgreesStep ==
  ASSUME TypeOK, Clean, InPlace, First, OwnFunction, Past, Agrees, [Next]_vars
  PROVE  Agrees'
<1>1. CASE Rests
  BY <1>1, QuietStep DEF Rests, Agrees, Inst, Code
<1>2. ASSUME NEW t \in ThreadIds, Moves(t)
      PROVE  Agrees'
  <2> SUFFICES ASSUME NEW u \in ThreadIds,
                      threads'[u].state = "running",
                      Inst(u)'.op = "getglobal",
                      Inst(u)'.x \in Quiet,
                      NEW w \in Words \ threads'[u].left
               PROVE  threads'[u].R[Inst(u)'.a][w] = globals'[Inst(u)'.x][w]
    BY QuietStep DEF Agrees
  <2>1. prog' = prog /\ \A v \in ThreadIds : v # t => threads'[v] = threads[v]
    BY <1>2, MovesCreated DEF Moves
  <2>2. CASE u # t
    <3>1. threads'[u] = threads[u] /\ Inst(u)' = Inst(u)
      BY <2>1, <2>2 DEF Inst, Code
    <3>2. threads[u].R[Inst(u).a][w] = globals[Inst(u).x][w]
      BY <3>1 DEF Agrees
    <3>3. CASE globals' = globals
      BY <3>1, <3>2, <3>3
    <3>4. CASE SetGlobal(t)
      <4>1. /\ t \in Created /\ u \in Created
            /\ threads[t].state = "running" /\ Inst(t).op = "setglobal"
        BY <3>1, <3>4 DEF SetGlobal, Executing, CanStep, Created
      <4>2. Inst(t).x # Inst(u).x
        BY <2>2, <3>1, <4>1, NoRace
      <4>3. Inst(u).x \in Globals
        BY <3>1, <4>1, Fetched DEF IsInstruction
      <4>4. globals'[Inst(u).x] = globals[Inst(u).x]
        BY <3>4, <4>2, <4>3 DEF SetGlobal, Clean
      <4> QED
        BY <3>1, <3>2, <4>4
    <3> QED
      BY <1>2, <3>3, <3>4 DEF Moves, GetGlobal
  <2>3. CASE u = t
    <3>1. threads'[t].left # Words
      BY <2>3
    <3>2. CASE GetGlobal(t)
      <4>1. /\ t \in Created /\ threads[t].state = "running" /\ Inst(t).op = "getglobal"
        BY <3>2, CanStepCreated DEF GetGlobal, Executing, CanStep
      <4>2. threads'[t].pc = threads[t].pc /\ threads'[t].func = threads[t].func
        <5>1. PICK v, R :
                v \in threads[t].left /\ threads'[t] = Copied(t, v, R)
          BY <3>2 DEF GetGlobal, Clean
        <5>2. threads[t] \in ThreadRec
          BY DEF Clean
        <5> QED
          BY <3>1, <5>1, <5>2 DEF Copied, ThreadRec
      <4>3. Inst(t)' = Inst(t)
        BY <2>1, <4>2 DEF Inst, Code
      <4> QED
        BY <2>3, <3>2, <4>2, <4>3, GetGlobalWords
    <3>3. CASE SetGlobal(t)
      <4>1. /\ t \in Created /\ threads[t].state = "running" /\ Inst(t).op = "setglobal"
        BY <3>3, CanStepCreated DEF SetGlobal, Executing, CanStep
      <4>2. threads'[t].pc = threads[t].pc /\ threads'[t].func = threads[t].func
        <5>1. PICK v, R :
                v \in threads[t].left /\ threads'[t] = Copied(t, v, R)
          BY <3>3 DEF SetGlobal, Clean
        <5>2. threads[t] \in ThreadRec
          BY DEF Clean
        <5> QED
          BY <3>1, <5>1, <5>2 DEF Copied, ThreadRec
      <4>3. Inst(t)' = Inst(t)
        BY <2>1, <4>2 DEF Inst, Code
      <4> QED
        BY <2>3, <4>1, <4>3
    <3> QED
      BY <1>2, <3>1, <3>2, <3>3 DEF Moves
  <2> QED
    BY <2>2, <2>3
<1>3. ASSUME NEW t \in ThreadIds, NEW u \in ThreadIds, Makes(t, u)
      PROVE  Agrees'
  <2> SUFFICES ASSUME NEW v \in ThreadIds,
                      threads'[v].state = "running",
                      Inst(v)'.op = "getglobal",
                      Inst(v)'.x \in Quiet,
                      NEW w \in Words \ threads'[v].left
               PROVE  threads'[v].R[Inst(v)'.a][w] = globals'[Inst(v)'.x][w]
    BY QuietStep DEF Agrees
  <2>1. threads'[t].left = Words /\ threads'[u].state = "starting"
    BY <1>3, MakesFields, Place
  <2>2. v # t /\ v # u
    BY <2>1
  <2>3. threads'[v] = threads[v] /\ prog' = prog /\ globals' = globals
    <3>1. threads'[v] = threads[v]
      BY <1>3, <2>2, MakesFields
    <3>2. prog' = prog /\ globals' = globals
      BY <1>3, Zenon DEF Makes
    <3> QED
      BY <3>1, <3>2
  <2>4. Inst(v)' = Inst(v)
    BY <2>3 DEF Inst, Code
  <2> QED
    BY <2>3, <2>4 DEF Agrees
<1> QED
  BY <1>1, <1>2, <1>3, NextShape

LEMMA InitLoads ==
  ASSUME Init
  PROVE  Past /\ Agrees
<1>1. \A t \in ThreadIds : /\ threads[t].left = Words
                           /\ threads[t].state = IF t = Main THEN "running" ELSE "none"
  BY DEF Init, Unused
<1>2. Created = {Main}
  BY <1>1, ThreadsAssumption DEF Created, Main, ThreadIds
<1> QED
  BY <1>1, <1>2 DEF Past, Agrees

LEMMA ExactLoad ==
  ASSUME TypeOK, Clean, InPlace, Agrees, [Next]_vars, NEW t \in ThreadIds,
         Executing(t, "getglobal"), threads'[t].pc # threads[t].pc,
         Published(Inst(t).x) \/ Private(Inst(t).x)
  PROVE  threads'[t].R[Inst(t).a] = globals[Inst(t).x]
<1>1. t \in Created /\ Inst(t).op = "getglobal"
  BY CanStepCreated DEF Executing
<1>2. Inst(t).x \in Quiet
  BY <1>1, Fetched DEF IsInstruction, Quiet
<1>3. ASSUME NEW u \in ThreadIds, ThreadStep(u), u # t
      PROVE  FALSE
  <2>1. CASE Rests
    BY <2>1 DEF Rests
  <2>2. CASE Moves(u)
    BY <1>3, <2>2, MovesCreated
  <2>3. ASSUME NEW v \in ThreadIds, Makes(u, v)
        PROVE  FALSE
    BY <1>1, <1>3, <2>3, MakesFields
  <2> QED
    BY <1>3, <2>1, <2>2, <2>3, StepShape
<1>4. ThreadStep(t)
  <2>1. CASE DriverStep \/ Over \/ UNCHANGED vars
    BY <2>1 DEF DriverStep, FinishInterpret, Teardown, ProcessEnd, Stop, Over, vars
  <2> QED
    BY <1>3, <2>1 DEF Next
<1>5. GetGlobal(t)
  BY <1>4, LoadStep
<1> QED
  BY <1>2, <1>5, GetGlobalWords

\* A global that is published or private is loaded whole and up to date, although
\* nothing locks it and its words are copied one after the other (OP_GETGLOBAL,
\* OP_SETGLOBAL).
THEOREM LoadsHold == Spec => LoadsAreExact
<1> DEFINE Inv == /\ TypeOK /\ Clean /\ InPlace /\ First /\ OwnFunction /\ Past /\ Agrees
           Exact == \A t \in ThreadIds :
                      (/\ Executing(t, "getglobal")
                       /\ threads'[t].pc # threads[t].pc
                       /\ Published(Inst(t).x) \/ Private(Inst(t).x))
                      => threads'[t].R[Inst(t).a] = globals[Inst(t).x]
<1>1. Init => Inv
  <2>1. Init => OwnFunction
    BY DEF Init, OwnFunction, Created, Unused
  <2> QED
    BY <2>1, InitTypes, InitFirst, InitLoads
<1>2. Inv /\ [Next]_vars => Inv'
  BY StepTypes, FirstStep, OwnFunctionStep, PastStep, AgreesStep
<1>3. Inv /\ [Next]_vars => [Exact]_vars
  BY ExactLoad
<1> HIDE DEF Inv
<1> QED
  BY <1>1, <1>2, <1>3, PTL DEF Spec, LoadsAreExact
=============================================================================
