---------------------------- MODULE InterpProofs ----------------------------
(***************************************************************************)
(* Theorems about Interp, for every program, library, set of values and    *)
(* depth of the C stack.                                                   *)
(***************************************************************************)
EXTENDS Interp, TLAPS, SequenceTheorems

----------------------------------------------------------------------------
(* Values.                                                                 *)

\* A tag determines what the payload is.
LEMMA ValueTags ==
  ASSUME NEW v \in Value
  PROVE  /\ Tag(v) = "number" => Payload(v) \in Nums
         /\ Tag(v) = "boolean" => Payload(v) \in BOOLEAN
         /\ Tag(v) = "string" => Payload(v) \in Strings
         /\ Tag(v) = "function" => /\ Payload(v) \in Callees(1 .. Len(prog))
                                   /\ v = Function(Payload(v))
BY DEF Value, ValueOver, PlainValue, ConstValue, Tag, Payload, None, Null, Junk, Function

LEMMA ValueMembers ==
  /\ None \in Value /\ Null \in Value /\ Junk \in Value
  /\ ConstValue \subseteq Value
  /\ AnyNumber \subseteq Value
  /\ LibValue \subseteq Value
  /\ \A n \in Nums : Number(n) \in Value
  /\ \A b \in BOOLEAN : Boolean(b) \in Value
  /\ \A f \in Callees(1 .. Len(prog)) : Function(f) \in Value
BY DEF Value, ValueOver, PlainValue, ConstValue, LibValue, None, Null, Junk, AnyNumber,
       Number, Boolean, Function

LEMMA RepresentedType == \A n : Represented(n) \subseteq Value
BY ValueMembers DEF Represented

\* The operators on numbers yield values, or None for an operand that is none.
LEMMA ArithType ==
  \A op, v, w : ArithResults(op, v, w) \subseteq Value /\ UnmResults(v) \subseteq Value
BY ValueMembers, RepresentedType DEF ArithResults, NumberResults, UnmResults

\* What decides a skip or a negation is a truth value.
LEMMA TruthType ==
  ASSUME NEW v \in Value, NEW w \in Value, NEW op
  PROVE  /\ BoolReadings(v) \subseteq BOOLEAN
         /\ CompareResults(op, v, w) \subseteq BOOLEAN
         /\ EqualResults(v, w) \subseteq BOOLEAN
<1>1. BoolReadings(v) \subseteq BOOLEAN
  BY ValueTags DEF BoolReadings
<1>2. CompareResults(op, v, w) \subseteq BOOLEAN
  BY ValueTags, NumsAssumption DEF CompareResults
<1>3. EqualResults(v, w) \subseteq BOOLEAN
  BY DEF EqualResults
<1> QED
  BY <1>1, <1>2, <1>3

----------------------------------------------------------------------------
(* What the running activation executes.                                   *)

\* The fields of a word and the counters of a block are natural numbers.
LEMMA Naturals == ArgA \subseteq Nat /\ ArgBC \subseteq Nat /\ Byte \subseteq Nat
BY DEF ArgA, ArgBC, Byte

\* The block of an activation is a block, and so is the first one.
LEMMA BlockFacts ==
  ASSUME TypeOK, NEW b \in 1 .. Len(prog)
  PROVE  /\ prog[b].code \in Seq(Instruction)
         /\ prog[b].k \in Seq(ConstValue)
         /\ prog[b].regc \in Byte
         /\ prog[b].argc \in Byte
         /\ prog[b].numglobal \in Byte
         /\ prog[b].children \in Seq(1 .. Len(prog))
BY DEF TypeOK, IsProgram, IsBlock

LEMMA CurFacts ==
  ASSUME TypeOK
  PROVE  /\ cur.block \in 1 .. Len(prog)
         /\ cur.pc \in Int
         /\ cur.R \in [Registers(cur) -> Value]
         /\ cur.argc \in 0 .. 511 /\ cur.argv \in 0 .. 512
         /\ 1 \in 1 .. Len(prog)
         /\ Len(Blk.code) \in Nat /\ Len(Blk.k) \in Nat /\ Len(Blk.children) \in Nat
         /\ Blk.regc \in Nat
         /\ NumGlobals \in Nat
<1>1. cur.block \in 1 .. Len(prog) /\ Len(prog) \in Nat \ {0}
  BY DEF TypeOK, IsFrame, IsProgram
<1>2. 1 \in 1 .. Len(prog)
  BY <1>1
<1>3. /\ Len(Blk.code) \in Nat /\ Len(Blk.k) \in Nat /\ Len(Blk.children) \in Nat
  BY <1>1, BlockFacts, LenProperties DEF Blk
<1>4. Blk.regc \in Nat /\ NumGlobals \in Nat
  BY <1>1, <1>2, BlockFacts, Naturals, Zenon DEF Blk, NumGlobals
<1> QED
  BY <1>1, <1>2, <1>3, <1>4 DEF TypeOK, IsFrame

InCode == cur.pc \in 0 .. Len(Blk.code) - 1

LEMMA Fetched ==
  ASSUME TypeOK, InCode
  PROVE  /\ I.a \in Nat /\ I.b \in Nat /\ I.c \in Nat
         /\ Bx(I) \in Nat
         /\ I.op \in Opcode \cup {"undefined"}
         /\ ~ISK(I.a)
<1>1. Blk.code \in Seq(Instruction)
  BY BlockFacts, CurFacts DEF Blk
<1>2. cur.pc + 1 \in 1 .. Len(Blk.code)
  BY CurFacts DEF InCode
<1>3. I \in Instruction
  BY <1>1, <1>2, ElementOfSeq DEF I
<1>4. /\ I.a \in ArgA /\ I.b \in ArgBC /\ I.c \in ArgBC
      /\ I.op \in Opcode \cup {"undefined"}
  BY <1>3 DEF Instruction
<1>5. I.a \in Nat /\ I.b \in Nat /\ I.c \in Nat
  BY <1>4, Naturals, Zenon
<1>6. Bx(I) \in Nat
  <2>1. \A m, n \in Nat : m * 512 + n \in Nat
    OBVIOUS
  <2> QED
    BY <1>5, <2>1 DEF Bx
<1>7. ~ISK(I.a)
  BY <1>4 DEF ISK, BITRK, ArgA
<1> QED
  BY <1>4, <1>5, <1>6, <1>7

LEMMA FetchedRange ==
  ASSUME TypeOK, InCode
  PROVE  I.c \in 0 .. 511 /\ I.b + 1 \in 0 .. 512
<1>1. Blk.code \in Seq(Instruction)
  BY BlockFacts, CurFacts DEF Blk
<1>2. cur.pc + 1 \in 1 .. Len(Blk.code)
  BY CurFacts DEF InCode
<1>3. I \in Instruction
  BY <1>1, <1>2, ElementOfSeq DEF I
<1>4. \A x \in ArgBC : x \in 0 .. 511 /\ x + 1 \in 0 .. 512
  BY DEF ArgBC
<1> QED
  BY <1>3, <1>4 DEF Instruction

LEMMA ConstFacts ==
  ASSUME TypeOK, NEW x, InConsts(x)
  PROVE  K(x) \in ConstValue /\ K(x) \in Value
<1>1. Blk.k \in Seq(ConstValue)
  BY BlockFacts, CurFacts DEF Blk
<1>2. x + 1 \in 1 .. Len(Blk.k)
  BY CurFacts DEF InConsts
<1> QED
  BY <1>1, <1>2, ElementOfSeq, ValueMembers DEF K

LEMMA RegisterFacts ==
  ASSUME TypeOK, NEW x, InRegisters(x)
  PROVE  cur.R[x] \in Value
BY CurFacts DEF InRegisters

LEMMA OperandFacts ==
  ASSUME TypeOK, NEW x, InRK(x)
  PROVE  RK(x) \in Value
BY ConstFacts, RegisterFacts DEF InRK, RK

\* What Checked says of the instruction that runs, in the terms of the machine.
LEMMA CheckedFacts ==
  ASSUME TypeOK, InCode, Checked(prog)
  PROVE  /\ CheckedOperands(I, Blk)
         /\ Successors(I, cur.pc) \subseteq 0 .. Len(Blk.code) - 1
         /\ Registers(cur) = 0 .. Blk.regc - 1
<1>1. CheckedBlock(Blk)
  BY CurFacts DEF Checked, Blk
<1>2. cur.pc + 1 \in 1 .. Len(Blk.code) /\ (cur.pc + 1) - 1 = cur.pc
  BY CurFacts DEF InCode
<1> QED
  BY <1>1, <1>2 DEF CheckedBlock, I, Registers, Blk

LEMMA CodeNotEmpty ==
  ASSUME TypeOK, Checked(prog), NEW b \in 1 .. Len(prog)
  PROVE  0 \in 0 .. Len(prog[b].code) - 1
<1>1. prog[b].code # <<>>
  BY DEF Checked, CheckedBlock
<1>2. Len(prog[b].code) \in Nat \ {0}
  BY <1>1, BlockFacts, EmptySeq
<1> QED
  BY <1>2

\* What Checked gives each group of instructions.
LEMMA CheckedUse ==
  ASSUME TypeOK, InCode, Checked(prog)
  PROVE  /\ I.op \in Opcode \ {"nop", "getlocal", "setlocal", "jmp"} => InRegisters(I.a)
         /\ I.op = "move" => InRegisters(I.b)
         /\ I.op \in {"loadk", "getglobal", "setglobal"} => InConsts(Bx(I))
         /\ I.op = "getexternal" => InConsts(I.b)
         /\ I.op \in ArithOps \cup {"unm", "not", "eq"} \cup CompareOps => InRK(I.b)
         /\ I.op \in ArithOps => InRK(I.c)
         /\ I.op = "call" => I.b + I.c \in Registers(cur)
         /\ I.op = "closure" => ISK(Bx(I)) \/ Bx(I) # Len(Blk.children)
<1>0. CheckedOperands(I, Blk)
  BY CheckedFacts
<1>1. /\ Registers(cur) = 0 .. Blk.regc - 1
      /\ I.a \in Nat /\ I.b \in Nat /\ I.c \in Nat /\ Bx(I) \in Nat
      /\ Blk.regc \in Nat /\ Len(Blk.k) \in Nat
  BY CheckedFacts, Fetched, CurFacts, Zenon
<1>2. \A x \in Nat : x < Blk.regc => InRegisters(x)
  BY <1>1 DEF InRegisters
<1>3. \A x \in Nat : x < Len(Blk.k) => InConsts(x)
  BY <1>1 DEF InConsts
<1>4. \A x \in Nat :
        (IF ISK(x) THEN INDEXRK(x) < Len(Blk.k) ELSE x < Blk.regc) => InRK(x)
  <2>1. \A x \in Nat : ISK(x) => INDEXRK(x) \in Nat
    BY DEF ISK, INDEXRK, BITRK
  <2> QED
    BY <1>2, <1>3, <2>1 DEF InRK
<1>5. I.op \in Opcode \ {"nop", "getlocal", "setlocal", "jmp"} => InRegisters(I.a)
  <2>1. "undefined" \notin Opcode
    BY DEF Opcode, ArithOps, CompareOps
  <2>2. I.op \in Opcode \ {"nop", "getlocal", "setlocal", "jmp"} => I.a < Blk.regc
    BY <1>0, <2>1 DEF CheckedOperands
  <2> QED
    BY <1>1, <1>2, <2>2
<1>6. I.op = "move" => InRegisters(I.b)
  BY <1>0, <1>1, <1>2 DEF CheckedOperands
<1>7. /\ I.op \in {"loadk", "getglobal", "setglobal"} => InConsts(Bx(I))
      /\ I.op = "getexternal" => InConsts(I.b)
  BY <1>0, <1>1, <1>3 DEF CheckedOperands
<1>8. /\ I.op \in ArithOps \cup {"unm", "not", "eq"} \cup CompareOps => InRK(I.b)
      /\ I.op \in ArithOps => InRK(I.c)
  BY <1>0, <1>1, <1>4 DEF CheckedOperands
<1>9. I.op = "call" => I.b + I.c \in Registers(cur)
  <2>1. I.op = "call" => I.b + I.c < Blk.regc
    BY <1>0 DEF CheckedOperands
  <2> QED
    BY <1>1, <2>1
<1>10. I.op = "closure" => ISK(Bx(I)) \/ Bx(I) # Len(Blk.children)
  BY <1>0 DEF CheckedOperands
<1> QED
  BY <1>5, <1>6, <1>7, <1>8, <1>9, <1>10

----------------------------------------------------------------------------
(* The shapes of a step.  Every instruction has one of them, and what is   *)
(* invariant depends on the shape only.                                    *)

\* The activation goes on, at one of these instructions.
Local(pcs) ==
  /\ \E R \in [Registers(cur) -> Value] : \E pc \in pcs :
       cur' = [cur EXCEPT !.R = R, !.pc = pc]
  /\ globals' \in [0 .. NumGlobals - 1 -> Value]
  /\ UNCHANGED <<prog, callers, status, result>>

LocalStep == Local(Int) /\ (InCode /\ Checked(prog) => Local(Successors(I, cur.pc)))

\* The run ends here; that of a checked program, inside its memory.
StopStep ==
  \E s \in Status \ {"running", "returned"} :
     Stop(s) /\ (InCode /\ Checked(prog) => s # "wild")

LeaveStep == \E v \in Value : Leave(v)

EnterStep ==
  \E b \in 1 .. Len(prog) :
    /\ InCode /\ I.op = "call" /\ InRegisters(I.b)
    /\ cur.R[I.b] = Function(<<"block", b>>)
    /\ I.c = prog[b].argc
    /\ callers' = Append(callers, cur)
    /\ cur' = Activation(prog, b, I.c, I.b + 1)
    /\ UNCHANGED <<prog, globals, status, result>>

Shape == LocalStep \/ StopStep \/ LeaveStep \/ EnterStep

LEMMA StopShape ==
  ASSUME NEW s \in Status \ {"running", "returned"}, Stop(s),
         InCode /\ Checked(prog) => s # "wild"
  PROVE  Shape
BY DEF Shape, StopStep

LEMMA LeaveShape ==
  ASSUME NEW v \in Value, Leave(v)
  PROVE  Shape
BY DEF Shape, LeaveStep

LEMMA GotoShape ==
  ASSUME TypeOK, NEW pc \in Int, Goto(pc),
         InCode /\ Checked(prog) => pc \in Successors(I, cur.pc)
  PROVE  Shape
<1>1. cur' = [cur EXCEPT !.R = cur.R, !.pc = pc]
  BY DEF Goto, TypeOK, IsFrame
<1>2. globals' \in [0 .. NumGlobals - 1 -> Value]
  BY DEF Goto, TypeOK
<1>3. \A pcs : pc \in pcs => Local(pcs)
  BY <1>1, <1>2, CurFacts DEF Local, Goto
<1> QED
  BY <1>3 DEF Shape, LocalStep

\* A plain instruction is followed by the next one.
PlainOps == Opcode \ ({"jmp", "return", "getlocal", "setlocal", "eq"} \cup CompareOps)

LEMMA PlainSuccessor ==
  ASSUME TypeOK, I.op \in PlainOps
  PROVE  cur.pc + 1 \in Int /\ cur.pc + 1 \in Successors(I, cur.pc)
BY CurFacts DEF PlainOps, Successors, Opcode, CompareOps, ArithOps

LEMMA StoreShape ==
  ASSUME TypeOK, InCode, I.op \in PlainOps \ {"nop"},
         NEW values, values \subseteq Value, Store(values)
  PROVE  Shape
<1>1. CASE InRegisters(I.a)
  <2>1. PICK v \in values : cur' = [cur EXCEPT !.R = [@ EXCEPT ![I.a] = v], !.pc = @ + 1]
    BY <1>1 DEF Store
  <2> DEFINE R == [cur.R EXCEPT ![I.a] = v]
  <2>2. R \in [Registers(cur) -> Value]
    BY CurFacts
  <2>3. cur' = [cur EXCEPT !.R = R, !.pc = cur.pc + 1]
    BY <2>1
  <2>4. \A pcs : cur.pc + 1 \in pcs => Local(pcs)
    BY <1>1, <2>2, <2>3 DEF Local, Store, TypeOK
  <2> QED
    BY <2>4, PlainSuccessor DEF Shape, LocalStep
<1>2. CASE ~InRegisters(I.a)
  <2>1. ~Checked(prog)
    BY <1>2, CheckedUse DEF PlainOps
  <2> QED
    BY <1>2, <2>1, StopShape DEF Store, Status
<1> QED
  BY <1>1, <1>2

----------------------------------------------------------------------------
(* One lemma per instruction: its shape.                                   *)

LEMMA DispatchShape ==
  ASSUME TypeOK, I.op \in PlainOps, Dispatch
  PROVE  Shape
BY GotoShape, PlainSuccessor DEF Dispatch

LEMMA MoveShapes ==
  ASSUME TypeOK, Nop \/ Move \/ LoadK \/ LoadBool \/ LoadNull
  PROVE  Shape
<1> USE DEF Executing
<1>1. CASE Nop
  BY <1>1, DispatchShape DEF Nop, PlainOps, Opcode, CompareOps
<1>2. CASE Move
  <2>1. I.op = "move" /\ InCode /\ I.op \in PlainOps
    BY <1>2 DEF Move, InCode, PlainOps, Opcode, CompareOps
  <2>2. CASE InRegisters(I.b)
    <3>1. {cur.R[I.b]} \subseteq Value
      BY <2>2, RegisterFacts
    <3> QED
      BY <1>2, <2>1, <2>2, <3>1, StoreShape DEF Move
  <2>3. CASE ~InRegisters(I.b)
    BY <1>2, <2>1, <2>3, StopShape, CheckedUse DEF Move, Status
  <2> QED
    BY <2>2, <2>3
<1>3. CASE LoadK
  <2>1. I.op = "loadk" /\ InCode /\ I.op \in PlainOps
    BY <1>3 DEF LoadK, InCode, PlainOps, Opcode, CompareOps
  <2>2. CASE InConsts(Bx(I))
    <3>1. {K(Bx(I))} \subseteq Value
      BY <2>2, ConstFacts
    <3> QED
      BY <1>3, <2>1, <2>2, <3>1, StoreShape DEF LoadK
  <2>3. CASE ~InConsts(Bx(I))
    BY <1>3, <2>1, <2>3, StopShape, CheckedUse DEF LoadK, Status
  <2> QED
    BY <2>2, <2>3
<1>4. CASE LoadBool
  <2>1. I.op = "loadbool" /\ InCode /\ I.op \in PlainOps
    BY <1>4 DEF LoadBool, InCode, PlainOps, Opcode, CompareOps
  <2>2. {Boolean(I.b # 0)} \subseteq Value
    BY ValueMembers
  <2> QED
    BY <1>4, <2>1, <2>2, StoreShape DEF LoadBool
<1>5. CASE LoadNull
  <2>1. I.op = "loadnull" /\ InCode /\ I.op \in PlainOps
    BY <1>5 DEF LoadNull, InCode, PlainOps, Opcode, CompareOps
  <2>2. {Null} \subseteq Value
    BY ValueMembers
  <2> QED
    BY <1>5, <2>1, <2>2, StoreShape DEF LoadNull
<1> QED
  BY <1>1, <1>2, <1>3, <1>4, <1>5

LEMMA GlobalShapes ==
  ASSUME TypeOK, GetGlobal \/ SetGlobal
  PROVE  Shape
<1>1. /\ I.op \in {"getglobal", "setglobal"} /\ InCode /\ I.op \in PlainOps \ {"nop"}
      /\ None \in Value
  BY ValueMembers
  DEF GetGlobal, SetGlobal, Executing, InCode, PlainOps, Opcode, CompareOps
<1>2. CASE ~InConsts(Bx(I)) /\ Stop("wild")
  BY <1>1, <1>2, StopShape, CheckedUse DEF Status
<1>3. CASE Leave(None)
  BY <1>1, <1>3, LeaveShape
<1>4. CASE InConsts(Bx(I)) /\ NamesGlobal /\ Store({globals[GlobalIndex]})
  <2>1. {globals[GlobalIndex]} \subseteq Value
    BY <1>4 DEF NamesGlobal, TypeOK
  <2> QED
    BY <1>1, <1>4, <2>1, StoreShape
<1>5. CASE ~InRegisters(I.a) /\ Stop("wild")
  <2>1. ~Checked(prog)
    BY <1>1, <1>5, CheckedUse DEF PlainOps
  <2> QED
    BY <1>5, <2>1, StopShape DEF Status
<1>6. CASE /\ NamesGlobal /\ InRegisters(I.a)
           /\ globals' = [globals EXCEPT ![GlobalIndex] = cur.R[I.a]]
           /\ cur' = [cur EXCEPT !.pc = @ + 1]
           /\ UNCHANGED <<prog, callers, status, result>>
  <2>1. globals' \in [0 .. NumGlobals - 1 -> Value]
    BY <1>6, RegisterFacts DEF TypeOK
  <2>2. cur' = [cur EXCEPT !.R = cur.R, !.pc = cur.pc + 1]
    BY <1>6 DEF TypeOK, IsFrame
  <2>3. \A pcs : cur.pc + 1 \in pcs => Local(pcs)
    BY <1>6, <2>1, <2>2, CurFacts DEF Local
  <2> QED
    BY <1>1, <2>3, PlainSuccessor DEF Shape, LocalStep
<1> QED
  BY <1>2, <1>3, <1>4, <1>5, <1>6 DEF GetGlobal, SetGlobal, GlobalAccess

\* The two local instructions only ever leave, as does a word of no opcode.
LEMMA LeavingShapes ==
  ASSUME TypeOK, GetLocal \/ SetLocal \/ Undefined
  PROVE  Shape
BY ValueMembers, LeaveShape DEF GetLocal, SetLocal, Undefined

----------------------------------------------------------------------------
(* The activation below the running one.                                   *)

LEMMA StackFacts ==
  ASSUME TypeOK
  PROVE  /\ Len(callers) \in Nat
         /\ Len(Stack) = Len(callers) + 1
         /\ Stack[Len(callers) + 1] = cur
         /\ \A d \in 1 .. Len(callers) : Stack[d] = callers[d] /\ IsFrame(callers[d])
         /\ callers # <<>> => /\ Len(callers) \in 1 .. Len(callers)
                             /\ Last(callers) = callers[Len(callers)]
<1>1. callers \in Seq(Range(callers)) /\ \A f \in Range(callers) : IsFrame(f)
  BY DEF TypeOK
<1>2. \A d \in 1 .. Len(callers) : callers[d] \in Range(callers)
  BY <1>1, ElementOfSeq
<1>3. callers \in Seq(Range(callers) \cup {cur})
  BY <1>1
<1>4. /\ Len(Stack) = Len(callers) + 1
      /\ Stack[Len(callers) + 1] = cur
      /\ \A d \in 1 .. Len(callers) : Stack[d] = callers[d]
  BY <1>3, AppendProperties DEF Stack
<1>5. Len(callers) \in Nat /\ (callers # <<>> => Len(callers) \in 1 .. Len(callers))
  BY <1>1, LenProperties, EmptySeq
<1> QED
  BY <1>1, <1>2, <1>4, <1>5 DEF Last

LEMMA TopCall ==
  ASSUME TypeOK, CallChain, callers # <<>>
  PROVE  /\ IsFrame(Last(callers))
         /\ Last(callers).pc \in 0 .. Len(prog[Last(callers).block].code) - 1
         /\ CallOf(Last(callers)).op = "call"
         /\ CallOf(Last(callers)).b \in Registers(Last(callers))
         /\ cur.argv = CallOf(Last(callers)).b + 1
         /\ cur.argc = CallOf(Last(callers)).c
         /\ cur.argc = prog[cur.block].argc
<1>1. Len(callers) \in 1 .. Len(callers) /\ Last(callers) = callers[Len(callers)]
  BY StackFacts
<1> QED
  BY <1>1, StackFacts DEF CallChain, WaitsFor

LEMMA CallWord ==
  ASSUME TypeOK, NEW f, IsFrame(f), f.pc \in 0 .. Len(prog[f.block].code) - 1
  PROVE  /\ CallOf(f) \in Instruction
         /\ prog[f.block].regc \in Nat
         /\ Checked(prog) => CheckedOperands(CallOf(f), prog[f.block])
<1>1. f.block \in 1 .. Len(prog)
  BY DEF IsFrame
<1>2. prog[f.block].code \in Seq(Instruction) /\ prog[f.block].regc \in Nat
  BY <1>1, BlockFacts, Naturals, Zenon
<1>3. f.pc + 1 \in 1 .. Len(prog[f.block].code)
  BY <1>2, LenProperties
<1>4. Checked(prog) => CheckedOperands(CallOf(f), prog[f.block])
  BY <1>1, <1>3 DEF Checked, CheckedBlock, CallOf
<1> QED
  BY <1>2, <1>3, <1>4, ElementOfSeq DEF CallOf

\* The caller of a checked program has room for the arguments of its call and
\* for the result.
LEMMA RoomBelow ==
  ASSUME TypeOK, CallChain, Checked(prog), callers # <<>>
  PROVE  /\ CallOf(Last(callers)).a \in Registers(Last(callers))
         /\ \A x \in Nat : x < cur.argc => ArgInRegisters(x)
<1> DEFINE f == Last(callers)
           c == CallOf(f)
           n == prog[f.block].regc
<1>1. c \in Instruction /\ n \in Nat /\ CheckedOperands(c, prog[f.block])
  BY TopCall, CallWord
<1>2. c.op = "call" /\ cur.argv = c.b + 1 /\ cur.argc = c.c
  BY TopCall
<1>3. c.a \in Nat /\ c.b \in Nat /\ c.c \in Nat
  <2>1. c.a \in ArgA /\ c.b \in ArgBC /\ c.c \in ArgBC
    BY <1>1 DEF Instruction
  <2> QED
    BY <2>1, Naturals, Zenon
<1>4. c.a < n /\ c.b + c.c < n
  BY <1>1, <1>2 DEF CheckedOperands
<1>5. Registers(f) = 0 .. n - 1
  BY DEF Registers
<1> HIDE DEF f, c, n
<1>6. n \in Nat
  BY <1>1
<1>7. c.a \in Registers(f)
  BY <1>3, <1>4, <1>5, <1>6
<1>8. \A x \in Nat : x < c.c => c.b + 1 + x \in 0 .. n - 1
  BY <1>3, <1>4, <1>6
<1> QED
  BY <1>2, <1>5, <1>7, <1>8 DEF ArgInRegisters, f, c

LEMMA GetArgShape ==
  ASSUME TypeOK, CallChain, GetArg
  PROVE  Shape
<1>1. /\ I.op = "getarg" /\ InCode /\ I.op \in PlainOps \ {"nop"}
  BY DEF GetArg, Executing, InCode, PlainOps, Opcode, CompareOps
<1>2. CASE Leave(None)
  BY <1>2, ValueMembers, LeaveShape
<1>3. Bx(I) \in Nat
  BY <1>1, Fetched
<1>4. callers # <<>> \/ ~(Bx(I) < cur.argc)
  <2>1. callers = <<>> => cur.argc = 0
    BY StackFacts DEF CallChain
  <2> QED
    BY <1>3, <2>1
<1>5. CASE Bx(I) < cur.argc /\ ArgInRegisters(Bx(I)) /\ Store({Arg(Bx(I))})
  <2>1. IsFrame(Last(callers))
    BY <1>4, <1>5, TopCall
  <2>2. {Arg(Bx(I))} \subseteq Value
    BY <1>5, <2>1 DEF IsFrame, ArgInRegisters, Arg
  <2> QED
    BY <1>1, <1>5, <2>2, StoreShape
<1>6. CASE Bx(I) < cur.argc /\ ~ArgInRegisters(Bx(I)) /\ Stop("wild")
  <2>1. ~Checked(prog)
    BY <1>3, <1>4, <1>6, RoomBelow
  <2> QED
    BY <1>6, <2>1, StopShape DEF Status
<1> QED
  BY <1>2, <1>5, <1>6 DEF GetArg

LEMMA GetExternalShape ==
  ASSUME TypeOK, GetExternal
  PROVE  Shape
<1>1. I.op = "getexternal" /\ InCode /\ I.op \in PlainOps \ {"nop"}
  BY DEF GetExternal, Executing, InCode, PlainOps, Opcode, CompareOps
<1>2. CASE ~InConsts(I.b) /\ Stop("wild")
  BY <1>1, <1>2, StopShape, CheckedUse DEF Status
<1>3. CASE /\ InConsts(I.b) /\ Tag(K(I.b)) = "string"
           /\ Store({Function(<<"external", Payload(K(I.b))>>)})
  <2>1. Payload(K(I.b)) \in Strings
    BY <1>3, ConstFacts, ValueTags
  <2>2. {Function(<<"external", Payload(K(I.b))>>)} \subseteq Value
    BY <2>1, ValueMembers DEF Callees
  <2> QED
    BY <1>1, <1>3, <2>2, StoreShape
<1>4. CASE Stop("crashed") \/ Stop("exit1") \/ Stop("overrun")
  BY <1>4, StopShape DEF Status
<1> QED
  BY <1>2, <1>3, <1>4 DEF GetExternal, LookUp

LEMMA StoreUnlessNoneShape ==
  ASSUME TypeOK, InCode, I.op \in PlainOps \ {"nop"},
         NEW values, values \subseteq Value, StoreUnlessNone(values)
  PROVE  Shape
<1>1. CASE Dispatch
  BY <1>1, DispatchShape
<1>2. ASSUME NEW v \in values, Store({v})
      PROVE  Shape
  <2>1. {v} \subseteq Value
    OBVIOUS
  <2> QED
    BY <1>2, <2>1, StoreShape
<1> QED
  BY <1>1, <1>2 DEF StoreUnlessNone

LEMMA NumberShapes ==
  ASSUME TypeOK, Arithmetic \/ Unm \/ Not
  PROVE  Shape
<1>1. CASE Arithmetic
  <2>1. I.op \in ArithOps /\ InCode /\ I.op \in PlainOps \ {"nop"}
    BY <1>1 DEF Arithmetic, Executing, InCode, PlainOps, Opcode, ArithOps, CompareOps
  <2>2. CASE StoreUnlessNone(ArithResults(I.op, RK(I.b), RK(I.c)))
    BY <2>1, <2>2, ArithType, StoreUnlessNoneShape
  <2>3. CASE Stop("crashed")
    BY <2>3, StopShape DEF Status
  <2>4. CASE ~(InRK(I.b) /\ InRK(I.c)) /\ Stop("wild")
    BY <2>1, <2>4, StopShape, CheckedUse DEF Status
  <2> QED
    BY <1>1, <2>2, <2>3, <2>4 DEF Arithmetic
<1>2. CASE Unm
  <2>1. I.op = "unm" /\ InCode /\ I.op \in PlainOps \ {"nop"}
    BY <1>2 DEF Unm, Executing, InCode, PlainOps, Opcode, CompareOps
  <2>2. CASE StoreUnlessNone(UnmResults(RK(I.b)))
    BY <2>1, <2>2, ArithType, StoreUnlessNoneShape
  <2>3. CASE ~InRK(I.b) /\ Stop("wild")
    BY <2>1, <2>3, StopShape, CheckedUse DEF Status
  <2> QED
    BY <1>2, <2>2, <2>3 DEF Unm
<1>3. CASE Not
  <2>1. I.op = "not" /\ InCode /\ I.op \in PlainOps \ {"nop"}
    BY <1>3 DEF Not, Executing, InCode, PlainOps, Opcode, CompareOps
  <2>2. CASE InRK(I.b) /\ Store({Boolean(~b) : b \in BoolReadings(RK(I.b))})
    <3>0. RK(I.b) \in Value
      BY <2>2, OperandFacts
    <3>1. BoolReadings(RK(I.b)) \subseteq BOOLEAN
      BY <3>0, TruthType
    <3>2. {Boolean(~b) : b \in BoolReadings(RK(I.b))} \subseteq Value
      <4>1. \A b \in BOOLEAN : (~b) \in BOOLEAN
        OBVIOUS
      <4> QED
        BY <3>1, <4>1, ValueMembers
    <3> QED
      BY <2>1, <2>2, <3>2, StoreShape
  <2>3. CASE ~InRK(I.b) /\ Stop("wild")
    BY <2>1, <2>3, StopShape, CheckedUse DEF Status
  <2> QED
    BY <1>3, <2>2, <2>3 DEF Not
<1> QED
  BY <1>1, <1>2, <1>3

LEMMA SkipShape ==
  ASSUME TypeOK, I.op \in CompareOps \cup {"eq"}, NEW b \in BOOLEAN, SkipNextIf(b)
  PROVE  Shape
<1>1. PICK pc \in {cur.pc + 1, cur.pc + 2} : Goto(pc)
  BY DEF SkipNextIf
<1>2. pc \in Int
  BY <1>1, CurFacts
<1>3. pc \in Successors(I, cur.pc)
  BY <1>1 DEF Successors, CompareOps
<1> QED
  BY <1>1, <1>2, <1>3, GotoShape

LEMMA TestShapes ==
  ASSUME TypeOK, Eq \/ Compare
  PROVE  Shape
<1>1. /\ I.op \in CompareOps \cup {"eq"} /\ InCode
      /\ I.op \in Opcode \ {"nop", "getlocal", "setlocal", "jmp"}
  BY DEF Eq, Compare, Executing, InCode, CompareOps, Opcode
<1>2. CASE ~(InRK(I.a) /\ InRK(I.b)) /\ Stop("wild")
  <2>1. InRegisters(I.a) => InRK(I.a)
    BY <1>1, Fetched DEF InRK
  <2>2. ~Checked(prog)
    BY <1>1, <1>2, <2>1, CheckedUse
  <2> QED
    BY <1>2, <2>2, StopShape DEF Status
<1>3. CASE Stop("crashed")
  BY <1>3, StopShape DEF Status
<1>4. CASE /\ InRK(I.a) /\ InRK(I.b)
           /\ \E b \in EqualResults(RK(I.a), RK(I.b)) \cup
                       CompareResults(I.op, RK(I.a), RK(I.b)) : SkipNextIf(b)
  <2>1. RK(I.a) \in Value /\ RK(I.b) \in Value
    BY <1>4, OperandFacts
  <2>2. PICK b \in BOOLEAN : SkipNextIf(b)
    BY <1>4, <2>1, TruthType
  <2> QED
    BY <1>1, <2>2, SkipShape
<1> QED
  BY <1>2, <1>3, <1>4 DEF Eq, Compare

LEMMA JmpShape ==
  ASSUME TypeOK, Jmp
  PROVE  Shape
<1>1. I.op = "jmp" /\ InCode
  BY DEF Jmp, Executing, InCode
<1>2. cur.pc + sBx(I) + 1 \in Int
  BY <1>1, Fetched, CurFacts DEF sBx, MAXARG_sBx
<1>3. cur.pc + sBx(I) + 1 \in Successors(I, cur.pc)
  <2>1. Successors(I, cur.pc) = {cur.pc + sBx(I) + 1}
    BY <1>1 DEF Successors, CompareOps
  <2>2. \A S, x : S = {x} => x \in S
    OBVIOUS
  <2> QED
    BY <2>1, <2>2, Zenon
<1> QED
  BY <1>2, <1>3, GotoShape DEF Jmp

LEMMA ReturnShape ==
  ASSUME TypeOK, Return
  PROVE  Shape
<1>1. /\ I.op = "return" /\ InCode
      /\ I.op \in Opcode \ {"nop", "getlocal", "setlocal", "jmp"}
  BY DEF Return, Executing, InCode, Opcode
<1>2. CASE InRK(I.a) /\ Leave(RK(I.a))
  BY <1>2, OperandFacts, LeaveShape
<1>3. CASE ~InRK(I.a) /\ Stop("wild")
  <2>1. InRegisters(I.a) => InRK(I.a)
    BY <1>1, Fetched DEF InRK
  <2>2. ~Checked(prog)
    BY <1>1, <1>3, <2>1, CheckedUse
  <2> QED
    BY <1>3, <2>2, StopShape DEF Status
<1> QED
  BY <1>2, <1>3 DEF Return

LEMMA ClosureShape ==
  ASSUME TypeOK, Closure
  PROVE  Shape
<1>1. I.op = "closure" /\ InCode /\ I.op \in PlainOps \ {"nop"}
  BY DEF Closure, Executing, InCode, PlainOps, Opcode, CompareOps
<1>2. Bx(I) \in Nat /\ (ISK(Bx(I)) => INDEXRK(Bx(I)) \in Nat)
  <2>1. Bx(I) \in Nat
    BY <1>1, Fetched
  <2>2. \A x \in Nat : ISK(x) => INDEXRK(x) \in Nat
    BY DEF ISK, INDEXRK, BITRK
  <2> QED
    BY <2>1, <2>2
<1>3. CASE Stop("exit1")
  BY <1>3, StopShape DEF Status
<1>4. CASE Store({Function(Stray)})
  <2>1. {Function(Stray)} \subseteq Value
    BY ValueMembers DEF Callees
  <2> QED
    BY <1>1, <1>4, <2>1, StoreShape
<1>5. CASE ~ISK(Bx(I)) /\ Bx(I) = Len(Blk.children) /\ Stop("wild")
  BY <1>1, <1>5, StopShape, CheckedUse DEF Status
<1>6. CASE /\ ISK(Bx(I)) /\ INDEXRK(Bx(I)) < Len(InternalArity)
           /\ Store({Function(<<"internal", INDEXRK(Bx(I))>>)})
  <2>1. Len(InternalArity) = 11
    BY DEF InternalArity
  <2>2. INDEXRK(Bx(I)) \in 0 .. Len(InternalArity) - 1
    BY <1>2, <1>6, <2>1
  <2>3. {Function(<<"internal", INDEXRK(Bx(I))>>)} \subseteq Value
    BY <2>2, ValueMembers DEF Callees
  <2> QED
    BY <1>1, <1>6, <2>3, StoreShape
<1>7. CASE /\ Bx(I) < Len(Blk.children)
           /\ Store({Function(<<"block", Blk.children[Bx(I) + 1]>>)})
  <2>1. Blk.children \in Seq(1 .. Len(prog))
    BY CurFacts, BlockFacts DEF Blk
  <2>2. Bx(I) + 1 \in 1 .. Len(Blk.children)
    BY <1>2, <1>7, CurFacts
  <2>3. Blk.children[Bx(I) + 1] \in 1 .. Len(prog)
    BY <2>1, <2>2, ElementOfSeq
  <2>4. {Function(<<"block", Blk.children[Bx(I) + 1]>>)} \subseteq Value
    BY <2>3, ValueMembers DEF Callees
  <2> QED
    BY <1>1, <1>7, <2>4, StoreShape
<1>8. \A x, n \in Nat :
        \/ x > n /\ x # n /\ ~(x < n)
        \/ x = n /\ ~(x > n) /\ ~(x < n)
        \/ x < n /\ x # n /\ ~(x > n)
  OBVIOUS
<1>9. Len(InternalArity) \in Nat /\ Len(Blk.children) \in Nat
  BY CurFacts DEF InternalArity
<1>10. CASE ISK(Bx(I))
  BY <1>2, <1>3, <1>4, <1>6, <1>8, <1>9, <1>10 DEF Closure
<1>11. CASE ~ISK(Bx(I))
  BY <1>2, <1>3, <1>5, <1>7, <1>8, <1>9, <1>11 DEF Closure
<1> QED
  BY <1>10, <1>11

\* BijouFunction_call on a function the register R[B] holds.
LEMMA CallFunctionShape ==
  ASSUME TypeOK, InCode, I.op = "call", InRegisters(I.b),
         NEW f \in Callees(1 .. Len(prog)), cur.R[I.b] = Function(f), CallFunction(f)
  PROVE  Shape
<1>1. I.op \in PlainOps \ {"nop"}
  BY DEF PlainOps, Opcode, CompareOps
<1>2. Checked(prog) => Args \subseteq Registers(cur)
  <2>1. I.b \in Nat /\ I.c \in Nat
    BY Fetched, Zenon
  <2>2. Blk.regc \in Nat
    BY CurFacts
  <2>3. Registers(cur) = 0 .. Blk.regc - 1
    BY DEF Registers, Blk
  <2>4. \A b, c, n \in Nat : b + c \in 0 .. n - 1 => {b + x : x \in 1 .. c} \subseteq 0 .. n - 1
    OBVIOUS
  <2> QED
    BY <2>1, <2>2, <2>3, <2>4, CheckedUse DEF Args
<1>3. CASE \/ Stop("stray") \/ Stop("exit0") \/ Stop("exit1") \/ Stop("crashed")
           \/ Stop("overrun") \/ Stop("away")
  BY <1>3, StopShape DEF Status
<1>4. CASE ~(Args \subseteq Registers(cur)) /\ Stop("wild")
  BY <1>2, <1>4, StopShape DEF Status
<1>5. CASE \E values \in SUBSET Value : Store(values)
  BY <1>1, <1>5, StoreShape
<1>6. CASE f[1] = "block" /\ Arity(f) \in {-1, I.c} /\ Enter(f[2])
  <2>1. PICK b \in 1 .. Len(prog) : f = <<"block", b>>
    BY <1>6 DEF Callees, Stray
  <2>2. prog[b].argc \in Nat /\ Arity(f) = prog[b].argc
    BY <2>1, BlockFacts, Naturals, Zenon DEF Arity
  <2>3. I.c = prog[b].argc
    <3>1. \A n \in Nat : n # -1
      OBVIOUS
    <3> QED
      BY <1>6, <2>2, <3>1, Zenon
  <2>4. CASE Len(callers) < MaxDepth
    BY <1>6, <2>1, <2>3, <2>4 DEF Enter, Shape, EnterStep
  <2>5. CASE ~(Len(callers) < MaxDepth)
    BY <1>6, <2>5, StopShape DEF Enter, Status
  <2> QED
    BY <2>4, <2>5
<1>7. CASE f[1] = "internal" /\ CallInternal(f[2])
  <2>1. {Null} \subseteq Value /\ AnyNumber \subseteq Value
    BY ValueMembers
  <2> QED
    BY <1>3, <1>4, <1>5, <1>7, <2>1 DEF CallInternal
<1>8. CASE f[1] = "external" /\ CallExternal
  BY <1>3, <1>4, <1>5, <1>8, ValueMembers DEF CallExternal
<1> QED
  BY <1>3, <1>6, <1>7, <1>8 DEF CallFunction, Callees, Stray

LEMMA CallShape ==
  ASSUME TypeOK, Call
  PROVE  Shape
<1>1. I.op = "call" /\ InCode
  BY DEF Call, Executing, InCode
<1>2. CASE ~InRegisters(I.b) /\ Stop("wild")
  <2>1. ~Checked(prog)
    <3>1. /\ I.b \in Nat /\ I.c \in Nat
          /\ Registers(cur) = 0 .. Blk.regc - 1
      BY <1>1, Fetched DEF Registers, Blk
    <3>2. Blk.regc \in Nat
      BY CurFacts
    <3>3. \A b, c, n \in Nat : b + c \in 0 .. n - 1 => b \in 0 .. n - 1
      OBVIOUS
    <3> QED
      BY <1>1, <1>2, <3>1, <3>2, <3>3, CheckedUse DEF InRegisters
  <2> QED
    BY <1>2, <2>1, StopShape DEF Status
<1>3. CASE Stop("exit1") \/ Stop("stray")
  BY <1>3, StopShape DEF Status
<1>4. CASE /\ InRegisters(I.b) /\ Tag(cur.R[I.b]) = "function"
           /\ CallFunction(Payload(cur.R[I.b]))
  <2>1. cur.R[I.b] \in Value
    BY <1>4, RegisterFacts
  <2>2. /\ Payload(cur.R[I.b]) \in Callees(1 .. Len(prog))
        /\ cur.R[I.b] = Function(Payload(cur.R[I.b]))
    BY <1>4, <2>1, ValueTags
  <2> QED
    BY <1>1, <1>4, <2>2, CallFunctionShape
<1> QED
  BY <1>2, <1>3, <1>4 DEF Call

\* Running off the code is a shape of its own: what it breaks is InCode.
LEMMA RunOffShape ==
  ASSUME TypeOK, RunOff
  PROVE  Shape
<1>1. CASE Leave(None)
  BY <1>1, ValueMembers, LeaveShape
<1>2. CASE Stop("crashed")
  BY <1>2, StopShape DEF Status
<1>3. CASE ~InCode /\ Stop("wild")
  BY <1>3, StopShape DEF Status
<1> QED
  BY <1>1, <1>2, <1>3 DEF RunOff, InCode

\* Every step of the interpreter has one of the shapes.
LEMMA StepShape ==
  ASSUME TypeOK, CallChain, Step
  PROVE  Shape /\ status = "running"
<1>1. Shape
  BY MoveShapes, GlobalShapes, LeavingShapes, GetArgShape, GetExternalShape,
     NumberShapes, TestShapes, JmpShape, CallShape, ClosureShape, ReturnShape, RunOffShape
  DEF Step
<1>2. status = "running"
  BY DEF Step, Executing, Nop, Move, LoadK, LoadBool, LoadNull, GetGlobal, SetGlobal,
         GetLocal, SetLocal, GetArg, GetExternal, Arithmetic, Unm, Not, Eq, Compare, Jmp,
         Call, Closure, Return, Undefined, RunOff
<1> QED
  BY <1>1, <1>2

----------------------------------------------------------------------------
(* Sequences of activations.                                               *)

LEMMA OwnRange ==
  ASSUME NEW S, NEW s \in Seq(S)
  PROVE  s \in Seq(Range(s)) /\ Range(s) \subseteq S
<1>1. Len(s) \in Nat /\ s \in [1 .. Len(s) -> S] /\ DOMAIN s = 1 .. Len(s)
  BY LenProperties
<1>2. s \in [1 .. Len(s) -> Range(s)] /\ Range(s) \subseteq S
  BY <1>1 DEF Range
<1> QED
  BY <1>1, <1>2, SeqDef

\* Two sequences with the same elements are one.
LEMMA SameSeq ==
  ASSUME NEW s, NEW t, s \in Seq(Range(s)), t \in Seq(Range(t)),
         NEW n \in Nat, Len(s) = n, Len(t) = n, \A d \in 1 .. n : s[d] = t[d]
  PROVE  s = t
<1>1. s \in Seq(Range(s) \cup Range(t)) /\ t \in Seq(Range(s) \cup Range(t))
  BY SeqMonotonic
<1> QED
  BY <1>1, SeqEqual

\* The stack over any suspended activations.
LEMMA StackOf ==
  ASSUME NEW s, s \in Seq(Range(s)), NEW e
  PROVE  /\ Len(s) \in Nat /\ Len(Append(s, e)) = Len(s) + 1
         /\ Append(s, e)[Len(s) + 1] = e
         /\ \A d \in 1 .. Len(s) : Append(s, e)[d] = s[d]
         /\ Append(s, e) \in Seq(Range(Append(s, e)))
         /\ Range(Append(s, e)) \subseteq Range(s) \cup {e}
         /\ s = <<>> <=> Len(s) = 0
<1>1. s \in Seq(Range(s) \cup {e})
  OBVIOUS
<1>2. /\ Append(s, e) \in Seq(Range(s) \cup {e})
      /\ Len(Append(s, e)) = Len(s) + 1
      /\ Append(s, e)[Len(s) + 1] = e
      /\ \A d \in 1 .. Len(s) : Append(s, e)[d] = s[d]
  BY <1>1, AppendProperties
<1>3. Len(s) \in Nat /\ (s = <<>> <=> Len(s) = 0)
  BY <1>1, LenProperties, EmptySeq
<1> QED
  BY <1>2, <1>3, OwnRange

LEMMA FrontOf ==
  ASSUME NEW s, s \in Seq(Range(s)), s # <<>>
  PROVE  /\ Front(s) \in Seq(Range(Front(s)))
         /\ Range(Front(s)) \subseteq Range(s)
         /\ Len(Front(s)) = Len(s) - 1
         /\ \A d \in 1 .. Len(s) - 1 : Front(s)[d] = s[d]
         /\ Len(s) \in Nat \ {0}
         /\ Last(s) = s[Len(s)] /\ Last(s) \in Range(s)
<1>1. Len(s) \in Nat \ {0}
  BY EmptySeq
<1>2. \A i \in 1 .. Len(s) : s[i] \in Range(s)
  BY ElementOfSeq
<1>3. /\ Front(s) \in Seq(Range(s))
      /\ Len(Front(s)) = Len(s) - 1
      /\ \A d \in 1 .. Len(s) - 1 : Front(s)[d] = s[d]
  <2>1. 1 \in Int /\ Len(s) - 1 \in Int /\ \A i \in 1 .. Len(s) - 1 : s[i] \in Range(s)
    BY <1>1, <1>2
  <2> DEFINE n == Len(s) - 1
             t == SubSeq(s, 1, n)
  <2>2. /\ t \in Seq(Range(s))
        /\ Len(t) = IF 1 <= n THEN n - 1 + 1 ELSE 0
        /\ \A i \in 1 .. n - 1 + 1 : t[i] = s[1 + i - 1]
    BY <2>1, SubSeqProperties
  <2>3. n \in Nat
    BY <1>1
  <2> HIDE DEF n, t
  <2>4. Len(t) = n /\ \A i \in 1 .. n : t[i] = s[i]
    BY <2>2, <2>3
  <2> QED
    BY <2>2, <2>4 DEF Front, n, t
<1>4. Last(s) = s[Len(s)] /\ Last(s) \in Range(s)
  BY <1>1, <1>2 DEF Last
<1> QED
  BY <1>1, <1>3, <1>4, OwnRange

----------------------------------------------------------------------------
(* What the shapes keep.                                                   *)

\* What is read of the program alone stays while the program does.
LEMMA SameProgram ==
  ASSUME prog' = prog
  PROVE  /\ IsProgram(prog)' <=> IsProgram(prog)
         /\ Value' = Value /\ NumGlobals' = NumGlobals
         /\ \A f : IsFrame(f)' <=> IsFrame(f)
         /\ \A f, g : WaitsFor(f, g)' <=> WaitsFor(f, g)
         /\ Checked(prog)' <=> Checked(prog)
<1>1. Value' = Value /\ NumGlobals' = NumGlobals
  BY DEF Value, NumGlobals
<1>2. \A f : IsFrame(f)' <=> IsFrame(f)
  BY <1>1 DEF IsFrame, Registers
<1>3. \A f, g : WaitsFor(f, g)' <=> WaitsFor(f, g)
  BY DEF WaitsFor, CallOf, Registers
<1> QED
  BY <1>1, <1>2, <1>3

LEMMA LocalKeeps ==
  ASSUME TypeOK, CallChain, Local(Int)
  PROVE  TypeOK' /\ CallChain'
<1>1. PICK R \in [Registers(cur) -> Value], pc \in Int :
        cur' = [cur EXCEPT !.R = R, !.pc = pc]
  BY DEF Local
<1>2. /\ globals' \in [0 .. NumGlobals - 1 -> Value]
      /\ prog' = prog /\ callers' = callers /\ status' = status /\ result' = result
  BY DEF Local
<1>3. IsFrame(cur')
  <2>1. IsFrame(cur)
    BY DEF TypeOK
  <2>2. cur' = [block |-> cur.block, pc |-> pc, R |-> R, argc |-> cur.argc, argv |-> cur.argv]
    BY <1>1, <2>1 DEF IsFrame
  <2>3. Registers(cur') = Registers(cur)
    BY <2>2 DEF Registers
  <2> QED
    BY <2>1, <2>2, <2>3 DEF IsFrame
<1>4. TypeOK'
  BY <1>2, <1>3, SameProgram DEF TypeOK
<1>5. /\ cur'.block = cur.block /\ cur'.argc = cur.argc /\ cur'.argv = cur.argv
  BY <1>1 DEF TypeOK, IsFrame
<1>6. callers \in Seq(Range(callers))
  BY DEF TypeOK
<1>7. /\ Stack'[1].block = Stack[1].block /\ Stack'[1].argc = Stack[1].argc
  BY <1>2, <1>5, <1>6, StackOf DEF Stack
<1>8. ASSUME NEW d \in 1 .. Len(callers)
      PROVE  WaitsFor(callers[d], Stack'[d + 1])
  <2>1. WaitsFor(callers[d], Stack[d + 1])
    BY DEF CallChain
  <2>2. CASE d = Len(callers)
    <3>1. Stack[d + 1] = cur /\ Stack'[d + 1] = cur'
      BY <1>2, <1>6, <2>2, StackOf DEF Stack
    <3> QED
      BY <1>5, <2>1, <3>1 DEF WaitsFor
  <2>3. CASE d # Len(callers)
    <3>1. d + 1 \in 1 .. Len(callers)
      BY <1>6, <2>3, StackOf
    <3>2. Stack'[d + 1] = Stack[d + 1]
      BY <1>2, <1>6, <3>1, StackOf DEF Stack
    <3> QED
      BY <2>1, <3>2
  <2> QED
    BY <2>2, <2>3
<1>9. CallChain'
  BY <1>2, <1>7, <1>8, SameProgram DEF CallChain
<1> QED
  BY <1>4, <1>9

LEMMA StopKeeps ==
  ASSUME TypeOK, CallChain, NEW s \in Status, Stop(s)
  PROVE  TypeOK' /\ CallChain'
<1>1. /\ prog' = prog /\ cur' = cur /\ callers' = callers /\ globals' = globals
      /\ result' = result /\ status' \in Status
  BY DEF Stop
<1>2. Stack' = Stack
  BY <1>1 DEF Stack
<1> QED
  BY <1>1, <1>2, SameProgram DEF TypeOK, CallChain

LEMMA EnterKeeps ==
  ASSUME TypeOK, CallChain, EnterStep
  PROVE  TypeOK' /\ CallChain'
<1>1. PICK b \in 1 .. Len(prog) :
        /\ InCode /\ I.op = "call" /\ InRegisters(I.b)
        /\ cur.R[I.b] = Function(<<"block", b>>)
        /\ I.c = prog[b].argc
        /\ callers' = Append(callers, cur)
        /\ cur' = Activation(prog, b, I.c, I.b + 1)
        /\ UNCHANGED <<prog, globals, status, result>>
  BY DEF EnterStep
<1>2. callers \in Seq(Range(callers)) /\ \A f \in Range(callers) \cup {cur} : IsFrame(f)
  BY DEF TypeOK
<1>3. callers' \in Seq(Range(callers')) /\ \A f \in Range(callers') : IsFrame(f)
  BY <1>1, <1>2, StackOf
<1>4. IsFrame(cur')
  <2>1. I.c \in 0 .. 511 /\ I.b + 1 \in 0 .. 512
    BY <1>1, FetchedRange
  <2>2. [x \in 0 .. prog[b].regc - 1 |-> Junk] \in [0 .. prog[b].regc - 1 -> Value]
    BY ValueMembers
  <2> QED
    BY <1>1, <2>1, <2>2, SMTT(30) DEF IsFrame, Activation, Registers
<1>5. TypeOK'
  BY <1>1, <1>3, <1>4, SameProgram DEF TypeOK
<1>6. cur'.block = b /\ cur'.argc = I.c /\ cur'.argv = I.b + 1
  BY <1>1 DEF Activation
<1>7. WaitsFor(cur, cur')
  BY <1>1, <1>6 DEF WaitsFor, CallOf, I, Blk, InCode, InRegisters
<1>8. \A d \in 1 .. Len(callers) + 1 : Stack'[d] = Stack[d] /\ callers'[d] = Stack[d]
  BY <1>1, <1>2, <1>3, StackOf DEF Stack
<1>9. ASSUME NEW d \in 1 .. Len(callers')
      PROVE  WaitsFor(callers'[d], Stack'[d + 1])
  <2>1. Len(callers') = Len(callers) + 1 /\ Len(callers) \in Nat
    BY <1>1, <1>2, StackOf
  <2>2. CASE d = Len(callers) + 1
    <3>1. callers'[d] = cur /\ Stack'[d + 1] = cur'
      BY <1>1, <1>2, <1>3, <2>1, <2>2, StackOf DEF Stack
    <3> QED
      BY <1>7, <3>1
  <2>3. CASE d # Len(callers) + 1
    <3>1. d \in 1 .. Len(callers) /\ d \in 1 .. Len(callers) + 1 /\ d + 1 \in 1 .. Len(callers) + 1
      BY <2>1, <2>3
    <3>2. callers'[d] = callers[d] /\ Stack'[d + 1] = Stack[d + 1]
      BY <1>2, <1>8, <3>1, StackOf DEF Stack
    <3> QED
      BY <3>1, <3>2 DEF CallChain
  <2> QED
    BY <2>2, <2>3
<1>10. Stack'[1].block = 1 /\ Stack'[1].argc = 0
  <2>1. 1 \in 1 .. Len(callers) + 1
    BY <1>2, StackOf
  <2> QED
    BY <1>8, <2>1 DEF CallChain
<1>11. CallChain'
  BY <1>1, <1>9, <1>10, SameProgram DEF CallChain
<1> QED
  BY <1>5, <1>11

\* The result is stored in the caller, which goes on after its call.
Resume(v) ==
  LET f == Last(callers)
  IN  /\ callers # <<>>
      /\ CallOf(f).a \in Registers(f)
      /\ cur' = [f EXCEPT !.R = [@ EXCEPT ![CallOf(f).a] = v], !.pc = @ + 1]
      /\ callers' = Front(callers)
      /\ UNCHANGED <<prog, globals, status, result>>

Returned(v) ==
  /\ callers = <<>>
  /\ status' = "returned" /\ result' = v
  /\ UNCHANGED <<prog, cur, callers, globals>>

LEMMA LeaveCases ==
  ASSUME TypeOK, CallChain, NEW v \in Value, Leave(v)
  PROVE  Returned(v) \/ Resume(v) \/ (Stop("wild") /\ ~Checked(prog))
<1>1. CASE callers = <<>>
  BY <1>1 DEF Leave, Returned
<1>2. CASE callers # <<>> /\ CallOf(Last(callers)).a \in Registers(Last(callers))
  BY <1>2 DEF Leave, Resume
<1>3. CASE callers # <<>> /\ ~(CallOf(Last(callers)).a \in Registers(Last(callers)))
  BY <1>3, RoomBelow DEF Leave
<1> QED
  BY <1>1, <1>2, <1>3

LEMMA ReturnedKeeps ==
  ASSUME TypeOK, CallChain, NEW v \in Value, Returned(v)
  PROVE  TypeOK' /\ CallChain'
<1>1. /\ prog' = prog /\ cur' = cur /\ callers' = callers /\ globals' = globals
      /\ result' \in Value /\ status' \in Status
  BY DEF Returned, Status
<1>2. Stack' = Stack
  BY <1>1 DEF Stack
<1> QED
  BY <1>1, <1>2, SameProgram DEF TypeOK, CallChain

LEMMA ResumeKeeps ==
  ASSUME TypeOK, CallChain, NEW v \in Value, Resume(v)
  PROVE  TypeOK' /\ CallChain'
<1> DEFINE f == Last(callers)
           a == CallOf(f).a
           R == [f.R EXCEPT ![a] = v]
<1>1. IsFrame(f)
  BY TopCall DEF Resume
<1>2. cur' = [block |-> f.block, pc |-> f.pc + 1, R |-> R, argc |-> f.argc, argv |-> f.argv]
  BY <1>1 DEF Resume, IsFrame
<1>3. IsFrame(cur')
  <2>1. R \in [Registers(f) -> Value]
    BY <1>1 DEF IsFrame
  <2>2. Registers(cur') = Registers(f)
    BY <1>2 DEF Registers
  <2>3. f.pc \in Int => f.pc + 1 \in Int
    OBVIOUS
  <2> HIDE DEF f, R
  <2> QED
    BY <1>1, <1>2, <2>1, <2>2, <2>3 DEF IsFrame
<1>4. /\ callers \in Seq(Range(callers)) /\ callers # <<>>
      /\ \A g \in Range(callers) : IsFrame(g)
      /\ callers' = Front(callers) /\ prog' = prog
  BY DEF TypeOK, Resume
<1>5. callers' \in Seq(Range(callers')) /\ \A g \in Range(callers') : IsFrame(g)
  BY <1>4, FrontOf
<1>6. TypeOK'
  BY <1>3, <1>4, <1>5, SameProgram DEF TypeOK, Resume
<1>7. /\ Len(callers) \in Nat \ {0} /\ Len(callers') = Len(callers) - 1
      /\ f = callers[Len(callers)]
      /\ \A d \in 1 .. Len(callers) - 1 : callers'[d] = callers[d]
  BY <1>4, FrontOf
\* At the depth of the caller there is now what it was, but for a register.
<1>8. \A d \in 1 .. Len(callers) : /\ Stack'[d].block = Stack[d].block
                                  /\ Stack'[d].argc = Stack[d].argc
                                  /\ Stack'[d].argv = Stack[d].argv
  <2>1. TAKE d \in 1 .. Len(callers)
  <2>2. Stack[d] = callers[d]
    BY <1>4, StackOf DEF Stack
  <2>3. CASE d = Len(callers)
    <3>1. Stack'[d] = cur'
      BY <1>5, <1>7, <2>3, StackOf DEF Stack
    <3> QED
      BY <1>2, <1>7, <2>2, <2>3, <3>1
  <2>4. CASE d # Len(callers)
    <3>1. d \in 1 .. Len(callers')
      BY <1>7, <2>4
    <3>2. Stack'[d] = callers'[d] /\ callers'[d] = callers[d]
      BY <1>5, <1>7, <2>4, <3>1, StackOf DEF Stack
    <3> QED
      BY <2>2, <3>2
  <2> QED
    BY <2>3, <2>4
<1>9. ASSUME NEW d \in 1 .. Len(callers')
      PROVE  WaitsFor(callers'[d], Stack'[d + 1])
  <2>1. d \in 1 .. Len(callers) /\ d + 1 \in 1 .. Len(callers) /\ d \in 1 .. Len(callers) - 1
    BY <1>7
  <2>2. WaitsFor(callers[d], Stack[d + 1])
    BY <2>1 DEF CallChain
  <2> QED
    BY <1>7, <1>8, <2>1, <2>2 DEF WaitsFor
<1>10. CallChain'
  <2>1. 1 \in 1 .. Len(callers)
    BY <1>7
  <2>2. Stack'[1].block = 1 /\ Stack'[1].argc = 0
    BY <1>8, <2>1 DEF CallChain
  <2> QED
    BY <1>4, <1>9, <2>2, SameProgram DEF CallChain
<1> QED
  BY <1>6, <1>10

----------------------------------------------------------------------------
(* The theorems.                                                           *)

LEMMA InitTypes ==
  ASSUME Init
  PROVE  TypeOK /\ CallChain
<1>1. IsProgram(prog) /\ 1 \in 1 .. Len(prog)
  <2>1. IsProgram(prog)
    BY ProgramsAssumption DEF Init
  <2>2. Len(prog) \in Nat \ {0}
    BY <2>1 DEF IsProgram
  <2> QED
    BY <2>1, <2>2
<1>2. IsFrame(cur)
  BY <1>1, ValueMembers DEF Init, IsFrame, Activation, Registers
<1>3. callers = <<>> /\ callers \in Seq(Range(callers)) /\ Range(callers) = {}
  <2>1. callers = <<>>
    BY DEF Init
  <2>2. callers \in Seq({})
    BY <2>1, EmptySeq
  <2>3. callers \in Seq(Range(callers)) /\ Range(callers) \subseteq {}
    BY <2>2, OwnRange
  <2> QED
    BY <2>1, <2>3
<1>4. globals \in [0 .. NumGlobals - 1 -> Value] /\ status \in Status /\ result \in Value
  BY ValueMembers DEF Init, NumGlobals, Status
<1>5. TypeOK
  BY <1>1, <1>2, <1>3, <1>4 DEF TypeOK
<1>6. Stack[1] = cur /\ Len(callers) = 0
  BY <1>3, <1>5, StackFacts
<1>7. CallChain
  BY <1>6 DEF CallChain, Init, Activation
<1> QED
  BY <1>5, <1>7

LEMMA StepTypes ==
  ASSUME TypeOK, CallChain, [Next]_vars
  PROVE  TypeOK' /\ CallChain'
<1>1. CASE Step
  <2>1. Shape
    BY <1>1, StepShape
  <2>2. CASE LocalStep
    BY <2>2, LocalKeeps DEF LocalStep
  <2>3. CASE StopStep
    BY <2>3, StopKeeps DEF StopStep
  <2>4. CASE LeaveStep
    <3>1. PICK v \in Value : Leave(v)
      BY <2>4 DEF LeaveStep
    <3>2. "wild" \in Status
      BY DEF Status
    <3> QED
      BY <3>1, <3>2, LeaveCases, ReturnedKeeps, ResumeKeeps, StopKeeps
  <2>5. CASE EnterStep
    BY <2>5, EnterKeeps
  <2> QED
    BY <2>1, <2>2, <2>3, <2>4, <2>5 DEF Shape
<1>2. CASE UNCHANGED vars
  <2>1. /\ prog' = prog /\ cur' = cur /\ callers' = callers /\ globals' = globals
        /\ status' = status /\ result' = result /\ Stack' = Stack
    BY <1>2 DEF vars, Stack
  <2> QED
    BY <2>1, SameProgram DEF TypeOK, CallChain
<1> QED
  BY <1>1, <1>2 DEF Next, Ended

\* Whatever program is loaded and however it ends, the state of the interpreter
\* is of the types it is declared with.
THEOREM TypeCorrect == Spec => []TypeOK
<1>1. Init => TypeOK /\ CallChain
  BY InitTypes
<1>2. TypeOK /\ CallChain /\ [Next]_vars => TypeOK' /\ CallChain'
  BY StepTypes
<1> QED
  BY <1>1, <1>2, PTL DEF Spec

\* Every activation below the running one waits in the call that made the one
\* above it (bijou_interpret, OP_CALL, and BijouFunction_call).
THEOREM CallChainHolds == Spec => []CallChain
<1>1. Init => TypeOK /\ CallChain
  BY InitTypes
<1>2. TypeOK /\ CallChain /\ [Next]_vars => TypeOK' /\ CallChain'
  BY StepTypes
<1> QED
  BY <1>1, <1>2, PTL DEF Spec

----------------------------------------------------------------------------
(* A checked program never leaves its code, either: that is what makes     *)
(* CheckedNeverWild inductive, with the types and the chain of calls.      *)

StaysInside == Checked(prog) => /\ status # "wild"
                                /\ status = "running" => InCode

LEMMA StepInside ==
  ASSUME TypeOK, CallChain, StaysInside, Step
  PROVE  StaysInside'
<1> SUFFICES ASSUME Checked(prog)'
             PROVE  /\ status' # "wild"
                    /\ status' = "running" => InCode'
  BY DEF StaysInside
<1>1. Shape /\ status = "running"
  BY StepShape
<1>2. prog' = prog
  BY <1>1 DEF Shape, LocalStep, Local, StopStep, Stop, LeaveStep, Leave, EnterStep
<1>3. Checked(prog) /\ InCode
  BY <1>1, <1>2 DEF StaysInside
<1>4. CASE LocalStep
  <2>1. Local(Successors(I, cur.pc))
    BY <1>3, <1>4 DEF LocalStep
  <2>2. PICK R \in [Registers(cur) -> Value], pc \in Successors(I, cur.pc) :
          cur' = [cur EXCEPT !.R = R, !.pc = pc]
    BY <2>1 DEF Local
  <2>3. cur'.pc = pc /\ cur'.block = cur.block
    BY <2>2 DEF TypeOK, IsFrame
  <2>4. pc \in 0 .. Len(Blk.code) - 1
    BY <1>3, CheckedFacts
  <2>5. Blk' = Blk
    BY <1>2, <2>3 DEF Blk
  <2> QED
    BY <1>1, <2>1, <2>3, <2>4, <2>5 DEF InCode, Local
<1>5. CASE StopStep
  BY <1>3, <1>5 DEF StopStep, Stop
<1>6. CASE LeaveStep
  <2>1. PICK v \in Value : Returned(v) \/ Resume(v)
    BY <1>3, <1>6, LeaveCases DEF LeaveStep
  <2>2. CASE Returned(v)
    BY <2>2 DEF Returned
  <2>3. CASE Resume(v)
    <3> DEFINE f == Last(callers)
    <3>1. /\ IsFrame(f) /\ CallOf(f).op = "call"
          /\ f.pc \in 0 .. Len(prog[f.block].code) - 1
      BY <2>3, TopCall DEF Resume
    <3>2. cur'.pc = f.pc + 1 /\ cur'.block = f.block
      BY <2>3, <3>1 DEF Resume, IsFrame
    <3>3. Successors(CallOf(f), f.pc) \subseteq 0 .. Len(prog[f.block].code) - 1
      <4>1. f.block \in 1 .. Len(prog)
        BY <3>1 DEF IsFrame
      <4>2. /\ f.pc + 1 \in 1 .. Len(prog[f.block].code)
            /\ (f.pc + 1) - 1 = f.pc
        BY <3>1, <4>1, BlockFacts, LenProperties
      <4> QED
        BY <1>3, <4>1, <4>2 DEF Checked, CheckedBlock, CallOf
    <3>4. f.pc + 1 \in Successors(CallOf(f), f.pc)
      BY <3>1 DEF Successors, CompareOps
    <3> QED
      BY <1>1, <1>2, <2>3, <3>2, <3>3, <3>4 DEF InCode, Blk, Resume
  <2> QED
    BY <2>1, <2>2, <2>3
<1>7. CASE EnterStep
  <2>1. PICK b \in 1 .. Len(prog) :
          cur' = Activation(prog, b, I.c, I.b + 1) /\ status' = status
    BY <1>7 DEF EnterStep
  <2>2. cur'.pc = 0 /\ cur'.block = b
    BY <2>1 DEF Activation
  <2>3. 0 \in 0 .. Len(prog[b].code) - 1
    BY <1>3, CodeNotEmpty
  <2> QED
    BY <1>1, <1>2, <2>1, <2>2, <2>3 DEF InCode, Blk
<1> QED
  BY <1>1, <1>4, <1>5, <1>6, <1>7 DEF Shape

LEMMA InitInside ==
  ASSUME Init
  PROVE  StaysInside
<1>1. TypeOK
  BY InitTypes
<1>2. ASSUME Checked(prog)
      PROVE  InCode
  <2>1. 1 \in 1 .. Len(prog)
    BY <1>1, CurFacts
  <2>2. 0 \in 0 .. Len(prog[1].code) - 1
    BY <1>1, <1>2, <2>1, CodeNotEmpty
  <2> QED
    BY <2>2 DEF Init, Activation, InCode, Blk
<1> QED
  BY <1>2 DEF StaysInside, Init

\* A program that keeps to its registers, constants and code is never taken
\* outside them, whatever it calls and whatever it passes (bijou_interpret and
\* BijouFunction_call, which hand out pointers into the registers of callers).
THEOREM CheckedProgramsStayInside == Spec => []CheckedNeverWild
<1>1. Init => TypeOK /\ CallChain /\ StaysInside
  BY InitTypes, InitInside
<1>2. TypeOK /\ CallChain /\ StaysInside /\ [Next]_vars
        => TypeOK' /\ CallChain' /\ StaysInside'
  <2> SUFFICES ASSUME TypeOK, CallChain, StaysInside, [Next]_vars
               PROVE  StaysInside'
    BY StepTypes
  <2>1. CASE Step
    BY <2>1, StepInside
  <2>2. CASE UNCHANGED vars
    BY <2>2, SameProgram DEF vars, StaysInside, InCode, Blk
  <2> QED
    BY <2>1, <2>2 DEF Next, Ended
<1>3. StaysInside => CheckedNeverWild
  BY DEF StaysInside, CheckedNeverWild
<1> QED
  BY <1>1, <1>2, <1>3, PTL DEF Spec

----------------------------------------------------------------------------
(* The interpreter implements CallStack.                                   *)

LEMMA FunctionSeq ==
  ASSUME NEW n \in Nat, NEW f, DOMAIN f = 1 .. n, f = [d \in 1 .. n |-> f[d]]
  PROVE  f \in Seq(Range(f)) /\ Len(f) = n
<1>1. f \in [1 .. n -> Range(f)]
  BY DEF Range
<1>2. f \in Seq(Range(f))
  BY <1>1, SeqDef
<1>3. Len(f) \in Nat /\ 1 .. Len(f) = 1 .. n
  BY <1>2, LenProperties
<1>4. Len(f) = n
  BY <1>3
<1> QED
  BY <1>2, <1>4

LEMMA ActivationsAre ==
  ASSUME NEW s, Len(s) \in Nat
  PROVE  /\ ActivationsOf(s) \in Seq(Range(ActivationsOf(s)))
         /\ Len(ActivationsOf(s)) = Len(s)
         /\ \A d \in 1 .. Len(s) : ActivationsOf(s)[d] =
              [fn |-> s[d].block, args |-> ArgumentsOf(s[d], s[d - 1])]
BY FunctionSeq DEF ActivationsOf

\* Registers of the running activation are no arguments of a live one, and the
\* others change only when their activation runs.
LEMMA SameArguments ==
  ASSUME NEW f, NEW g, NEW h, NEW i,
         f.argc = g.argc, f.argv = g.argv,
         f.argc = 0 \/ (h.R = i.R /\ h.block = i.block)
  PROVE  ArgumentsOf(f, h) = ArgumentsOf(g, i)
<1>1. CASE f.argc = 0
  <2>1. 0 .. f.argc - 1 = {}
    BY <1>1
  <2> QED
    BY <2>1 DEF ArgumentsOf
<1>2. CASE h.R = i.R /\ h.block = i.block
  BY <1>2 DEF ArgumentsOf, Registers
<1> QED
  BY <1>1, <1>2

\* The two stacks agree up to depth n, but for the registers at that depth.
Agree(s, t, n) ==
  /\ Len(s) \in Nat /\ Len(t) \in Nat /\ n \in Nat /\ n <= Len(s) /\ n <= Len(t)
  /\ s[1].argc = 0
  /\ \A d \in 1 .. n : /\ s[d].block = t[d].block
                       /\ s[d].argc = t[d].argc /\ s[d].argv = t[d].argv
  /\ \A d \in 1 .. n - 1 : s[d].R = t[d].R

LEMMA SameActivations ==
  ASSUME NEW s, NEW t, NEW n, Agree(s, t, n)
  PROVE  \A d \in 1 .. n : ActivationsOf(s)[d] = ActivationsOf(t)[d]
<1> USE DEF Agree
<1> TAKE d \in 1 .. n
<1>1. d \in 1 .. Len(s) /\ d \in 1 .. Len(t)
  OBVIOUS
<1>2. d = 1 \/ (d - 1 \in 1 .. n /\ d - 1 \in 1 .. n - 1)
  OBVIOUS
<1>3. s[d].argc = 0 \/ (s[d - 1].R = t[d - 1].R /\ s[d - 1].block = t[d - 1].block)
  BY <1>2
<1>4. s[d].argc = t[d].argc /\ s[d].argv = t[d].argv /\ s[d].block = t[d].block
  OBVIOUS
<1>5. ArgumentsOf(s[d], s[d - 1]) = ArgumentsOf(t[d], t[d - 1])
  BY <1>3, <1>4, SameArguments
<1>6. /\ ActivationsOf(s)[d] = [fn |-> s[d].block, args |-> ArgumentsOf(s[d], s[d - 1])]
      /\ ActivationsOf(t)[d] = [fn |-> t[d].block, args |-> ArgumentsOf(t[d], t[d - 1])]
  BY <1>1, ActivationsAre, Zenon
<1> QED
  BY <1>4, <1>5, <1>6

LEMMA LocalActivations ==
  ASSUME TypeOK, CallChain, Local(Int)
  PROVE  ActivationsOf(Stack)' = ActivationsOf(Stack)
<1>1. PICK R \in [Registers(cur) -> Value], pc \in Int :
        cur' = [cur EXCEPT !.R = R, !.pc = pc]
  BY DEF Local
<1>2. prog' = prog /\ callers' = callers /\ callers \in Seq(Range(callers))
  BY DEF Local, TypeOK
<1>3. /\ cur'.block = cur.block /\ cur'.argc = cur.argc /\ cur'.argv = cur.argv
  BY <1>1 DEF TypeOK, IsFrame
<1> DEFINE n == Len(callers) + 1
<1>4. /\ n \in Nat /\ n # 0 /\ Len(Stack) = n /\ Len(Stack') = n
      /\ Stack[n] = cur /\ Stack'[n] = cur'
      /\ \A d \in 1 .. n - 1 : Stack'[d] = Stack[d]
  <2>1. Len(callers) \in Nat
    BY <1>2, StackOf
  <2>2. n - 1 = Len(callers)
    BY <2>1
  <2> QED
    BY <1>2, <2>1, <2>2, StackOf DEF Stack
<1> HIDE DEF n
<1>5. /\ \A d \in 1 .. n : /\ Stack[d].block = Stack'[d].block
                           /\ Stack[d].argc = Stack'[d].argc
                           /\ Stack[d].argv = Stack'[d].argv
      /\ \A d \in 1 .. n - 1 : Stack[d].R = Stack'[d].R
  <2>1. \A d \in 1 .. n : d = n \/ d \in 1 .. n - 1
    BY <1>4
  <2> QED
    BY <1>3, <1>4, <2>1
<1>6. \A d \in 1 .. n : ActivationsOf(Stack)[d] = ActivationsOf(Stack')[d]
  <2>1. Stack[1].argc = 0
    BY DEF CallChain
  <2>2. Len(Stack) \in Nat /\ Len(Stack') \in Nat /\ n <= Len(Stack) /\ n <= Len(Stack')
    BY <1>4
  <2>3. Agree(Stack, Stack', n)
    BY <1>4, <1>5, <2>1, <2>2 DEF Agree
  <2> QED
    BY <2>3, SameActivations, Zenon
<1>7. ActivationsOf(Stack') = ActivationsOf(Stack)
  BY <1>4, <1>6 DEF ActivationsOf
<1>8. ActivationsOf(Stack)' = ActivationsOf(Stack')
  BY <1>2 DEF ActivationsOf, ArgumentsOf, Registers
<1> QED
  BY <1>7, <1>8

\* The state of CallStack, as the interpreter represents it.
Acts  == IF status = "returned" THEN <<>> ELSE ActivationsOf(Stack)
Ends  == status \notin {"running", "returned"}
Arities == [b \in 1 .. Len(prog) |-> prog[b].argc]

LEMMA StackLength ==
  ASSUME TypeOK
  PROVE  /\ Len(Stack) \in Nat \ {0}
         /\ Len(ActivationsOf(Stack)) = Len(Stack)
         /\ ActivationsOf(Stack) \in Seq(Range(ActivationsOf(Stack)))
         /\ ActivationsOf(Stack) # <<>>
<1>1. Len(Stack) \in Nat \ {0}
  BY StackFacts
<1>2. /\ Len(ActivationsOf(Stack)) = Len(Stack)
      /\ ActivationsOf(Stack) \in Seq(Range(ActivationsOf(Stack)))
  BY <1>1, ActivationsAre
<1> QED
  BY <1>1, <1>2, EmptySeq

LEMMA InitCalls ==
  ASSUME Init
  PROVE  Calls!Init
<1>1. TypeOK /\ callers = <<>> /\ status = "running"
  BY InitTypes DEF Init
<1>2. Len(Stack) = 1 /\ Stack[1] = cur
  BY <1>1, StackFacts
<1>3. cur.block = 1 /\ cur.argc = 0
  BY DEF Init, Activation
<1>4. ArgumentsOf(cur, Stack[0]) = [x \in {} |-> x]
  <2>1. 0 .. cur.argc - 1 = {}
    BY <1>3
  <2> QED
    BY <2>1 DEF ArgumentsOf
<1>5. ActivationsOf(Stack) = <<[fn |-> 1, args |-> [x \in {} |-> x]]>>
  <2>1. 1 \in Nat /\ Len(Stack) \in Nat /\ 1 \in 1 .. Len(Stack) /\ 1 - 1 = 0
    BY <1>2
  <2>2. Len(ActivationsOf(Stack)) = 1
    BY <1>1, <1>2, StackLength
  <2>3. ActivationsOf(Stack)[1] = [fn |-> 1, args |-> [x \in {} |-> x]]
    BY <1>2, <1>3, <1>4, <2>1, ActivationsAre
  <2>4. ActivationsOf(Stack) \in Seq(Range(ActivationsOf(Stack)))
    BY <1>1, StackLength
  <2> HIDE DEF ActivationsOf
  <2> QED
    BY <2>2, <2>3, <2>4
<1> QED
  BY <1>1, <1>5 DEF Calls!Init, Calls!NoArgs

LEMMA LocalCalls ==
  ASSUME TypeOK, CallChain, Local(Int)
  PROVE  UNCHANGED <<Arities, Acts, Ends>>
<1>1. ActivationsOf(Stack)' = ActivationsOf(Stack)
  BY LocalActivations
<1>2. status' = status /\ prog' = prog
  BY DEF Local
<1> QED
  BY <1>1, <1>2 DEF Acts, Ends, Arities

LEMMA StopCalls ==
  ASSUME TypeOK, status = "running", NEW s \in Status \ {"running", "returned"}, Stop(s)
  PROVE  Calls!Stop
<1>1. /\ prog' = prog /\ cur' = cur /\ callers' = callers
      /\ status' \notin {"running", "returned"}
  BY DEF Stop
<1>2. Stack' = Stack
  BY <1>1 DEF Stack
<1>3. ActivationsOf(Stack)' = ActivationsOf(Stack)
  BY <1>1, <1>2 DEF ActivationsOf, ArgumentsOf, Registers
<1> QED
  BY <1>1, <1>3, StackLength DEF Calls!Stop

LEMMA ReturnedCalls ==
  ASSUME TypeOK, status = "running", NEW v, Returned(v)
  PROVE  Calls!Leave
<1>1. prog' = prog /\ status' = "returned" /\ callers = <<>>
  BY DEF Returned
<1>2. Len(ActivationsOf(Stack)) = 1 /\ ActivationsOf(Stack) # <<>>
  BY <1>1, StackFacts, StackLength
<1>3. Front(ActivationsOf(Stack)) = <<>>
  <2>1. 1 \in Int /\ 1 - 1 \in Int /\ 1 - 1 < 1
    OBVIOUS
  <2> QED
    BY <1>2, <2>1, SubSeqEmpty DEF Front
<1> QED
  BY <1>1, <1>2, <1>3 DEF Calls!Leave, Calls!Front, Front

LEMMA EnterCalls ==
  ASSUME TypeOK, CallChain, TypeOK', status = "running", EnterStep
  PROVE  Calls!Enter
<1>1. PICK b \in 1 .. Len(prog) :
        /\ InCode
        /\ I.c = prog[b].argc
        /\ callers' = Append(callers, cur)
        /\ cur' = Activation(prog, b, I.c, I.b + 1)
        /\ prog' = prog /\ status' = status
  BY DEF EnterStep
<1> DEFINE n == Len(Stack)
           acts == ActivationsOf(Stack)
           next == ActivationsOf(Stack')
<1>2. callers' = Stack /\ Stack' = Append(Stack, cur')
  BY <1>1 DEF Stack
<1>3. Stack \in Seq(Range(Stack)) /\ n \in Nat \ {0}
  BY StackOf, StackLength DEF TypeOK, Stack
<1>4. /\ Len(Stack') = n + 1 /\ Stack'[n + 1] = cur'
      /\ \A d \in 1 .. n : Stack'[d] = Stack[d]
  BY <1>2, <1>3, StackOf
<1>5. Agree(Stack, Stack', n)
  BY <1>3, <1>4 DEF Agree, CallChain
<1>6. /\ acts \in Seq(Range(acts)) /\ Len(acts) = n /\ acts # <<>>
      /\ next \in Seq(Range(next)) /\ Len(next) = n + 1
  BY <1>3, <1>4, StackLength, ActivationsAre
<1>7. \A d \in 1 .. n : acts[d] = next[d]
  BY <1>5, SameActivations
<1>8. next = Append(acts, Last(next))
  <2> HIDE DEF acts, next, n
  <2>1. Last(next) = next[n + 1]
    BY <1>6 DEF Last
  <2>2. /\ Append(acts, Last(next)) \in Seq(Range(Append(acts, Last(next))))
        /\ Len(Append(acts, Last(next))) = n + 1
        /\ Append(acts, Last(next))[n + 1] = next[n + 1]
        /\ \A d \in 1 .. n : Append(acts, Last(next))[d] = acts[d]
    BY <1>6, <2>1, StackOf
  <2>3. ASSUME NEW d \in 1 .. n + 1
        PROVE  next[d] = Append(acts, Last(next))[d]
    <3>1. d = n + 1 \/ d \in 1 .. n
      BY <1>3
    <3> QED
      BY <1>7, <2>2, <3>1
  <2> QED
    BY <1>6, <2>2, <2>3, SameSeq
<1>9. Last(next) = [fn |-> b, args |-> ArgumentsOf(cur', Stack'[n])]
  <2>1. n + 1 \in 1 .. Len(Stack') /\ Len(Stack') \in Nat /\ (n + 1) - 1 = n
    BY <1>3, <1>4
  <2>2. next[n + 1] = [fn |-> cur'.block, args |-> ArgumentsOf(cur', Stack'[n])]
    BY <1>4, <2>1, ActivationsAre
  <2>3. cur'.block = b
    BY <1>1 DEF Activation
  <2> HIDE DEF next, n
  <2> QED
    BY <1>6, <2>2, <2>3 DEF Last
<1>10. DOMAIN ArgumentsOf(cur', Stack'[n]) = 0 .. prog[b].argc - 1
  BY <1>1 DEF ArgumentsOf, Activation
<1>11. ActivationsOf(Stack)' = next
  BY <1>1 DEF ActivationsOf, ArgumentsOf, Registers
<1> HIDE DEF acts, next, n
<1>12. /\ Len(next) = Len(acts) + 1
       /\ next = Append(acts, Last(next))
       /\ Last(next).fn \in 1 .. Len(prog)
       /\ DOMAIN Last(next).args = 0 .. prog[Last(next).fn].argc - 1
  BY <1>6, <1>8, <1>9, <1>10
<1> QED
  BY <1>1, <1>6, <1>11, <1>12 DEF Calls!Enter, Calls!Last, Last, acts

LEMMA ResumeCalls ==
  ASSUME TypeOK, CallChain, TypeOK', status = "running", NEW v, Resume(v)
  PROVE  Calls!Leave
<1> DEFINE f == Last(callers)
           n == Len(callers)
           acts == ActivationsOf(Stack)
           next == ActivationsOf(Stack')
<1>1. /\ callers # <<>> /\ callers' = Front(callers) /\ prog' = prog /\ status' = status
      /\ cur' = [f EXCEPT !.R = [@ EXCEPT ![CallOf(f).a] = v], !.pc = @ + 1]
  BY DEF Resume
<1>2. callers \in Seq(Range(callers)) /\ callers' \in Seq(Range(callers'))
  BY DEF TypeOK
<1>3. /\ n \in Nat \ {0} /\ Len(callers') = n - 1 /\ f = callers[n]
      /\ \A d \in 1 .. n - 1 : callers'[d] = callers[d]
  BY <1>1, <1>2, FrontOf
<1>4. cur'.block = f.block /\ cur'.argc = f.argc /\ cur'.argv = f.argv
  BY <1>1, TopCall DEF IsFrame
<1>5. /\ Len(Stack) = n + 1 /\ \A d \in 1 .. n : Stack[d] = callers[d]
      /\ Len(Stack') = n
      /\ \A d \in 1 .. n - 1 : Stack'[d] = callers[d]
      /\ Stack'[n] = cur'
  <2>1. /\ Len(Stack) = n + 1 /\ \A d \in 1 .. n : Stack[d] = callers[d]
    BY <1>2, StackOf DEF Stack
  <2>2. /\ Len(Stack') = Len(callers') + 1 /\ Stack'[Len(callers') + 1] = cur'
        /\ \A d \in 1 .. Len(callers') : Stack'[d] = callers'[d]
    BY <1>2, StackOf DEF Stack
  <2>3. Len(callers') + 1 = n
    BY <1>3
  <2> QED
    BY <1>3, <2>1, <2>2, <2>3
<1> HIDE DEF n
<1>6. Agree(Stack, Stack', n)
  <2>1. \A d \in 1 .. n : d = n \/ d \in 1 .. n - 1
    BY <1>3
  <2>2. \A d \in 1 .. n - 1 : d \in 1 .. n
    BY <1>3
  <2>3. \A d \in 1 .. n : /\ Stack[d].block = Stack'[d].block
                         /\ Stack[d].argc = Stack'[d].argc
                         /\ Stack[d].argv = Stack'[d].argv
    BY <1>3, <1>4, <1>5, <2>1
  <2>4. \A d \in 1 .. n - 1 : Stack[d].R = Stack'[d].R
    BY <1>5, <2>2
  <2>5. /\ Len(Stack) \in Nat /\ Len(Stack') \in Nat /\ n \in Nat
        /\ n <= Len(Stack) /\ n <= Len(Stack')
    BY <1>3, <1>5
  <2> QED
    BY <2>3, <2>4, <2>5 DEF Agree, CallChain
<1>7. \A d \in 1 .. n : acts[d] = next[d]
  BY <1>6, SameActivations
<1>8. /\ acts \in Seq(Range(acts)) /\ Len(acts) = n + 1 /\ acts # <<>>
      /\ next \in Seq(Range(next)) /\ Len(next) = n
  BY <1>3, <1>5, StackLength, ActivationsAre
<1>9. next = Front(acts)
  <2> HIDE DEF acts, next
  <2>1. /\ Front(acts) \in Seq(Range(Front(acts)))
        /\ Len(Front(acts)) = Len(acts) - 1
        /\ \A d \in 1 .. Len(acts) - 1 : Front(acts)[d] = acts[d]
    BY <1>8, FrontOf
  <2>2. Len(acts) - 1 = n /\ n \in Nat
    BY <1>3, <1>8
  <2>3. \A d \in 1 .. n : next[d] = Front(acts)[d]
    BY <1>7, <2>1, <2>2
  <2> QED
    BY <1>8, <2>1, <2>2, <2>3, SameSeq
<1>10. ActivationsOf(Stack)' = next
  BY <1>1 DEF ActivationsOf, ArgumentsOf, Registers
<1> HIDE DEF next
<1> QED
  BY <1>1, <1>8, <1>9, <1>10 DEF Calls!Leave, Calls!Front, Front, acts

\* A step of the interpreter is a step of CallStack or leaves its state alone.
LEMMA StepCalls ==
  ASSUME TypeOK, CallChain, [Next]_vars
  PROVE  [Calls!Next]_(Calls!vars)
<1>1. TypeOK'
  BY StepTypes
<1>2. CASE Step
  <2>1. Shape /\ status = "running"
    BY <1>2, StepShape
  <2>2. CASE LocalStep
    BY <2>2, LocalCalls DEF LocalStep, Calls!vars, Acts, Ends, Arities
  <2>3. CASE StopStep
    BY <2>1, <2>3, StopCalls DEF StopStep, Calls!Next
  <2>4. CASE LeaveStep
    <3>1. PICK v \in Value : Returned(v) \/ Resume(v) \/ Stop("wild")
      BY <2>4, LeaveCases DEF LeaveStep
    <3>2. "wild" \in Status \ {"running", "returned"}
      BY DEF Status
    <3> QED
      BY <1>1, <2>1, <3>1, <3>2, ReturnedCalls, ResumeCalls, StopCalls DEF Calls!Next
  <2>5. CASE EnterStep
    BY <1>1, <2>1, <2>5, EnterCalls DEF Calls!Next
  <2> QED
    BY <2>1, <2>2, <2>3, <2>4, <2>5 DEF Shape
<1>3. CASE UNCHANGED vars
  <2>1. prog' = prog /\ status' = status /\ Stack' = Stack
    BY <1>3 DEF vars, Stack
  <2>2. ActivationsOf(Stack)' = ActivationsOf(Stack)
    BY <2>1 DEF ActivationsOf, ArgumentsOf, Registers
  <2> QED
    BY <2>1, <2>2 DEF Calls!vars
<1> QED
  BY <1>2, <1>3 DEF Next, Ended

\* The interpreter implements CallStack: arguments that are not copied stay what
\* they are, every block is entered with the arguments it declares, and the last
\* to begin is the first to end (BijouFunction_call, OP_GETARG, OP_RETURN).
THEOREM CallsImplemented == Spec => ImplementsCallStack
<1>1. Init => TypeOK /\ CallChain /\ Calls!Init
  BY InitTypes, InitCalls
<1>2. TypeOK /\ CallChain /\ [Next]_vars => TypeOK' /\ CallChain'
  BY StepTypes
<1>3. TypeOK /\ CallChain /\ [Next]_vars => [Calls!Next]_(Calls!vars)
  BY StepCalls
<1> QED
  BY <1>1, <1>2, <1>3, PTL DEF Spec, ImplementsCallStack, Calls!Spec

=============================================================================
