--------------------------- MODULE RoundTripProofs --------------------------
(***************************************************************************)
(* What bijou loads of a file is what bijouc has compiled, for every       *)
(* source and however early the file ends.                                 *)
(***************************************************************************)
EXTENDS CompilerProofs

\* What LoadConstants makes of a constant.
AsLoaded(v) == IF Tag(v) = "function" THEN Null ELSE Decoded(v)

\* What is loaded of a block.
PartOf(p, b) ==
  /\ Len(p.got) <= 11 /\ \A i \in 1 .. Len(p.got) : p.got[i] = FieldItems(b)[i][2]
  /\ Len(p.k) <= Len(b.k) /\ \A x \in 1 .. Len(p.k) : p.k[x] = AsLoaded(b.k[x])
  /\ Len(p.children) <= Len(b.children)
  /\ \A c \in 1 .. Len(p.children) : p.children[c] = b.children[c]
  /\ p.sizep \in {Unset, Len(b.children)}

\* All that stands before the children is loaded.
ReadUp(p, b) == Len(p.got) = 11 /\ Len(p.k) = Len(b.k) /\ p.sizep = Len(b.children)

Whole(p, b) == ReadUp(p, b) /\ Len(p.children) = Len(b.children)

\* The functions being loaded, each a child of the one before it.
Inside ==
  /\ stack[1] = 1
  /\ \A i, j \in 1 .. Len(stack) : i < j => stack[i] < stack[j]
  /\ \A i \in 1 .. Len(stack) - 1 : \A j \in {stack[i]} :
       /\ ReadUp(protos[j], blocks[j]) /\ Len(protos[j].children) # 0
       /\ Last(protos[j].children) = stack[i + 1]

\* The loader is at item n when it has read p of function j.
Place(p, j, n) ==
  /\ Len(p.got) < 11 =>
       Len(p.k) = 0 /\ p.sizep = Unset /\ n = FunctionsTo(j - 1) + 2 + Len(p.got)
  /\ Len(p.got) = 11 /\ p.sizep = Unset =>
       n = FunctionsTo(j - 1) + 13 + ConstsTo(blocks[j], Len(p.k))
  /\ p.sizep = Unset => Len(p.children) = 0 /\ j = Len(protos)
  /\ p.sizep # Unset =>
       /\ ReadUp(p, blocks[j]) /\ n = FunctionsTo(Len(protos)) + 2
       /\ Len(protos) = Reach(j, Len(p.children))

\* What is loaded is what was written.
Matches ==
  /\ Len(protos) <= Len(blocks)
  /\ \A j \in 1 .. Len(protos) :
       /\ PartOf(protos[j], blocks[j])
       /\ (\A i \in 1 .. Len(stack) : stack[i] # j) => Whole(protos[j], blocks[j])
  /\ stack # <<>> => Inside /\ Place(Cur, Last(stack), pos)
  /\ stack = <<>> => Len(protos) = Len(blocks) /\ pos = Len(Bytecode) + 1

\* So it is as long as the file has what is read.
Faithful == protos # <<>> /\ pos - 1 <= Len(file) => Matches

ProtosTyped ==
  /\ pos # 0 /\ phase \in Phases
  /\ \A j \in 1 .. Len(protos) : IsProto(protos[j])

\* Before and after the functions are loaded.
Outside ==
  /\ phase \in NotYet \cup {"loading"} /\ stack = <<>> => protos = <<>> /\ pos = 1
  /\ phase \in {"building", "ready"} => stack = <<>> /\ protos # <<>>

\* What proto_to_block2 makes of a proto.
BuiltOf(l, p, main) ==
  \E k \in PushAll(p.k) :
    l = [code |-> p.got[10], k |-> k, regc |-> p.got[5], argc |-> p.got[8],
         numglobal |-> IF main THEN p.got[6] ELSE 0, children |-> p.children]

Building ==
  /\ loaded \in Seq(Range(loaded))
  /\ phase \notin {"building", "ready"} \cup Ends => loaded = <<>>
  /\ phase = "building" => Len(loaded) < Len(protos)
  /\ phase = "ready" => Len(loaded) = Len(protos)
  /\ phase \in {"building", "ready"} =>
       \A j \in 1 .. Len(loaded) : BuiltOf(loaded[j], protos[j], j = 1)

LoaderInv ==
  CompilerInv /\ Inv /\ Faithful /\ ProtosTyped /\ Outside /\ Building

----------------------------------------------------------------------------
(* Where the loader is.                                                    *)

LEMMA SameFile ==
  ASSUME src' = src, blocks' = blocks
  PROVE  /\ \A n : FunctionsTo(n)' = FunctionsTo(n)
         /\ \A j, c : Reach(j, c)' = Reach(j, c)
         /\ Bytecode' = Bytecode
<1>1. \A j, c : Reach(j, c)' = Reach(j, c)
  BY SameSource DEF Reach
<1> QED
  BY <1>1 DEF FunctionsTo, FunctionSeqs, Bytecode

\* The function that is being loaded.
LEMMA CurIs ==
  ASSUME Inv, ProtosTyped
  PROVE  /\ Len(protos) \in Nat /\ DOMAIN protos = 1 .. Len(protos)
         /\ pos \in Nat \ {0} /\ Len(stack) \in Nat
         /\ \A i \in 1 .. Len(stack) : stack[i] \in 1 .. Len(protos)
         /\ \A j \in 1 .. Len(protos) :
              /\ IsProto(protos[j])
              /\ DOMAIN protos[j] = {"got", "k", "sizep", "children"}
              /\ Len(protos[j].got) \in 0 .. 11
              /\ DOMAIN protos[j].got = 1 .. Len(protos[j].got)
              /\ protos[j].k \in Seq(ConstValue) /\ Len(protos[j].k) \in Nat
              /\ protos[j].children \in Seq(2 .. Len(protos))
              /\ Len(protos[j].children) \in Nat
         /\ stack # <<>> =>
              /\ Len(stack) \in 1 .. Len(stack) /\ Last(stack) = stack[Len(stack)]
              /\ Last(stack) \in 1 .. Len(protos) /\ Cur = protos[Last(stack)]
<1>1. /\ Len(protos) \in Nat /\ DOMAIN protos = 1 .. Len(protos)
      /\ pos \in Nat \ {0} /\ stack \in Seq(1 .. Len(protos))
  BY LenProperties DEF Inv, ProtosOK, ProtosTyped
<1>2. /\ Len(stack) \in Nat /\ \A i \in 1 .. Len(stack) : stack[i] \in 1 .. Len(protos)
      /\ stack # <<>> => /\ Len(stack) \in 1 .. Len(stack) /\ Last(stack) = stack[Len(stack)]
                         /\ Last(stack) \in 1 .. Len(protos)
  BY <1>1, LenProperties, ElementOfSeq, LastOf
<1>3. ASSUME NEW j \in 1 .. Len(protos)
      PROVE  /\ IsProto(protos[j])
             /\ DOMAIN protos[j] = {"got", "k", "sizep", "children"}
             /\ Len(protos[j].got) \in 0 .. 11
             /\ DOMAIN protos[j].got = 1 .. Len(protos[j].got)
             /\ protos[j].k \in Seq(ConstValue) /\ Len(protos[j].k) \in Nat
             /\ protos[j].children \in Seq(2 .. Len(protos))
             /\ Len(protos[j].children) \in Nat
  <2>1. /\ IsProto(protos[j]) /\ DOMAIN protos[j] = {"got", "k", "sizep", "children"}
        /\ protos[j].got \in Seq(Range(protos[j].got))
    BY <1>1 DEF Inv, ProtosOK, ProtosTyped
  <2>2. Len(protos[j].got) \in Nat /\ DOMAIN protos[j].got = 1 .. Len(protos[j].got)
    BY <2>1, LenProperties
  <2>3. Len(protos[j].got) <= 11
    <3>1. Len(Fields) = 11
      BY DEF Fields
    <3> QED
      BY <2>1, <3>1 DEF IsProto
  <2>4. protos[j].k \in Seq(ConstValue) /\ protos[j].children \in Seq(2 .. Len(protos))
    BY <2>1 DEF IsProto
  <2>5. Len(protos[j].k) \in Nat /\ Len(protos[j].children) \in Nat
    BY <2>4, LenProperties
  <2>6. Len(protos[j].got) \in 0 .. 11
    <3>1. \A n \in Nat : n <= 11 => n \in 0 .. 11
      OBVIOUS
    <3> QED
      BY <2>2, <2>3, <3>1
  <2> QED
    BY <2>1, <2>2, <2>4, <2>5, <2>6
<1> QED
  BY <1>1, <1>2, <1>3 DEF Cur

\* While a function is loaded of what the file has, the source was compiled.
LEMMA LoadingIs ==
  ASSUME CompilerInv, Inv, ProtosTyped, Faithful, file # Absent, stack # <<>>,
         pos - 1 <= Len(file)
  PROVE  /\ Matches /\ Complete /\ AllWritten
         /\ PartOf(Cur, blocks[Last(stack)]) /\ Place(Cur, Last(stack), pos)
         /\ Last(stack) \in 1 .. Len(blocks) /\ IsWritten(blocks[Last(stack)])
         /\ Len(file) \in Nat /\ pos \in Nat /\ Len(blocks) \in Nat
<1>1. Last(stack) \in 1 .. Len(protos) /\ Cur = protos[Last(stack)] /\ Len(protos) \in Nat
  BY CurIs
<1>2. protos # <<>>
  BY <1>1, EmptySeq
<1>3. Matches
  BY <1>2 DEF Faithful
<1>4. AllWritten /\ Len(blocks) \in Nat /\ Len(protos) <= Len(blocks)
  BY <1>3, AllAreWritten DEF AllWritten, Matches
<1>5. Last(stack) \in 1 .. Len(blocks) /\ IsWritten(blocks[Last(stack)])
  BY <1>1, <1>4 DEF AllWritten
<1>6. PartOf(Cur, blocks[Last(stack)]) /\ Place(Cur, Last(stack), pos)
  BY <1>1, <1>3 DEF Matches
<1>7. Len(file) \in Nat /\ (Len(file) # 0 => Complete) /\ pos \in Nat
  BY FileIs, CurIs
<1>8. pos >= 2
  <2>1. Len(Cur.got) \in 0 .. 11 /\ Len(Cur.k) \in Nat
    BY <1>1, CurIs
  <2>2. \A n \in 0 .. Len(blocks) : FunctionsTo(n) \in Nat
    BY <1>4, BytecodeIs
  <2>3. FunctionsTo(Last(stack) - 1) \in Nat /\ FunctionsTo(Len(protos)) \in Nat
    <3>1. Last(stack) - 1 \in 0 .. Len(blocks) /\ Len(protos) \in 0 .. Len(blocks)
      BY <1>1, <1>4, <1>5
    <3> QED
      BY <2>2, <3>1
  <2>4. CASE Len(Cur.got) < 11
    BY <1>6, <2>1, <2>3, <2>4 DEF Place
  <2>5. CASE Len(Cur.got) = 11 /\ Cur.sizep = Unset
    <3>1. Len(Cur.k) \in 0 .. Len(blocks[Last(stack)].k)
      BY <1>5, <1>6, <2>1, ConstSeqsAre DEF PartOf
    <3>2. ConstsTo(blocks[Last(stack)], Len(Cur.k)) \in Nat
      BY <1>5, <3>1, ConstsToAre
    <3> QED
      BY <1>6, <2>3, <2>5, <3>2 DEF Place
  <2>6. CASE Cur.sizep # Unset
    BY <1>6, <2>3, <2>6 DEF Place
  <2>7. Len(Cur.got) < 11 \/ Len(Cur.got) = 11
    <3>1. \A n \in 0 .. 11 : n < 11 \/ n = 11
      OBVIOUS
    <3> QED
      BY <2>1, <3>1
  <2> QED
    BY <2>4, <2>5, <2>6, <2>7
<1>9. Complete
  BY <1>7, <1>8
<1> QED
  BY <1>3, <1>4, <1>5, <1>6, <1>7, <1>9

\* The item the loader stands at is the one it wants.
LEMMA AtHand ==
  ASSUME CompilerInv, Inv, ProtosTyped, Faithful, file # Absent, stack # <<>>,
         pos <= Len(file)
  PROVE  LET b == blocks[Last(stack)]
             x == Len(Cur.k) + 1
         IN  /\ Len(Cur.got) < 11 => file[pos] = FieldItems(b)[Len(Cur.got) + 1]
             /\ Len(Cur.got) = 11 => SizeK = Len(b.k)
             /\ Len(Cur.got) = 11 /\ Cur.sizep = Unset /\ Len(Cur.k) < Len(b.k) =>
                  /\ x \in 1 .. Len(b.k)
                  /\ file[pos] = ConstItems(b.k[x])[1]
                  /\ Len(ConstItems(b.k[x])) = 2 /\ pos + 1 <= Len(file) =>
                       file[pos + 1] = ConstItems(b.k[x])[2]
             /\ Len(Cur.got) = 11 /\ Cur.sizep = Unset /\ Len(Cur.k) = Len(b.k) =>
                  file[pos] = <<"int", Len(b.children)>>
<1> DEFINE b == blocks[Last(stack)]
           o == FunctionsTo(Last(stack) - 1)
           x == Len(Cur.k) + 1
<1>1. pos \in Nat /\ Len(Cur.got) \in 0 .. 11 /\ Len(Cur.k) \in Nat
  BY CurIs
<1>2. Len(file) \in Nat /\ \A y \in 1 .. Len(file) : file[y] = Bytecode[y]
  BY FileIs
<1>3. pos - 1 <= Len(file) /\ pos \in 1 .. Len(file)
  <2>1. pos \in Nat \ {0}
    BY CurIs
  <2> QED
    BY <1>2, <2>1
<1>4. /\ AllWritten /\ Last(stack) \in 1 .. Len(blocks) /\ IsWritten(b)
      /\ PartOf(Cur, b) /\ Place(Cur, Last(stack), pos)
  BY <1>3, LoadingIs
<1>5. /\ o \in Nat /\ \A i \in 1 .. 11 : Bytecode[1 + o + i] = FieldItems(b)[i]
      /\ Bytecode[13 + o + ConstsTo(b, Len(b.k))] = <<"int", Len(b.children)>>
      /\ \A y \in 1 .. Len(b.k) :
           /\ ConstsTo(b, y - 1) \in Nat
           /\ \A i \in 1 .. Len(ConstItems(b.k[y])) :
                Bytecode[12 + o + ConstsTo(b, y - 1) + i] = ConstItems(b.k[y])[i]
      /\ ConstsTo(b, Len(b.k)) \in Nat
  BY <1>4, ItemsOfFunction
<1>6. Len(b.k) \in Nat /\ \A y \in 1 .. Len(b.k) : b.k[y] \in Constants
  BY <1>4, ConstSeqsAre
<1> HIDE DEF b, o
<1>7. ASSUME Len(Cur.got) < 11
      PROVE  file[pos] = FieldItems(b)[Len(Cur.got) + 1]
  <2>1. pos = o + 2 + Len(Cur.got)
    BY <1>4, <1>7 DEF Place, o
  <2>2. PICK n : n = Len(Cur.got)
    OBVIOUS
  <2>3. n \in Nat /\ n <= 11 /\ n < 11 /\ o \in Nat /\ pos = o + 2 + n
    <3>1. \A y \in 0 .. 11 : y \in Nat /\ y <= 11
      OBVIOUS
    <3>2. o \in Nat
      BY <1>5
    <3> QED
      BY <1>1, <1>7, <2>1, <2>2, <3>1, <3>2
  <2>4. n + 1 \in 1 .. 11 /\ pos = 1 + o + (n + 1)
    BY <2>3
  <2> QED
    BY <1>2, <1>3, <1>5, <2>2, <2>4
<1>8. ASSUME Len(Cur.got) = 11
      PROVE  SizeK = Len(b.k)
  <2>1. 11 \in 1 .. Len(Cur.got)
    BY <1>8
  <2>2. Cur.got[11] = FieldItems(b)[11][2]
    BY <1>4, <2>1 DEF PartOf
  <2>3. FieldItems(b)[11] = <<"int", Len(b.k)>>
    BY DEF FieldItems, Int32
  <2>4. <<"int", Len(b.k)>>[2] = Len(b.k)
    OBVIOUS
  <2> QED
    BY <2>2, <2>3, <2>4 DEF SizeK
<1>9. ASSUME Len(Cur.got) = 11, Cur.sizep = Unset, Len(Cur.k) < Len(b.k)
      PROVE  /\ x \in 1 .. Len(b.k)
             /\ file[pos] = ConstItems(b.k[x])[1]
             /\ Len(ConstItems(b.k[x])) = 2 /\ pos + 1 <= Len(file) =>
                  file[pos + 1] = ConstItems(b.k[x])[2]
  <2>1. pos = o + 13 + ConstsTo(b, Len(Cur.k))
    BY <1>4, <1>9 DEF Place, o, b
  <2>2. x \in 1 .. Len(b.k) /\ x - 1 = Len(Cur.k)
    BY <1>1, <1>6, <1>9
  <2>3. Len(ConstItems(b.k[x])) \in 1 .. 2
    BY <1>6, <2>2, ConstItemsAre
  <2> HIDE DEF x
  <2>4. PICK c : c = ConstsTo(b, x - 1)
    OBVIOUS
  <2>5. c \in Nat /\ pos = 12 + o + c + 1 /\ pos + 1 = 12 + o + c + 2
    <3>1. c \in Nat /\ o \in Nat /\ pos = o + 13 + c
      BY <1>5, <2>1, <2>2, <2>4
    <3> QED
      BY <3>1
  <2>6. \A i \in 1 .. Len(ConstItems(b.k[x])) :
          Bytecode[12 + o + c + i] = ConstItems(b.k[x])[i]
    BY <1>5, <2>2, <2>4
  <2>7. file[pos] = ConstItems(b.k[x])[1]
    <3>1. \A n \in 1 .. 2 : 1 \in 1 .. n
      OBVIOUS
    <3>2. 1 \in 1 .. Len(ConstItems(b.k[x]))
      BY <2>3, <3>1
    <3> QED
      BY <1>2, <1>3, <2>5, <2>6, <3>2
  <2>8. ASSUME Len(ConstItems(b.k[x])) = 2, pos + 1 <= Len(file)
        PROVE  file[pos + 1] = ConstItems(b.k[x])[2]
    <3>1. 2 \in 1 .. Len(ConstItems(b.k[x])) /\ pos + 1 \in 1 .. Len(file)
      BY <1>1, <1>2, <2>8
    <3> QED
      BY <1>2, <2>5, <2>6, <3>1
  <2> QED
    BY <2>2, <2>7, <2>8
<1>10. ASSUME Len(Cur.got) = 11, Cur.sizep = Unset, Len(Cur.k) = Len(b.k)
       PROVE  file[pos] = <<"int", Len(b.children)>>
  <2>1. pos = o + 13 + ConstsTo(b, Len(b.k))
    BY <1>4, <1>10 DEF Place, o, b
  <2>2. pos = 13 + o + ConstsTo(b, Len(b.k))
    <3>1. PICK c : c = ConstsTo(b, Len(b.k))
      OBVIOUS
    <3>2. c \in Nat /\ o \in Nat /\ pos = o + 13 + c
      BY <1>5, <2>1, <3>1
    <3>3. pos = 13 + o + c
      BY <3>2
    <3> QED
      BY <3>1, <3>3
  <2> QED
    BY <1>2, <1>3, <1>5, <2>2
<1> QED
  BY <1>7, <1>8, <1>9, <1>10 DEF b

\* What the loader wants next of the function on top.
LEMMA WantedIs ==
  ASSUME Inv, ProtosTyped, stack # <<>>
  PROVE  /\ Len(Cur.got) < 11 => Wanted = Fields[Len(Cur.got) + 1]
         /\ Len(Cur.got) = 11 =>
              /\ Len(Cur.k) < SizeK => Wanted = "constant"
              /\ ~(Len(Cur.k) < SizeK) => Wanted \in {"children", "nothing"}
              /\ Wanted = "children" => Cur.sizep = Unset /\ Len(Cur.k) = SizeK
         /\ Len(Cur.got) < 11 \/ Len(Cur.got) = 11
         /\ Wanted \in Range(Fields) => Len(Cur.got) < 11 /\ Cur.sizep = Unset
         /\ Wanted = "constant" =>
              Len(Cur.got) = 11 /\ Len(Cur.k) < SizeK /\ Cur.sizep = Unset
<1>1. Len(Fields) = 11
  BY DEF Fields
<1>2. \A n \in 0 .. 11 : n < 11 \/ n = 11
  OBVIOUS
<1>3. Len(Cur.got) < 11 \/ Len(Cur.got) = 11
  BY <1>2, CurIs
<1>4. CASE Len(Cur.got) < 11
  <2>1. Len(Cur.got) # 11 /\ Len(Cur.got) # Len(Fields)
    <3>1. \A n \in 0 .. 11 : n < 11 => n # 11
      OBVIOUS
    <3> QED
      BY <1>1, <1>4, <3>1, CurIs
  <2>2. Wanted = Fields[Len(Cur.got) + 1]
    BY <1>1, <1>4, <2>1 DEF Wanted
  <2>3. Cur.sizep = Unset
    BY <1>1, <1>4, NotYetCounted
  <2>4. Wanted # "constant"
    BY <2>1, WhatIsWanted
  <2> QED
    BY <1>4, <2>1, <2>2, <2>3, <2>4
<1>5. CASE Len(Cur.got) = 11
  <2>1. ~(Len(Cur.got) < Len(Fields)) /\ Len(Cur.got) = Len(Fields)
    BY <1>1, <1>5
  <2>2. /\ Len(Cur.k) < SizeK => Wanted = "constant"
        /\ ~(Len(Cur.k) < SizeK) => Wanted \in {"children", "nothing"}
        /\ Wanted = "children" => Cur.sizep = Unset /\ Len(Cur.k) = SizeK
    BY <2>1 DEF Wanted
  <2> QED
    BY <1>5, <2>1, <2>2, WhatIsWanted, NotYetCounted
<1> QED
  BY <1>3, <1>4, <1>5

----------------------------------------------------------------------------
(* What follows while the functions are loaded.                            *)

LEMMA KindsAgree ==
  ASSUME LoaderInv
  PROVE  InStep
<1> SUFFICES ASSUME phase = "loading", pos <= Len(file)
             PROVE  CASE Wanted = "nothing"  -> TRUE
                      [] Wanted = "children" -> file[pos][1] = "int"
                      [] Wanted = "constant" ->
                           /\ file[pos][1] = "char" /\ file[pos][2] \in 0 .. 4
                           /\ pos < Len(file) /\ file[pos][2] \in 1 .. 3 =>
                                file[pos + 1][1] =
                                  <<"number", "char", "string">>[file[pos][2]]
                      [] OTHER -> file[pos][1] = Wanted
  BY DEF InStep
<1>1. CompilerInv /\ Inv /\ ProtosTyped /\ Faithful /\ Outside /\ file # Absent
  BY DEF LoaderInv, CompilerInv, PhaseOK
<1>2. CASE stack = <<>>
  <2>1. pos = 1 /\ Wanted = "header"
    BY <1>1, <1>2 DEF Outside, Wanted
  <2>2. file[1] = <<"header", 0>>
    <3>1. Len(file) \in Nat /\ \A x \in 1 .. Len(file) : file[x] = Bytecode[x]
      BY <1>1, FileIs
    <3>2. Bytecode[1] = <<"header", 0>>
      BY <1>1, AllAreWritten, BytecodeIs
    <3>3. 1 \in 1 .. Len(file)
      BY <2>1, <3>1
    <3> QED
      BY <3>1, <3>2, <3>3
  <2> QED
    BY <2>1, <2>2
<1>3. CASE stack # <<>>
  <2> DEFINE b == blocks[Last(stack)]
             x == Len(Cur.k) + 1
  <2>1. /\ Len(Cur.got) < 11 => file[pos] = FieldItems(b)[Len(Cur.got) + 1]
        /\ Len(Cur.got) = 11 => SizeK = Len(b.k)
        /\ Len(Cur.got) = 11 /\ Cur.sizep = Unset /\ Len(Cur.k) < Len(b.k) =>
             /\ x \in 1 .. Len(b.k)
             /\ file[pos] = ConstItems(b.k[x])[1]
             /\ Len(ConstItems(b.k[x])) = 2 /\ pos + 1 <= Len(file) =>
                  file[pos + 1] = ConstItems(b.k[x])[2]
        /\ Len(Cur.got) = 11 /\ Cur.sizep = Unset /\ Len(Cur.k) = Len(b.k) =>
             file[pos] = <<"int", Len(b.children)>>
    BY <1>1, <1>3, AtHand
  <2>2. pos \in Nat /\ Len(file) \in Nat /\ IsWritten(b)
    <3>1. pos - 1 <= Len(file)
      BY <1>1, FileIs, CurIs
    <3> QED
      BY <1>1, <1>3, <3>1, LoadingIs
  <2> HIDE DEF b, x
  <2>3. CASE Len(Cur.got) < 11
    <3>1. Len(Cur.got) + 1 \in 1 .. 11
      <4>1. \A n \in 0 .. 11 : n < 11 => n + 1 \in 1 .. 11
        OBVIOUS
      <4> QED
        BY <1>1, <1>3, <2>3, <4>1, CurIs
    <3>2. file[pos][1] = Wanted
      BY <1>1, <1>3, <2>1, <2>2, <2>3, <3>1, WantedIs, FieldItemsAre
    <3>3. Wanted \in {"string", "int", "char", "words"}
      BY <1>1, <1>3, <2>3, <3>1, WantedIs DEF Fields
    <3> QED
      BY <3>2, <3>3
  <2>4. CASE Len(Cur.got) = 11 /\ Wanted = "constant"
    <3>1. Len(Cur.k) < Len(b.k) /\ Cur.sizep = Unset
      BY <1>1, <1>3, <2>1, <2>4, WantedIs
    <3>2. b.k[x] \in Constants
      BY <2>1, <2>2, <2>4, <3>1, ConstSeqsAre
    <3>3. /\ TypeByte(b.k[x]) \in 0 .. 4
          /\ file[pos] = <<"char", TypeByte(b.k[x])>>
      BY <2>1, <2>4, <3>1, <3>2, ConstItemsAre
    <3>4. PICK type : type = TypeByte(b.k[x])
      OBVIOUS
    <3>5. file[pos][1] = "char" /\ file[pos][2] = type /\ type \in 0 .. 4
      BY <3>3, <3>4
    <3>6. ASSUME pos < Len(file), type \in 1 .. 3
          PROVE  file[pos + 1][1] = <<"number", "char", "string">>[type]
      <4>1. file[pos + 1] = ConstItems(b.k[x])[2]
        <5>1. Len(ConstItems(b.k[x])) = 2 /\ pos + 1 <= Len(file)
          BY <2>2, <3>2, <3>4, <3>6, ConstItemsAre
        <5> QED
          BY <2>1, <2>4, <3>1, <5>1
      <4>2. /\ type = 1 => ConstItems(b.k[x])[2][1] = "number"
            /\ type = 2 => ConstItems(b.k[x])[2][1] = "char"
            /\ type = 3 => ConstItems(b.k[x])[2][1] = "string"
        BY <3>2, <3>4, ConstItemsAre
      <4>3. type = 1 \/ type = 2 \/ type = 3
        BY <3>6
      <4> QED
        BY <4>1, <4>2, <4>3
    <3> QED
      BY <2>4, <3>5, <3>6
  <2>5. CASE Len(Cur.got) = 11 /\ Wanted = "children"
    <3>1. Cur.sizep = Unset /\ Len(Cur.k) = Len(b.k)
      BY <1>1, <1>3, <2>1, <2>5, WantedIs
    <3> QED
      BY <2>1, <2>5, <3>1
  <2>6. CASE Wanted = "nothing"
    BY <2>6
  <2> QED
    BY <1>1, <1>3, <2>3, <2>4, <2>5, <2>6, WantedIs
<1> QED
  BY <1>2, <1>3

\* The file the loader reads is there, and stays as it is with all that is compiled.
LEMMA LoadingNow ==
  ASSUME LoaderInv, phase = "loading", stack # <<>>
  PROVE  /\ file # Absent /\ Last(stack) \in 1 .. Len(protos) /\ Cur = protos[Last(stack)]
         /\ Len(stack) \in 1 .. Len(stack) /\ Last(stack) = stack[Len(stack)]
         /\ Len(stack) \in Nat /\ Len(protos) \in Nat /\ pos \in Nat /\ Len(file) \in Nat
         /\ protos # <<>> /\ DOMAIN Cur = {"got", "k", "sizep", "children"}
<1>1. file # Absent
  BY DEF LoaderInv, CompilerInv, PhaseOK
<1>2. /\ Last(stack) \in 1 .. Len(protos) /\ Cur = protos[Last(stack)]
      /\ Len(stack) \in 1 .. Len(stack) /\ Last(stack) = stack[Len(stack)]
      /\ Len(stack) \in Nat /\ Len(protos) \in Nat /\ pos \in Nat
      /\ DOMAIN Cur = {"got", "k", "sizep", "children"}
  BY CurIs DEF LoaderInv, Inv, ProtosOK
<1>3. protos # <<>>
  BY <1>2, EmptySeq
<1>4. Len(file) \in Nat
  BY <1>1, FileIs DEF LoaderInv
<1> QED
  BY <1>1, <1>2, <1>3, <1>4

LEMMA SamePlace ==
  ASSUME src' = src, blocks' = blocks, Len(protos') = Len(protos)
  PROVE  \A p, j, n : Place(p, j, n)' = Place(p, j, n)
BY SameFile DEF Place

\* One item, or one constant, more of the function on top.
LEMMA TakeFaithful ==
  ASSUME LoaderInv, phase = "loading", stack # <<>>, NEW p, NEW n \in Nat, Take(p, n),
         pos + n - 1 <= Len(file) =>
           PartOf(p, blocks[Last(stack)]) /\ Place(p, Last(stack), pos + n)
  PROVE  Faithful'
<1>1. /\ protos' = [protos EXCEPT ![Last(stack)] = p] /\ pos' = pos + n
      /\ stack' = stack /\ file' = file /\ blocks' = blocks /\ src' = src
  BY DEF Take, given, compiling
<1>2. PICK t, m, q : t = Last(stack) /\ m = Len(stack) /\ q = pos + n
  OBVIOUS
<1>3. /\ t \in 1 .. Len(protos) /\ m \in 1 .. m /\ m \in Nat /\ t = stack[m]
      /\ pos \in Nat /\ Len(file) \in Nat /\ Len(protos) \in Nat /\ file # Absent
      /\ Cur = protos[t] /\ protos # <<>>
  BY <1>2, LoadingNow
<1>4. /\ Len(protos') = Len(protos) /\ protos'[t] = p
      /\ \A j \in 1 .. Len(protos) : j # t => protos'[j] = protos[j]
  <2>1. protos \in Seq(Range(protos)) /\ DOMAIN protos = 1 .. Len(protos)
    BY LenProperties DEF LoaderInv, Inv, ProtosOK
  <2> QED
    BY <1>1, <1>2, <1>3, <2>1, Replaced
<1> SUFFICES ASSUME q - 1 <= Len(file)
             PROVE  Matches'
  BY <1>1, <1>2 DEF Faithful
<1>5. /\ Matches /\ PartOf(p, blocks[t]) /\ Place(p, t, q)
  <2>1. pos - 1 <= Len(file)
    BY <1>2, <1>3
  <2> QED
    BY <1>2, <1>3, <2>1 DEF LoaderInv, Faithful
<1>6. ASSUME NEW j \in 1 .. Len(protos)
      PROVE  /\ PartOf(protos'[j], blocks[j])
             /\ (\A i \in 1 .. Len(stack) : stack[i] # j) => Whole(protos'[j], blocks[j])
  BY <1>2, <1>3, <1>4, <1>5 DEF Matches
<1>7. Inside'
  <2>1. ASSUME NEW i \in 1 .. Len(stack) - 1
        PROVE  stack[i] # t /\ stack[i] \in 1 .. Len(protos)
    <3>1. i \in 1 .. m /\ i < m
      BY <1>2, <1>3
    <3>2. \A y \in 1 .. Len(stack) : stack[y] \in 1 .. Len(protos)
      BY CurIs DEF LoaderInv
    <3>3. stack[i] < stack[m]
      BY <1>2, <1>3, <1>5, <3>1 DEF Matches, Inside
    <3> QED
      BY <1>2, <1>3, <3>1, <3>2, <3>3
  <2> QED
    BY <1>1, <1>4, <1>5, <2>1 DEF Matches, Inside
<1>8. Place(Cur, Last(stack), pos)'
  <2>1. Cur' = p /\ Last(stack') = t /\ pos' = q
    BY <1>1, <1>2, <1>4 DEF Cur
  <2>2. Place(p, t, q)'
    BY <1>1, <1>4, <1>5, SamePlace
  <2> QED
    BY <2>1, <2>2
<1> QED
  BY <1>1, <1>4, <1>5, <1>6, <1>7, <1>8 DEF Matches

LEMMA SameFaithful ==
  ASSUME Faithful, src' = src, blocks' = blocks, file' = file, pos' = pos, stack' = stack,
         protos' = protos
  PROVE  Faithful'
<1>1. Len(protos') = Len(protos) /\ Cur' = Cur
  BY DEF Cur
<1>2. Place(Cur, Last(stack), pos) => Place(Cur, Last(stack), pos)'
  <2>1. PICK p, t, q : p = Cur /\ t = Last(stack) /\ q = pos
    OBVIOUS
  <2>2. Place(p, t, q) => Place(p, t, q)'
    BY <1>1, SamePlace
  <2> QED
    BY <1>1, <2>1, <2>2
<1>3. Inside => Inside'
  BY DEF Inside
<1>4. Bytecode' = Bytecode
  BY SameFile
<1> QED
  BY <1>1, <1>2, <1>3, <1>4 DEF Faithful, Matches

LEMMA EndFaithful ==
  ASSUME Faithful, NEW how, End(how)
  PROVE  Faithful'
BY SameFaithful DEF End, given, compiling, loading

LEMMA FieldFaithful ==
  ASSUME LoaderInv, LoadField
  PROVE  Faithful'
<1>1. phase = "loading" /\ Wanted \in Range(Fields)
  BY DEF LoadField, Loading
<1>2. stack # <<>> /\ Cur.sizep = Unset /\ Len(Cur.got) < 11
  BY <1>1, WhatIsWanted, WantedIs DEF LoaderInv
<1>3. PICK v \in Item(pos, Wanted) :
        \/ End("refused") \/ End("crashed") \/ Take([Cur EXCEPT !.got = Append(@, v)], 1)
  BY DEF LoadField
<1>4. CASE Take([Cur EXCEPT !.got = Append(@, v)], 1)
  <2>1. PICK p, t, m : /\ p = [Cur EXCEPT !.got = Append(@, v)] /\ t = Last(stack)
                       /\ m = Len(Cur.got)
    OBVIOUS
  <2>2. /\ Cur.got \in Seq(Range(Cur.got)) /\ m \in Nat /\ m \in 0 .. 11 /\ m < 11
        /\ DOMAIN Cur.got = 1 .. m /\ t \in 1 .. Len(protos) /\ Cur = protos[t]
        /\ pos \in Nat /\ Len(file) \in Nat /\ DOMAIN Cur = {"got", "k", "sizep", "children"}
        /\ file # Absent
    <3>1. /\ t \in 1 .. Len(protos) /\ Cur = protos[t] /\ DOMAIN protos = 1 .. Len(protos)
          /\ pos \in Nat /\ Len(file) \in Nat /\ DOMAIN Cur = {"got", "k", "sizep", "children"}
          /\ file # Absent
      BY <1>1, <1>2, <2>1, LoadingNow, CurIs DEF LoaderInv
    <3>2. Cur.got \in Seq(Range(Cur.got))
      BY <3>1 DEF LoaderInv, Inv, ProtosOK
    <3>3. m \in 0 .. 11 /\ DOMAIN Cur.got = 1 .. m
      BY <2>1, <3>1, CurIs DEF LoaderInv
    <3>4. m \in Nat
      BY <3>3
    <3> QED
      BY <1>2, <2>1, <3>1, <3>2, <3>3, <3>4
  <2>3. /\ p.got = Append(Cur.got, v) /\ p.k = Cur.k /\ p.sizep = Cur.sizep
        /\ p.children = Cur.children
    BY <2>1, <2>2
  <2>4. /\ Len(p.got) = m + 1 /\ p.got[m + 1] = v
        /\ \A i \in 1 .. m : p.got[i] = Cur.got[i]
    BY <2>1, <2>2, <2>3, Grown
  <2>5. ASSUME pos + 1 - 1 <= Len(file)
        PROVE  PartOf(p, blocks[t]) /\ Place(p, t, pos + 1)
    <3>1. pos <= Len(file) /\ pos - 1 <= Len(file)
      BY <2>2, <2>5
    <3>2. /\ PartOf(Cur, blocks[t]) /\ Place(Cur, t, pos) /\ IsWritten(blocks[t])
          /\ t \in 1 .. Len(blocks) /\ AllWritten
      BY <1>2, <2>1, <2>2, <3>1, LoadingIs DEF LoaderInv
    <3>3. v = FieldItems(blocks[t])[m + 1][2]
      <4>1. file[pos] = FieldItems(blocks[t])[m + 1]
        BY <1>2, <2>1, <2>2, <3>1, AtHand DEF LoaderInv
      <4> QED
        BY <1>3, <3>1, <4>1 DEF Item
    <3>4. PartOf(p, blocks[t])
      <4>1. \A i \in 1 .. m + 1 : i \in 1 .. m \/ i = m + 1
        BY <2>2
      <4>2. Len(p.got) <= 11
        BY <2>2, <2>4
      <4> QED
        BY <2>1, <2>3, <2>4, <3>2, <3>3, <4>1, <4>2 DEF PartOf
    <3>5. /\ Len(Cur.k) = 0 /\ pos = FunctionsTo(t - 1) + 2 + m
          /\ Len(Cur.children) = 0 /\ t = Len(protos)
      BY <1>2, <2>1, <3>2 DEF Place
    <3>6. FunctionsTo(t - 1) \in Nat /\ ConstsTo(blocks[t], 0) = 0
      BY <3>2, ItemsOfFunction, ConstsToAre
    <3>7. Place(p, t, pos + 1)
      <4>1. PICK o : o = FunctionsTo(t - 1)
        OBVIOUS
      <4>2. pos + 1 = o + 2 + (m + 1) /\ (m + 1 = 11 => pos + 1 = o + 13 + 0)
        BY <2>2, <3>5, <3>6, <4>1
      <4> QED
        BY <1>2, <2>3, <2>4, <3>5, <3>6, <4>1, <4>2 DEF Place
    <3> QED
      BY <3>4, <3>7
  <2> QED
    BY <1>1, <1>2, <1>4, <2>1, <2>5, TakeFaithful
<1> QED
  BY <1>3, <1>4, EndFaithful DEF LoaderInv

\* The constant that is loaded is the one that was written.
LEMMA ConstantFaithful ==
  ASSUME LoaderInv, LoadConstant
  PROVE  Faithful'
<1>1. phase = "loading" /\ Wanted = "constant"
  BY DEF LoadConstant, Loading
<1>2. /\ stack # <<>> /\ Cur.sizep = Unset /\ Len(Cur.got) = 11
      /\ Len(Cur.k) < SizeK
  BY <1>1, WhatIsWanted, WantedIs DEF LoaderInv
<1>3. PICK t, m : t = Last(stack) /\ m = Len(Cur.k)
  OBVIOUS
<1>4. /\ t \in 1 .. Len(protos) /\ Cur = protos[t] /\ Cur.k \in Seq(ConstValue) /\ m \in Nat
      /\ pos \in Nat /\ Len(file) \in Nat /\ DOMAIN Cur = {"got", "k", "sizep", "children"}
      /\ file # Absent
  BY <1>1, <1>2, <1>3, LoadingNow, CurIs DEF LoaderInv
<1>5. ASSUME pos <= Len(file)
      PROVE  /\ PartOf(Cur, blocks[t]) /\ Place(Cur, t, pos) /\ IsWritten(blocks[t])
             /\ t \in 1 .. Len(blocks) /\ AllWritten
             /\ m + 1 \in 1 .. Len(blocks[t].k) /\ blocks[t].k[m + 1] \in Constants
             /\ Len(blocks[t].k) \in Nat
             /\ file[pos] = <<"char", TypeByte(blocks[t].k[m + 1])>>
             /\ TypeByte(blocks[t].k[m + 1]) \in 1 .. 3 /\ pos + 1 <= Len(file) =>
                  file[pos + 1] = ConstItems(blocks[t].k[m + 1])[2]
  <2>1. pos - 1 <= Len(file)
    BY <1>4, <1>5
  <2>2. /\ PartOf(Cur, blocks[t]) /\ Place(Cur, t, pos) /\ IsWritten(blocks[t])
        /\ t \in 1 .. Len(blocks) /\ AllWritten
    BY <1>2, <1>3, <1>4, <2>1, LoadingIs DEF LoaderInv
  <2>3. SizeK = Len(blocks[t].k)
    BY <1>2, <1>3, <1>4, <1>5, AtHand DEF LoaderInv
  <2>4. /\ m + 1 \in 1 .. Len(blocks[t].k)
        /\ file[pos] = ConstItems(blocks[t].k[m + 1])[1]
        /\ Len(ConstItems(blocks[t].k[m + 1])) = 2 /\ pos + 1 <= Len(file) =>
             file[pos + 1] = ConstItems(blocks[t].k[m + 1])[2]
    BY <1>2, <1>3, <1>4, <1>5, <2>3, AtHand DEF LoaderInv
  <2>5. blocks[t].k[m + 1] \in Constants /\ Len(blocks[t].k) \in Nat
    BY <2>2, <2>4, ConstSeqsAre
  <2> QED
    BY <2>2, <2>4, <2>5, ConstItemsAre
\* It is enough that the value and the number of its items are those of the block.
<1>6. ASSUME NEW v, NEW n \in 1 .. 2, TakeConst(v, n),
             pos + n - 1 <= Len(file) =>
               /\ v = AsLoaded(blocks[t].k[m + 1])
               /\ n = Len(ConstItems(blocks[t].k[m + 1]))
      PROVE  Faithful'
  <2>1. PICK p : p = [Cur EXCEPT !.k = Append(@, v)]
    OBVIOUS
  <2>2. /\ p.k = Append(Cur.k, v) /\ p.got = Cur.got /\ p.sizep = Cur.sizep
        /\ p.children = Cur.children
    BY <1>4, <2>1
  <2>3. Len(p.k) = m + 1 /\ p.k[m + 1] = v /\ \A x \in 1 .. m : p.k[x] = Cur.k[x]
    <3>1. Cur.k \in Seq(Range(Cur.k))
      BY <1>4, SeqOfRange
    <3> QED
      BY <1>3, <1>4, <2>2, <3>1, Grown
  <2>4. ASSUME pos + n - 1 <= Len(file)
        PROVE  PartOf(p, blocks[t]) /\ Place(p, t, pos + n)
    <3>1. pos <= Len(file)
      BY <1>4, <2>4
    <3>2. /\ PartOf(Cur, blocks[t]) /\ Place(Cur, t, pos) /\ IsWritten(blocks[t])
          /\ t \in 1 .. Len(blocks) /\ AllWritten /\ m + 1 \in 1 .. Len(blocks[t].k)
          /\ Len(blocks[t].k) \in Nat
      BY <1>5, <3>1
    <3>3. PartOf(p, blocks[t])
      <4>1. \A x \in 1 .. m + 1 : x \in 1 .. m \/ x = m + 1
        BY <1>4
      <4>2. m + 1 <= Len(blocks[t].k)
        BY <3>2
      <4> QED
        BY <1>3, <1>6, <2>2, <2>3, <2>4, <3>2, <4>1, <4>2 DEF PartOf
    <3>4. /\ pos = FunctionsTo(t - 1) + 13 + ConstsTo(blocks[t], m)
          /\ Len(Cur.children) = 0 /\ t = Len(protos)
      BY <1>2, <1>3, <3>2 DEF Place
    <3>5. PICK o, c, d : /\ o = FunctionsTo(t - 1) /\ c = ConstsTo(blocks[t], m)
                         /\ d = ConstsTo(blocks[t], m + 1)
      OBVIOUS
    <3>6. o \in Nat /\ c \in Nat /\ d = c + n
      <4>1. PICK y : y = m + 1
        OBVIOUS
      <4>2. /\ ConstsTo(blocks[t], y - 1) \in Nat
            /\ ConstsTo(blocks[t], y) =
                 ConstsTo(blocks[t], y - 1) + Len(ConstItems(blocks[t].k[y]))
        <5>1. \A x \in 1 .. Len(blocks[t].k) :
                /\ ConstsTo(blocks[t], x - 1) \in Nat
                /\ ConstsTo(blocks[t], x) =
                     ConstsTo(blocks[t], x - 1) + Len(ConstItems(blocks[t].k[x]))
          BY <3>2, ItemsOfFunction
        <5> QED
          BY <3>2, <4>1, <5>1
      <4>3. n = Len(ConstItems(blocks[t].k[m + 1])) /\ o \in Nat
        BY <1>6, <2>4, <3>2, <3>5, ItemsOfFunction
      <4>4. y - 1 = m
        BY <1>4, <4>1
      <4> QED
        BY <3>5, <4>1, <4>2, <4>3, <4>4
    <3>7. pos + n = o + 13 + d
      BY <3>4, <3>5, <3>6
    <3>8. Place(p, t, pos + n)
      <4>1. /\ Len(p.got) = 11 /\ p.sizep = Unset /\ Len(p.children) = 0
            /\ t = Len(protos) /\ ConstsTo(blocks[t], Len(p.k)) = d
        BY <1>2, <2>2, <2>3, <3>4, <3>5
      <4>2. ~(Len(p.got) < 11)
        BY <4>1
      <4> QED
        BY <3>5, <3>7, <4>1, <4>2 DEF Place
    <3> QED
      BY <3>3, <3>8
  <2> QED
    BY <1>1, <1>2, <1>3, <1>6, <2>1, <2>4, TakeFaithful DEF TakeConst
<1>7. PICK type \in Item(pos, "char") :
        CASE type \in {0, 4} -> TakeConst(Null, 1)
          [] type = 1 -> \E n \in Item(pos + 1, "number") : TakeConst(Number(n), 2)
          [] type = 2 -> \E c \in Item(pos + 1, "char") : TakeConst(Boolean(c # 0), 2)
          [] type = 3 -> \E s \in Item(pos + 1, "string") :
                           IF s = BadEscape THEN End("crashed") ELSE TakeConst(String(s), 2)
          [] OTHER -> End("refused")
  BY DEF LoadConstant
<1>8. PICK w : w = blocks[t].k[m + 1]
  OBVIOUS
<1>9. ASSUME pos <= Len(file)
      PROVE  w \in Constants /\ type = TypeByte(w)
  BY <1>5, <1>7, <1>8, <1>9 DEF Item
<1>10. ASSUME pos + 2 - 1 <= Len(file), type \in 1 .. 3
       PROVE  /\ w \in Constants /\ type = TypeByte(w) /\ Len(ConstItems(w)) = 2
              /\ \A kind : Item(pos + 1, kind) = {ConstItems(w)[2][2]}
  <2>1. pos <= Len(file) /\ pos + 1 <= Len(file)
    BY <1>4, <1>10
  <2>2. w \in Constants /\ type = TypeByte(w)
    BY <1>9, <2>1
  <2>3. file[pos + 1] = ConstItems(w)[2]
    BY <1>5, <1>8, <1>10, <2>1, <2>2
  <2> QED
    BY <1>10, <2>1, <2>2, <2>3, ConstItemsAre DEF Item
<1>11. CASE type \in {0, 4}
  <2>1. TakeConst(Null, 1)
    BY <1>7, <1>11
  <2>2. ASSUME pos + 1 - 1 <= Len(file)
        PROVE  Null = AsLoaded(w) /\ 1 = Len(ConstItems(w))
    <3>1. pos <= Len(file)
      BY <1>4, <2>2
    <3>2. w \in Constants /\ type = TypeByte(w) /\ type \notin 1 .. 3
      BY <1>9, <1>11, <3>1
    <3>3. 1 = Len(ConstItems(w)) /\ (w = Null \/ Tag(w) = "function")
      BY <1>11, <3>2, ConstItemsAre
    <3>4. Null = AsLoaded(w)
      BY <3>3 DEF AsLoaded, Decoded, Tag, Null
    <3> QED
      BY <3>3, <3>4
  <2> QED
    BY <1>6, <1>8, <2>1, <2>2
<1>12. CASE type = 1
  <2>1. PICK n \in Item(pos + 1, "number") : TakeConst(Number(n), 2)
    BY <1>7, <1>12
  <2>2. ASSUME pos + 2 - 1 <= Len(file)
        PROVE  Number(n) = AsLoaded(w) /\ 2 = Len(ConstItems(w))
    <3>1. w \in {"number"} \X Nums /\ n = w[2] /\ Len(ConstItems(w)) = 2
      BY <1>10, <1>12, <2>1, <2>2, ConstItemsAre DEF Payload
    <3> QED
      BY <3>1 DEF AsLoaded, Decoded, Tag, Number
  <2> QED
    BY <1>6, <1>8, <2>1, <2>2
<1>13. CASE type = 2
  <2>1. PICK c \in Item(pos + 1, "char") : TakeConst(Boolean(c # 0), 2)
    BY <1>7, <1>13
  <2>2. ASSUME pos + 2 - 1 <= Len(file)
        PROVE  Boolean(c # 0) = AsLoaded(w) /\ 2 = Len(ConstItems(w))
    <3>1. /\ w \in {"boolean"} \X BOOLEAN /\ c = IF w[2] THEN 1 ELSE 0
          /\ Len(ConstItems(w)) = 2
      BY <1>10, <1>13, <2>1, <2>2, ConstItemsAre DEF Payload
    <3>2. (c # 0) = w[2]
      BY <3>1
    <3> QED
      BY <3>1, <3>2 DEF AsLoaded, Decoded, Tag, Boolean
  <2> QED
    BY <1>6, <1>8, <2>1, <2>2
<1>14. CASE type = 3
  <2>1. PICK s \in Item(pos + 1, "string") :
          IF s = BadEscape THEN End("crashed") ELSE TakeConst(String(s), 2)
    BY <1>7, <1>14
  <2>2. ASSUME pos + 2 - 1 <= Len(file)
        PROVE  String(s) = AsLoaded(w) /\ 2 = Len(ConstItems(w))
    <3>1. /\ w \in {"string"} \X Strings /\ s = Unescape[w[2]] /\ Len(ConstItems(w)) = 2
      BY <1>10, <1>14, <2>1, <2>2, ConstItemsAre DEF Payload
    <3> QED
      BY <3>1 DEF AsLoaded, Decoded, Tag, Payload, String
  <2>3. CASE s = BadEscape
    BY <2>1, <2>3, EndFaithful DEF LoaderInv
  <2>4. CASE s # BadEscape
    BY <1>6, <1>8, <2>1, <2>2, <2>4
  <2> QED
    BY <2>3, <2>4
<1>15. CASE type \notin {0, 4} /\ type # 1 /\ type # 2 /\ type # 3
  <2>1. End("refused")
    BY <1>7, <1>15
  <2> QED
    BY <2>1, EndFaithful DEF LoaderInv
<1> QED
  BY <1>11, <1>12, <1>13, <1>14, <1>15

\* With the number of its children all of a function is read but them.
LEMMA ChildrenFaithful ==
  ASSUME LoaderInv, LoadNumChildren
  PROVE  Faithful'
<1>1. phase = "loading" /\ Wanted = "children"
  BY DEF LoadNumChildren, Loading
<1>2. /\ stack # <<>> /\ Cur.sizep = Unset /\ Len(Cur.got) = 11 /\ Len(Cur.k) = SizeK
  <2>1. stack # <<>> /\ Len(Cur.got) = Len(Fields)
    BY <1>1, WhatIsWanted DEF LoaderInv
  <2>2. Len(Fields) = 11
    BY DEF Fields
  <2> QED
    BY <1>1, <2>1, <2>2, WantedIs DEF LoaderInv
<1>3. PICK n \in Item(pos, "int") :
        IF n < 0 THEN End("refused") ELSE Take([Cur EXCEPT !.sizep = n], 1)
  BY DEF LoadNumChildren
<1>4. CASE Take([Cur EXCEPT !.sizep = n], 1)
  <2>1. PICK p, t : p = [Cur EXCEPT !.sizep = n] /\ t = Last(stack)
    OBVIOUS
  <2>2. /\ t \in 1 .. Len(protos) /\ Cur = protos[t] /\ pos \in Nat /\ Len(file) \in Nat
        /\ DOMAIN Cur = {"got", "k", "sizep", "children"} /\ file # Absent
    BY <1>1, <1>2, <2>1, LoadingNow
  <2>3. p.got = Cur.got /\ p.k = Cur.k /\ p.sizep = n /\ p.children = Cur.children
    BY <2>1, <2>2
  <2>4. ASSUME pos + 1 - 1 <= Len(file)
        PROVE  PartOf(p, blocks[t]) /\ Place(p, t, pos + 1)
    <3>1. pos <= Len(file) /\ pos - 1 <= Len(file)
      BY <2>2, <2>4
    <3>2. /\ PartOf(Cur, blocks[t]) /\ Place(Cur, t, pos) /\ IsWritten(blocks[t])
          /\ t \in 1 .. Len(blocks) /\ AllWritten
      BY <1>2, <2>1, <2>2, <3>1, LoadingIs DEF LoaderInv
    <3>3. Len(Cur.k) = Len(blocks[t].k) /\ file[pos] = <<"int", Len(blocks[t].children)>>
      BY <1>2, <2>1, <2>2, <3>1, AtHand DEF LoaderInv
    <3>4. n = Len(blocks[t].children)
      BY <1>3, <3>1, <3>3 DEF Item
    <3>5. PartOf(p, blocks[t])
      BY <2>3, <3>2, <3>4 DEF PartOf
    <3>6. /\ pos = FunctionsTo(t - 1) + 13 + ConstsTo(blocks[t], Len(blocks[t].k))
          /\ Len(Cur.children) = 0 /\ t = Len(protos)
      BY <1>2, <3>2, <3>3 DEF Place
    <3>7. PICK o, c, e : /\ o = FunctionsTo(t - 1) /\ e = FunctionsTo(t)
                         /\ c = ConstsTo(blocks[t], Len(blocks[t].k))
      OBVIOUS
    <3>8. o \in Nat /\ c \in Nat /\ e = o + 12 + c
      BY <3>2, <3>7, ItemsOfFunction
    <3>9. pos + 1 = e + 2
      <4>1. pos = o + 13 + c
        BY <3>6, <3>7
      <4> QED
        BY <3>8, <4>1
    <3>10. n # Unset
      <4>1. n \in Nat
        BY <3>2, <3>4, LenProperties DEF IsWritten
      <4> QED
        BY <4>1 DEF Unset
    <3>11. Place(p, t, pos + 1)
      <4>1. /\ Len(p.got) = 11 /\ ~(Len(p.got) < 11) /\ p.sizep # Unset
            /\ ReadUp(p, blocks[t])
        <5>1. Len(p.got) = 11 /\ Len(p.k) = Len(blocks[t].k)
              /\ p.sizep = Len(blocks[t].children) /\ p.sizep # Unset
          BY <1>2, <2>3, <3>3, <3>4, <3>10
        <5> QED
          BY <5>1 DEF ReadUp
      <4>2. pos + 1 = FunctionsTo(Len(protos)) + 2
        BY <3>6, <3>7, <3>9
      <4>3. Len(protos) = Reach(t, Len(p.children))
        BY <2>3, <3>6 DEF Reach
      <4> QED
        BY <4>1, <4>2, <4>3 DEF Place
    <3> QED
      BY <3>5, <3>11
  <2> QED
    BY <1>1, <1>2, <1>4, <2>1, <2>4, TakeFaithful
<1> QED
  BY <1>3, <1>4, EndFaithful DEF LoaderInv

\* The next function of the file is the next child of the one on top.
LEMMA ChildFaithful ==
  ASSUME LoaderInv, LoadChild
  PROVE  Faithful'
<1>1. /\ phase = "loading" /\ Wanted = "nothing" /\ Len(Cur.children) < Cur.sizep
      /\ protos' = Append([protos EXCEPT ![Last(stack)].children = Append(@, Len(protos) + 1)],
                          NewProto)
      /\ stack' = Append(stack, Len(protos) + 1) /\ pos' = pos
      /\ src' = src /\ blocks' = blocks /\ file' = file
  BY DEF LoadChild, Loading, given, compiling
<1>2. stack # <<>>
  BY <1>1, WhatIsWanted DEF LoaderInv
<1>3. PICK t, m, q, N, c :
        /\ t = Last(stack) /\ m = Len(stack) /\ q = pos /\ N = Len(protos)
        /\ c = Len(Cur.children)
  OBVIOUS
<1>4. /\ t \in 1 .. N /\ m \in 1 .. m /\ m \in Nat /\ t = stack[m] /\ c \in Nat
      /\ q \in Nat /\ Len(file) \in Nat /\ N \in Nat /\ file # Absent
      /\ Cur = protos[t] /\ protos # <<>>
      /\ DOMAIN Cur = {"got", "k", "sizep", "children"} /\ Cur.children \in Seq(2 .. N)
      /\ \A i \in 1 .. m : stack[i] \in 1 .. N
      /\ protos \in Seq(Range(protos)) /\ DOMAIN protos = 1 .. N
  <2>1. protos \in Seq(Range(protos))
    BY DEF LoaderInv, Inv, ProtosOK
  <2> QED
    BY <1>1, <1>2, <1>3, <2>1, LoadingNow, CurIs DEF LoaderInv
<1> SUFFICES ASSUME q - 1 <= Len(file)
             PROVE  Matches'
  BY <1>1, <1>3 DEF Faithful
<1>5. /\ Matches /\ PartOf(Cur, blocks[t]) /\ Place(Cur, t, q) /\ IsWritten(blocks[t])
      /\ t \in 1 .. Len(blocks) /\ Len(blocks) \in Nat
  BY <1>2, <1>3, <1>4, LoadingIs DEF LoaderInv
<1>6. Cur.sizep # Unset /\ ReadUp(Cur, blocks[t])
  <2>1. Cur.sizep # Unset
    BY <1>1, <1>3, <1>4 DEF Unset
  <2> QED
    BY <1>5, <2>1 DEF Place
<1>7. /\ c + 1 \in 1 .. Len(blocks[t].children)
      /\ q = FunctionsTo(N) + 2 /\ N = Reach(t, c)
  <2>1. Len(blocks[t].children) \in Nat /\ c < Len(blocks[t].children)
    BY <1>1, <1>3, <1>5, <1>6, LenProperties DEF IsWritten, ReadUp
  <2>2. q = FunctionsTo(Len(protos)) + 2 /\ Len(protos) = Reach(t, Len(Cur.children))
    BY <1>5, <1>6 DEF Place
  <2>3. c + 1 \in 1 .. Len(blocks[t].children)
    BY <1>4, <2>1
  <2> QED
    BY <1>3, <2>2, <2>3
<1>8. N + 1 = blocks[t].children[c + 1] /\ N + 1 \in t + 1 .. Len(blocks)
  <2>1. PICK y : y = c + 1
    OBVIOUS
  <2>2. /\ blocks[t].children[y] = Reach(t, y - 1) + 1
        /\ blocks[t].children[y] \in t + 1 .. Len(blocks)
    BY <1>5, <1>7, <2>1 DEF LoaderInv, CompilerInv, Chained
  <2>3. y - 1 = c
    BY <1>4, <2>1
  <2> QED
    BY <1>7, <2>1, <2>2, <2>3
\* What the step makes of the protos.
<1>9. PICK p : p = [Cur EXCEPT !.children = Append(@, N + 1)]
  OBVIOUS
<1>10. /\ p.got = Cur.got /\ p.k = Cur.k /\ p.sizep = Cur.sizep
       /\ Len(p.children) = c + 1 /\ p.children[c + 1] = N + 1
       /\ \A i \in 1 .. c : p.children[i] = Cur.children[i]
       /\ Last(p.children) = N + 1
  <2>1. /\ p.got = Cur.got /\ p.k = Cur.k /\ p.sizep = Cur.sizep
        /\ p.children = Append(Cur.children, N + 1)
    BY <1>4, <1>9
  <2>2. Cur.children \in Seq(Range(Cur.children))
    BY <1>4, SeqOfRange
  <2>3. /\ Len(p.children) = c + 1 /\ p.children[c + 1] = N + 1
        /\ \A i \in 1 .. c : p.children[i] = Cur.children[i]
    BY <1>3, <2>1, <2>2, Grown
  <2> QED
    BY <2>1, <2>3 DEF Last
<1>11. /\ Len(protos') = N + 1 /\ protos'[t] = p /\ protos'[N + 1] = NewProto
       /\ \A j \in 1 .. N : j # t => protos'[j] = protos[j]
  <2>1. PICK r : r = [protos EXCEPT ![t] = p]
    OBVIOUS
  <2>2. protos' = Append(r, NewProto)
    BY <1>1, <1>3, <1>4, <1>9, <2>1
  <2>3. /\ r \in Seq(Range(r)) /\ DOMAIN r = 1 .. N /\ Len(r) = N /\ r[t] = p
        /\ \A j \in 1 .. N : j # t => r[j] = protos[j]
    BY <1>3, <1>4, <2>1, Replaced
  <2>4. /\ Len(protos') = N + 1 /\ protos'[N + 1] = NewProto
        /\ \A j \in 1 .. N : protos'[j] = r[j]
    BY <2>2, <2>3, Grown
  <2> QED
    BY <1>4, <2>3, <2>4
<1>12. /\ Len(stack') = m + 1 /\ stack'[m + 1] = N + 1 /\ Last(stack') = N + 1
       /\ \A i \in 1 .. m : stack'[i] = stack[i]
       /\ \A i \in 1 .. m + 1 : i \in 1 .. m \/ i = m + 1
  <2>1. stack \in Seq(Range(stack))
    BY SeqOfRange DEF LoaderInv, Inv, ProtosOK
  <2>2. /\ Len(stack') = m + 1 /\ stack'[m + 1] = N + 1
        /\ \A i \in 1 .. m : stack'[i] = stack[i]
    BY <1>1, <1>3, <2>1, Grown
  <2> QED
    BY <1>4, <2>2 DEF Last
<1>13. /\ NewProto.got = <<>> /\ NewProto.k = <<>> /\ NewProto.children = <<>>
       /\ NewProto.sizep = Unset /\ Len(<<>>) = 0
  BY DEF NewProto
<1>14. ASSUME NEW j \in 1 .. N + 1
       PROVE  /\ PartOf(protos'[j], blocks[j])
              /\ (\A i \in 1 .. m + 1 : stack'[i] # j) => Whole(protos'[j], blocks[j])
  <2>1. CASE j = t
    <3>1. PartOf(p, blocks[t])
      <4>1. \A i \in 1 .. c + 1 : i \in 1 .. c \/ i = c + 1
        BY <1>4
      <4>2. c + 1 <= Len(blocks[t].children)
        BY <1>7
      <4> QED
        BY <1>3, <1>5, <1>8, <1>10, <4>1, <4>2 DEF PartOf
    <3>2. m \in 1 .. m + 1 /\ stack'[m] = t
      BY <1>4, <1>12
    <3> QED
      BY <1>11, <2>1, <3>1, <3>2
  <2>2. CASE j = N + 1
    <3>1. PartOf(NewProto, blocks[j])
      <4>1. \A n \in Nat : 0 <= n
        OBVIOUS
      <4>2. IsWritten(blocks[j])
        BY <1>8, <2>2, AllAreWritten DEF AllWritten, LoaderInv
      <4>3. Len(blocks[j].k) \in Nat /\ Len(blocks[j].children) \in Nat
        BY <4>2, LenProperties DEF IsWritten
      <4> QED
        BY <1>13, <4>1, <4>3 DEF PartOf
    <3>2. m + 1 \in 1 .. m + 1
      BY <1>4
    <3> QED
      BY <1>11, <1>12, <2>2, <3>1, <3>2
  <2>3. CASE j \in 1 .. N /\ j # t
    <3>1. (\A i \in 1 .. m + 1 : stack'[i] # j) => \A i \in 1 .. m : stack[i] # j
      <4>1. \A i \in 1 .. m : i \in 1 .. m + 1
        BY <1>4
      <4> QED
        BY <1>12, <4>1
    <3> QED
      BY <1>3, <1>5, <1>11, <2>3, <3>1 DEF Matches
  <2>4. j \in 1 .. N \/ j = N + 1
    BY <1>4
  <2> QED
    BY <2>1, <2>2, <2>3, <2>4
<1>15. Inside'
  <2>1. /\ stack[1] = 1 /\ \A i, j \in 1 .. m : i < j => stack[i] < stack[j]
        /\ \A i \in 1 .. m - 1 : \A j \in {stack[i]} :
             /\ ReadUp(protos[j], blocks[j]) /\ Len(protos[j].children) # 0
             /\ Last(protos[j].children) = stack[i + 1]
    BY <1>2, <1>3, <1>5 DEF Matches, Inside
  <2>2. stack'[1] = 1
    <3>1. 1 \in 1 .. m
      BY <1>4
    <3> QED
      BY <1>12, <2>1, <3>1
  <2>3. ASSUME NEW i \in 1 .. m + 1, NEW j \in 1 .. m + 1, i < j
        PROVE  stack'[i] < stack'[j]
    <3>1. CASE j \in 1 .. m
      <4>1. i \in 1 .. m
        BY <1>4, <2>3, <3>1
      <4> QED
        BY <1>12, <2>1, <2>3, <3>1, <4>1
    <3>2. CASE j = m + 1
      <4>1. i \in 1 .. m
        BY <1>4, <2>3, <3>2
      <4>2. stack[i] < N + 1
        BY <1>4, <4>1
      <4> QED
        BY <1>12, <3>2, <4>1, <4>2
    <3> QED
      BY <1>12, <3>1, <3>2
  <2>4. ASSUME NEW i \in 1 .. m, NEW j \in {stack'[i]}
        PROVE  /\ ReadUp(protos'[j], blocks[j]) /\ Len(protos'[j].children) # 0
               /\ Last(protos'[j].children) = stack'[i + 1]
    <3>1. CASE i = m
      <4>1. j = t
        BY <1>4, <1>12, <3>1
      <4>2. ReadUp(p, blocks[t]) /\ c + 1 # 0
        BY <1>4, <1>6, <1>10 DEF ReadUp
      <4> QED
        BY <1>10, <1>11, <1>12, <3>1, <4>1, <4>2
    <3>2. CASE i # m
      <4>1. i \in 1 .. m - 1 /\ i + 1 \in 1 .. m /\ i < m /\ j = stack[i]
        BY <1>4, <1>12, <3>2
      <4>2. j # t /\ j \in 1 .. N
        BY <1>4, <2>1, <4>1
      <4> QED
        BY <1>11, <1>12, <2>1, <4>1, <4>2
    <3> QED
      BY <3>1, <3>2
  <2>5. 1 .. Len(stack') - 1 = 1 .. m
    BY <1>4, <1>12
  <2> QED
    BY <1>1, <1>12, <2>2, <2>3, <2>4, <2>5 DEF Inside
<1>16. Place(Cur, Last(stack), pos)'
  <2>1. Cur' = NewProto /\ Last(stack') = N + 1 /\ pos' = q
    BY <1>1, <1>3, <1>11, <1>12 DEF Cur
  <2>2. \A n : FunctionsTo(n)' = FunctionsTo(n)
    BY <1>1, SameFile
  <2>3. N + 1 - 1 = N /\ FunctionsTo(N) + 2 + 0 = FunctionsTo(N) + 2
    <3>1. FunctionsTo(N) \in Nat
      <4>1. N \in 0 .. Len(blocks)
        BY <1>4, <1>5, <1>8
      <4> QED
        BY <4>1, AllAreWritten, BytecodeIs DEF LoaderInv
    <3> QED
      BY <1>4, <3>1
  <2>4. PICK p0 : p0 = NewProto
    OBVIOUS
  <2>5. /\ Len(p0.got) = 0 /\ Len(p0.k) = 0 /\ p0.sizep = Unset /\ Len(p0.children) = 0
    BY <1>13, <2>4
  <2>6. PICK j : j = N + 1
    OBVIOUS
  <2>7. q = FunctionsTo(j - 1)' + 2 + Len(p0.got) /\ Len(p0.got) # 11 /\ j = Len(protos')
    <3>1. j - 1 = N
      BY <1>4, <2>6
    <3>2. PICK o : o = FunctionsTo(N)
      OBVIOUS
    <3>3. o = FunctionsTo(j - 1)' /\ q = o + 2 /\ o + 2 + 0 = o + 2
      BY <1>7, <2>2, <2>3, <3>1, <3>2
    <3> QED
      BY <1>11, <2>5, <2>6, <3>3
  <2>8. Place(p0, j, q)'
    BY <2>5, <2>7 DEF Place
  <2> QED
    BY <2>1, <2>4, <2>6, <2>8
<1>17. stack' # <<>>
  BY <1>4, <1>12
<1>18. N + 1 <= Len(blocks)
  BY <1>5, <1>8
<1> QED
  BY <1>1, <1>11, <1>12, <1>14, <1>15, <1>16, <1>17, <1>18 DEF Matches

\* A function that is loaded has all its children, and all that begin inside them.
LEMMA ReturnFaithful ==
  ASSUME LoaderInv, LoadReturn
  PROVE  Faithful'
<1>1. /\ phase = "loading" /\ Wanted = "nothing" /\ Len(Cur.children) = Cur.sizep
      /\ stack' = Front(stack) /\ protos' = protos /\ pos' = pos
      /\ src' = src /\ blocks' = blocks /\ file' = file
  BY DEF LoadReturn, Loading, given, compiling
<1>2. stack # <<>>
  BY <1>1, WhatIsWanted DEF LoaderInv
<1>3. PICK t, m, q, N, c :
        /\ t = Last(stack) /\ m = Len(stack) /\ q = pos /\ N = Len(protos)
        /\ c = Len(Cur.children)
  OBVIOUS
<1>4. /\ t \in 1 .. N /\ m \in 1 .. m /\ m \in Nat /\ t = stack[m] /\ c \in Nat
      /\ q \in Nat /\ Len(file) \in Nat /\ N \in Nat /\ file # Absent
      /\ Cur = protos[t] /\ protos # <<>> /\ \A i \in 1 .. m : stack[i] \in 1 .. N
  BY <1>1, <1>2, <1>3, LoadingNow, CurIs DEF LoaderInv
<1> SUFFICES ASSUME q - 1 <= Len(file)
             PROVE  Matches'
  BY <1>1, <1>3 DEF Faithful
<1>5. /\ Matches /\ PartOf(Cur, blocks[t]) /\ Place(Cur, t, q) /\ IsWritten(blocks[t])
      /\ t \in 1 .. Len(blocks) /\ Len(blocks) \in Nat /\ Complete /\ N <= Len(blocks)
  BY <1>2, <1>3, <1>4, LoadingIs DEF LoaderInv, Matches
<1>6. Cur.sizep # Unset /\ ReadUp(Cur, blocks[t])
  <2>1. Cur.sizep # Unset
    BY <1>1, <1>3, <1>4 DEF Unset
  <2> QED
    BY <1>5, <2>1 DEF Place
<1>7. /\ c = Len(blocks[t].children) /\ Whole(Cur, blocks[t])
      /\ q = FunctionsTo(N) + 2 /\ N = Reach(t, c)
  BY <1>1, <1>3, <1>5, <1>6 DEF Place, ReadUp, Whole
<1>8. N = LastIn[t]
  BY <1>5, <1>7 DEF Complete, Compiled
<1>9. /\ stack[1] = 1 /\ \A i, j \in 1 .. m : i < j => stack[i] < stack[j]
      /\ \A i \in 1 .. m - 1 : \A j \in {stack[i]} :
           /\ ReadUp(protos[j], blocks[j]) /\ Len(protos[j].children) # 0
           /\ Last(protos[j].children) = stack[i + 1]
  BY <1>2, <1>3, <1>5 DEF Matches, Inside
<1>10. Len(stack') = m - 1 /\ \A i \in 1 .. m - 1 : stack'[i] = stack[i]
  <2>1. stack \in Seq(Range(stack)) /\ stack' = SubSeq(stack, 1, m - 1)
    BY <1>1, <1>3, SeqOfRange DEF LoaderInv, Inv, ProtosOK, Front
  <2>2. \A i \in 1 .. m - 1 : stack[i] \in Range(stack)
    <3>1. \A i \in 1 .. m - 1 : i \in 1 .. Len(stack)
      BY <1>3, <1>4
    <3> QED
      BY <2>1, <3>1, ElementOfSeq
  <2>3. /\ m - 1 \in Int /\ 1 \in Int /\ (IF 1 <= m - 1 THEN m - 1 - 1 + 1 ELSE 0) = m - 1
        /\ m - 1 - 1 + 1 = m - 1 /\ \A x \in 1 .. m - 1 : 1 + x - 1 = x
    BY <1>4
  <2> QED
    BY <2>1, <2>2, <2>3, SubSeqProperties
<1>11. ASSUME NEW j \in 1 .. N
       PROVE  /\ PartOf(protos[j], blocks[j])
              /\ (\A i \in 1 .. m - 1 : stack[i] # j) => Whole(protos[j], blocks[j])
  <2>1. CASE j = t
    BY <1>4, <1>5, <1>7, <2>1
  <2>2. CASE j # t
    <3>1. (\A i \in 1 .. m - 1 : stack[i] # j) => \A i \in 1 .. m : stack[i] # j
      <4>1. \A i \in 1 .. m : i \in 1 .. m - 1 \/ i = m
        BY <1>4
      <4> QED
        BY <1>4, <2>2, <4>1
    <3> QED
      BY <1>3, <1>5, <3>1 DEF Matches
  <2> QED
    BY <2>1, <2>2
<1>12. /\ \A n : FunctionsTo(n)' = FunctionsTo(n)
       /\ Bytecode' = Bytecode
  BY <1>1, SameFile
<1>13. CASE m = 1
  <2>1. t = 1 /\ N = Len(blocks)
    <3>1. LastIn[1] = Len(src)
      BY NumbersAre DEF LoaderInv, CompilerInv, GivenOK
    <3> QED
      BY <1>4, <1>5, <1>8, <1>9, <1>13, <3>1 DEF Complete
  <2>2. q = Len(Bytecode) + 1
    <3>1. /\ Len(Bytecode) = 1 + FunctionsTo(Len(blocks))
          /\ FunctionsTo(Len(blocks)) \in Nat
      <4>1. Len(blocks) \in 0 .. Len(blocks)
        BY <1>5
      <4> QED
        BY <4>1, AllAreWritten, BytecodeIs DEF LoaderInv
    <3>2. PICK n : n = FunctionsTo(Len(blocks))
      OBVIOUS
    <3>3. n \in Nat /\ q = n + 2 /\ Len(Bytecode) = 1 + n
      BY <1>7, <2>1, <3>1, <3>2
    <3> QED
      BY <3>3
  <2>3. stack' = <<>>
    <3>1. Len(stack') = 0
      BY <1>10, <1>13
    <3>2. stack' \in Seq(Range(stack))
      <4>1. stack \in Seq(Range(stack))
        BY SeqOfRange DEF LoaderInv, Inv, ProtosOK
      <4> QED
        BY <1>1, <1>2, <4>1, LastOf
    <3> QED
      BY <3>1, <3>2, EmptySeq
  <2>4. 1 .. m - 1 = {}
    BY <1>13
  <2> QED
    BY <1>1, <1>3, <1>5, <1>10, <1>11, <1>12, <2>1, <2>2, <2>3, <2>4 DEF Matches
<1>14. CASE m # 1
  <2>1. PICK u : u = stack[m - 1]
    OBVIOUS
  <2>2. /\ u \in 1 .. N /\ ReadUp(protos[u], blocks[u]) /\ Len(protos[u].children) # 0
        /\ Last(protos[u].children) = t
    <3>1. m - 1 \in 1 .. m - 1 /\ m - 1 \in 1 .. m /\ m - 1 + 1 = m
      BY <1>4, <1>14
    <3> QED
      BY <1>4, <1>9, <2>1, <3>1
  <2>3. PICK d : d = Len(protos[u].children)
    OBVIOUS
  <2>4. N = Reach(u, d)
    <3>1. d \in Nat /\ protos[u].children[d] = t
      BY <1>3, <2>2, <2>3, CurIs DEF Last, LoaderInv
    <3>2. d \in 1 .. d
      BY <2>2, <2>3, <3>1
    <3>3. PartOf(protos[u], blocks[u])
      BY <1>11, <2>2
    <3>4. blocks[u].children[d] = t
      BY <2>3, <3>1, <3>2, <3>3 DEF PartOf
    <3> QED
      BY <1>8, <2>2, <2>3, <3>4 DEF Reach
  <2>5. /\ stack' # <<>> /\ Last(stack') = u
    <3>1. m - 1 \in 1 .. m - 1 /\ m - 1 # 0
      BY <1>4, <1>14
    <3>2. stack'[m - 1] = u /\ Len(stack') # 0
      BY <1>10, <2>1, <3>1
    <3> QED
      BY <1>10, <3>2, EmptySeq DEF Last
  <2>6. Inside'
    <3>1. stack'[1] = 1
      <4>1. 1 \in 1 .. m - 1
        BY <1>4, <1>14
      <4> QED
        BY <1>9, <1>10, <4>1
    <3>2. \A i, j \in 1 .. m - 1 : i < j => stack'[i] < stack'[j]
      <4>1. \A i \in 1 .. m - 1 : i \in 1 .. m
        BY <1>4
      <4> QED
        BY <1>9, <1>10, <4>1
    <3>3. ASSUME NEW i \in 1 .. (m - 1) - 1, NEW j \in {stack'[i]}
          PROVE  /\ ReadUp(protos[j], blocks[j]) /\ Len(protos[j].children) # 0
                 /\ Last(protos[j].children) = stack'[i + 1]
      <4>1. i \in 1 .. m - 1 /\ i + 1 \in 1 .. m - 1
        BY <1>4
      <4> QED
        BY <1>9, <1>10, <3>3, <4>1
    <3> QED
      BY <1>1, <1>10, <3>1, <3>2, <3>3 DEF Inside
  <2>7. Place(Cur, Last(stack), pos)'
    <3>1. PICK p : p = protos[u]
      OBVIOUS
    <3>2. p.sizep # Unset /\ Len(p.got) = 11 /\ ~(Len(p.got) < 11)
      <4>1. Len(blocks[u].children) \in Nat
        BY <1>4, <1>5, <2>2, AllAreWritten, LenProperties DEF LoaderInv, AllWritten, IsWritten
      <4> QED
        <5>1. Len(p.got) = 11 /\ p.sizep = Len(blocks[u].children)
          BY <2>2, <3>1 DEF ReadUp
        <5>2. \A n \in Nat : n # Unset
          BY DEF Unset
        <5> QED
          BY <4>1, <5>1, <5>2
    <3>3. Place(p, u, q)
      BY <1>3, <1>7, <2>2, <2>3, <2>4, <3>1, <3>2 DEF Place
    <3>4. Place(p, u, q)'
      BY <1>1, <3>3, SamePlace
    <3>5. Cur' = p
      BY <1>1, <2>5, <3>1 DEF Cur
    <3> QED
      BY <1>1, <1>3, <2>5, <3>4, <3>5
  <2> QED
    BY <1>1, <1>3, <1>5, <1>10, <1>11, <2>5, <2>6, <2>7, ZenonT(30) DEF Matches
<1> QED
  BY <1>13, <1>14

\* The main function begins.
LEMMA HeaderFaithful ==
  ASSUME LoaderInv, LoadHeader
  PROVE  Faithful'
<1>1. phase = "loading" /\ Wanted = "header"
  BY DEF LoadHeader, Loading
<1>2. stack = <<>>
  <2>1. CASE stack # <<>>
    <3>1. Len(Cur.got) < 11 => Wanted \in {"string", "int", "char", "words"}
      <4>1. \A n \in 0 .. 11 : n < 11 => Fields[n + 1] \in {"string", "int", "char", "words"}
        <5>1. \A n \in 1 .. 11 : Fields[n] \in {"string", "int", "char", "words"}
          BY DEF Fields
        <5>2. \A n \in 0 .. 11 : n < 11 => n + 1 \in 1 .. 11
          OBVIOUS
        <5> QED
          BY <5>1, <5>2
      <4> QED
        BY <2>1, <4>1, WantedIs, CurIs DEF LoaderInv
    <3>2. Len(Cur.got) = 11 => Wanted \in {"constant", "children", "nothing"}
      BY <2>1, WantedIs DEF LoaderInv
    <3> QED
      BY <1>1, <2>1, <3>1, <3>2, WantedIs DEF LoaderInv
  <2> QED
    BY <2>1
<1>3. pos = 1 /\ file # Absent
  BY <1>1, <1>2 DEF LoaderInv, Outside, CompilerInv, PhaseOK
<1>4. CASE End("refused")
  BY <1>4, EndFaithful DEF LoaderInv
<1>5. CASE /\ pos <= Len(file)
           /\ stack' = <<1>> /\ protos' = <<NewProto>> /\ pos' = pos + 1
           /\ UNCHANGED <<given, phase, compiling, file, loaded>>
  <2>1. src' = src /\ blocks' = blocks /\ file' = file /\ pos' = 2
    BY <1>3, <1>5 DEF given, compiling
  <2>2. Complete /\ Len(blocks) \in Nat /\ 1 \in 1 .. Len(blocks)
    <3>1. Len(file) # 0
      BY <1>3, <1>5
    <3>2. Complete
      BY <1>3, <3>1, FileIs DEF LoaderInv
    <3>3. Len(src) \in Nat \ {0}
      BY SourceIs DEF LoaderInv, CompilerInv, GivenOK
    <3> QED
      BY <3>2, <3>3 DEF Complete
  <2>3. /\ Len(protos') = 1 /\ protos'[1] = NewProto
        /\ Len(stack') = 1 /\ stack'[1] = 1 /\ Last(stack') = 1 /\ stack' # <<>>
    BY <1>5 DEF Last
  <2>4. /\ NewProto.got = <<>> /\ NewProto.k = <<>> /\ NewProto.children = <<>>
        /\ NewProto.sizep = Unset /\ Len(<<>>) = 0
    BY DEF NewProto
  <2>5. PartOf(NewProto, blocks[1])
    <3>1. \A n \in Nat : 0 <= n
      OBVIOUS
    <3>2. IsWritten(blocks[1])
      BY <2>2, AllAreWritten DEF AllWritten, LoaderInv
    <3>3. Len(blocks[1].k) \in Nat /\ Len(blocks[1].children) \in Nat
      BY <3>2, LenProperties DEF IsWritten
    <3> QED
      BY <2>4, <3>1, <3>3 DEF PartOf
  <2>6. Place(Cur, Last(stack), pos)'
    <3>1. PICK p : p = NewProto
      OBVIOUS
    <3>2. /\ Len(p.got) = 0 /\ Len(p.k) = 0 /\ p.sizep = Unset /\ Len(p.children) = 0
      BY <2>4, <3>1
    <3>3. FunctionsTo(0)' = 0
      <4>1. FunctionsTo(0) = 0
        BY AllAreWritten, BytecodeIs DEF LoaderInv
      <4> QED
        BY <2>1, <4>1, SameFile
    <3>4. /\ 2 = FunctionsTo(1 - 1)' + 2 + Len(p.got) /\ Len(p.got) # 11 /\ 1 = Len(protos')
      BY <2>3, <3>2, <3>3
    <3>5. Place(p, 1, 2)'
      BY <3>2, <3>4 DEF Place
    <3>6. Cur' = p
      BY <2>3, <3>1 DEF Cur
    <3> QED
      BY <2>1, <2>3, <3>5, <3>6
  <2>7. Inside'
    BY <2>3 DEF Inside
  <2>8. \A j \in 1 .. 1 : j = 1
    OBVIOUS
  <2>9. Matches'
    BY <2>1, <2>2, <2>3, <2>5, <2>6, <2>7, <2>8 DEF Matches
  <2> QED
    BY <2>9 DEF Faithful
<1> QED
  BY <1>4, <1>5 DEF LoadHeader

----------------------------------------------------------------------------
(* What is loaded has its types, in the file and past its end.             *)

\* An item of a block is of the type its field has.
LEMMA PayloadsAre ==
  ASSUME NEW b, IsWritten(b), NEW i \in 1 .. 11, NEW v, v = FieldItems(b)[i][2],
         Fields[i] = "int" => ~(v < 0), Fields[i] = "string" => v # BadEscape
  PROVE  /\ Fields[i] = "int"    => v \in Nat
         /\ Fields[i] = "char"   => v \in Byte
         /\ Fields[i] = "string" => v \in Strings
         /\ Fields[i] = "words"  => v \in Seq(Instruction)
<1>1. /\ FieldItems(b)[1][2] = Unescape[b.source] /\ FieldItems(b)[2][2] = Unescape[b.name]
      /\ FieldItems(b)[3][2] = b.line /\ FieldItems(b)[4][2] = b.lastline
      /\ FieldItems(b)[5][2] = b.regs /\ FieldItems(b)[6][2] = b.globals
      /\ FieldItems(b)[7][2] = 0 /\ FieldItems(b)[8][2] = b.params
      /\ FieldItems(b)[9][2] = Len(b.code) /\ FieldItems(b)[10][2] = b.code
      /\ FieldItems(b)[11][2] = Len(b.k)
  BY DEF FieldItems, Text, Int32, Char
<1>2. /\ Fields[1] = "string" /\ Fields[2] = "string" /\ Fields[3] = "int"
      /\ Fields[4] = "int" /\ Fields[5] = "char" /\ Fields[6] = "char"
      /\ Fields[7] = "char" /\ Fields[8] = "char" /\ Fields[9] = "int"
      /\ Fields[10] = "words" /\ Fields[11] = "int"
  BY DEF Fields
<1>3. /\ i = 1 \/ i = 2 \/ i = 3 \/ i = 4 \/ i = 5 \/ i = 6 \/ i = 7 \/ i = 8 \/ i = 9
         \/ i = 10 \/ i = 11
  OBVIOUS
<1>4. CASE Fields[i] = "string"
  <2>1. Unescape[b.source] \in Strings \cup {BadEscape}
        /\ Unescape[b.name] \in Strings \cup {BadEscape}
    BY AssemblyAssumption DEF IsWritten
  <2>2. v \in Strings \cup {BadEscape}
    BY <1>1, <1>2, <1>3, <1>4, <2>1
  <2> QED
    BY <1>4, <2>2
<1>5. CASE Fields[i] = "int"
  <2>1. b.line \in Int /\ b.lastline \in Int /\ Len(b.code) \in Int /\ Len(b.k) \in Int
    <3>1. Len(b.code) \in Nat /\ Len(b.k) \in Nat
      BY LenProperties DEF IsWritten
    <3> QED
      BY <3>1 DEF IsWritten
  <2>2. v \in Int
    BY <1>1, <1>2, <1>3, <1>5, <2>1
  <2> QED
    BY <1>5, <2>2
<1>6. CASE Fields[i] = "char"
  <2>1. 0 \in Byte
    BY DEF Byte
  <2> QED
    BY <1>1, <1>2, <1>3, <1>6, <2>1 DEF IsWritten
<1>7. CASE Fields[i] = "words"
  BY <1>1, <1>2, <1>3, <1>7 DEF IsWritten
<1> QED
  BY <1>4, <1>5, <1>6, <1>7

\* What is read of a function past the end of the file is of the type its field
\* has, too, or the file is refused.
LEMMA PastEndIs ==
  ASSUME NEW m \in 0 .. 10, IsProto(Cur), Len(Cur.got) = m, DOMAIN Cur.got = 1 .. m,
         NEW v \in PastEnd(Fields[m + 1]),
         Fields[m + 1] = "int" => ~(v < 0), Fields[m + 1] = "string" => v # BadEscape
  PROVE  /\ Fields[m + 1] = "int"    => v \in Nat
         /\ Fields[m + 1] = "char"   => v \in Byte
         /\ Fields[m + 1] = "string" => v \in Strings
         /\ Fields[m + 1] = "words"  => v \in Seq(Instruction)
<1>1. CASE Fields[m + 1] = "int"
  <2>1. v = -1
    BY <1>1 DEF PastEnd
  <2> QED
    BY <1>1, <2>1
<1>2. CASE Fields[m + 1] = "char"
  BY <1>2 DEF PastEnd, Byte
<1>3. CASE Fields[m + 1] = "string"
  BY <1>3 DEF PastEnd
<1>4. CASE Fields[m + 1] = "words"
  <2>1. m = 9
    <3>1. \A n \in 0 .. 10 : n = 9 \/ Fields[n + 1] # "words"
      <4>1. \A n \in 1 .. 11 : n = 10 \/ Fields[n] # "words"
        BY DEF Fields
      <4>2. \A n \in 0 .. 10 : n + 1 \in 1 .. 11 /\ (n + 1 = 10 => n = 9)
        OBVIOUS
      <4> QED
        BY <4>1, <4>2
    <3> QED
      BY <1>4, <3>1
  <2>2. Cur.got[9] \in Nat
    <3>1. 9 \in DOMAIN Cur.got /\ Fields[9] = "int"
      BY <2>1 DEF Fields
    <3> QED
      BY <3>1 DEF IsProto
  <2>3. ABC("undefined", 255, 511, 511) \in Instruction
    BY DEF ABC, Instruction, ArgA, ArgBC
  <2>4. v = [x \in 1 .. Cur.got[9] |-> ABC("undefined", 255, 511, 511)]
    BY <1>4 DEF PastEnd
  <2>5. v \in [1 .. Cur.got[9] -> Instruction]
    BY <2>3, <2>4
  <2> QED
    BY <1>4, <2>2, <2>5
<1> QED
  BY <1>1, <1>2, <1>3, <1>4

\* The proto on top is read further, as it should.
LEMMA TakeTyped ==
  ASSUME LoaderInv, phase = "loading", stack # <<>>, NEW p, NEW n \in Nat, Take(p, n),
         IsProto(p)
  PROVE  ProtosTyped'
<1>1. /\ protos' = [protos EXCEPT ![Last(stack)] = p] /\ pos' = pos + n
      /\ phase' = phase
  BY DEF Take
<1>2. Last(stack) \in DOMAIN protos /\ protos \in Seq(Range(protos))
      /\ DOMAIN protos = 1 .. Len(protos)
  BY LoadingNow, CurIs DEF LoaderInv, Inv, ProtosOK
<1>3. /\ Len(protos') = Len(protos) /\ protos'[Last(stack)] = p
      /\ \A j \in DOMAIN protos : j # Last(stack) => protos'[j] = protos[j]
  BY <1>1, <1>2, Replaced
<1>4. ASSUME NEW j \in 1 .. Len(protos)
      PROVE  IsProto(protos[j])'
  <2>1. IsProto(protos[j]) /\ IsProto(p)
    BY DEF LoaderInv, ProtosTyped
  <2>2. CASE j = Last(stack)
    BY <1>3, <2>1, <2>2 DEF IsProto
  <2>3. CASE j # Last(stack)
    BY <1>2, <1>3, <2>1, <2>3 DEF IsProto
  <2> QED
    BY <2>2, <2>3
<1>5. pos' # 0 /\ phase' \in Phases
  <2>1. pos \in Nat \ {0} /\ phase \in Phases
    BY CurIs DEF LoaderInv, ProtosTyped
  <2> QED
    BY <1>1, <2>1
<1> QED
  BY <1>3, <1>4, <1>5 DEF ProtosTyped

LEMMA SameTyped ==
  ASSUME ProtosTyped, protos' = protos, pos' = pos, phase' \in Phases
  PROVE  ProtosTyped'
BY DEF ProtosTyped, IsProto

LEMMA EndTyped ==
  ASSUME ProtosTyped, NEW how \in Phases, End(how)
  PROVE  ProtosTyped'
BY SameTyped DEF End, loading

LEMMA FieldTyped ==
  ASSUME LoaderInv, LoadField
  PROVE  ProtosTyped'
<1>1. phase = "loading" /\ Wanted \in Range(Fields)
  BY DEF LoadField, Loading
<1>2. /\ stack # <<>> /\ Cur.sizep = Unset /\ Len(Cur.got) < 11
      /\ Wanted = Fields[Len(Cur.got) + 1]
  BY <1>1, WhatIsWanted, WantedIs DEF LoaderInv
<1>3. PICK v \in Item(pos, Wanted) :
        CASE Wanted = "int" /\ v < 0            -> End("refused")
          [] Wanted = "string" /\ v = BadEscape -> End("crashed")
          [] OTHER -> Take([Cur EXCEPT !.got = Append(@, v)], 1)
  BY DEF LoadField
<1>4. CASE Wanted = "int" /\ v < 0
  BY <1>3, <1>4, EndTyped DEF LoaderInv, Phases, Ends
<1>5. CASE Wanted = "string" /\ v = BadEscape
  BY <1>3, <1>5, EndTyped DEF LoaderInv, Phases, Ends
<1>6. CASE ~(Wanted = "int" /\ v < 0) /\ ~(Wanted = "string" /\ v = BadEscape)
  <2>1. PICK p, m : p = [Cur EXCEPT !.got = Append(@, v)] /\ m = Len(Cur.got)
    OBVIOUS
  <2>2. Take(p, 1)
    BY <1>3, <1>6, <2>1
  <2>3. /\ Cur.got \in Seq(Range(Cur.got)) /\ m \in 0 .. 10 /\ IsProto(Cur)
        /\ DOMAIN Cur.got = 1 .. m /\ DOMAIN Cur = {"got", "k", "sizep", "children"}
        /\ pos \in Nat /\ Len(file) \in Nat /\ file # Absent
    <3>1. /\ Last(stack) \in 1 .. Len(protos) /\ Cur = protos[Last(stack)]
          /\ DOMAIN protos = 1 .. Len(protos) /\ pos \in Nat /\ Len(file) \in Nat
          /\ file # Absent
      BY <1>1, <1>2, LoadingNow, CurIs DEF LoaderInv
    <3>2. Cur.got \in Seq(Range(Cur.got))
      BY <3>1 DEF LoaderInv, Inv, ProtosOK
    <3>3. /\ IsProto(Cur) /\ DOMAIN Cur.got = 1 .. m
          /\ DOMAIN Cur = {"got", "k", "sizep", "children"} /\ m \in 0 .. 11
      BY <2>1, <3>1, CurIs DEF LoaderInv
    <3>4. \A n \in 0 .. 11 : n < 11 => n \in 0 .. 10
      OBVIOUS
    <3> QED
      BY <1>2, <2>1, <3>1, <3>2, <3>3, <3>4
  <2>4. /\ p.got = Append(Cur.got, v) /\ p.k = Cur.k /\ p.sizep = Cur.sizep
        /\ p.children = Cur.children
    BY <2>1, <2>3
  <2>5. /\ Len(p.got) = m + 1 /\ p.got[m + 1] = v /\ DOMAIN p.got = 1 .. m + 1
        /\ \A i \in 1 .. m : p.got[i] = Cur.got[i]
    BY <2>1, <2>3, <2>4, Grown
  <2>6. /\ Fields[m + 1] = "int"    => v \in Nat
        /\ Fields[m + 1] = "char"   => v \in Byte
        /\ Fields[m + 1] = "string" => v \in Strings
        /\ Fields[m + 1] = "words"  => v \in Seq(Instruction)
    <3>1. m + 1 \in 1 .. 11
      BY <2>3
    <3>2. CASE pos <= Len(file)
      <4>1. IsWritten(blocks[Last(stack)])
        <5>1. pos - 1 <= Len(file)
          BY <2>3, <3>2
        <5> QED
          BY <1>2, <2>3, <5>1, LoadingIs DEF LoaderInv
      <4>2. v = FieldItems(blocks[Last(stack)])[m + 1][2]
        BY <1>2, <1>3, <2>1, <2>3, <3>2, AtHand DEF LoaderInv, Item
      <4>3. PICK b, i : b = blocks[Last(stack)] /\ i = m + 1
        OBVIOUS
      <4> QED
        BY <1>2, <1>6, <2>1, <3>1, <4>1, <4>2, <4>3, PayloadsAre
    <3>3. CASE ~(pos <= Len(file))
      <4>1. v \in PastEnd(Fields[m + 1])
        BY <1>2, <1>3, <2>1, <3>3 DEF Item
      <4> QED
        BY <1>2, <1>6, <2>1, <2>3, <4>1, PastEndIs
    <3> QED
      BY <3>2, <3>3
  <2>7. IsProto(p)
    <3>1. Len(p.got) <= Len(Fields)
      <4>1. Len(Fields) = 11
        BY DEF Fields
      <4> QED
        BY <2>3, <2>5, <4>1
    <3>2. ASSUME NEW x \in 1 .. m + 1
          PROVE  CASE Fields[x] = "int"    -> p.got[x] \in Nat
                   [] Fields[x] = "char"   -> p.got[x] \in Byte
                   [] Fields[x] = "string" -> p.got[x] \in Strings
                   [] Fields[x] = "words"  -> p.got[x] \in Seq(Instruction)
      <4>1. CASE x \in 1 .. m
        BY <2>3, <2>5, <4>1 DEF IsProto
      <4>2. CASE x = m + 1
        <5>1. m + 1 \in 1 .. 11
          BY <2>3
        <5>2. Fields[m + 1] \in {"int", "char", "string", "words"}
          BY <5>1 DEF Fields
        <5> QED
          BY <2>5, <2>6, <4>2, <5>2
      <4>3. x \in 1 .. m \/ x = m + 1
        BY <2>3
      <4> QED
        BY <4>1, <4>2, <4>3
    <3> QED
      BY <2>3, <2>4, <2>5, <3>1, <3>2 DEF IsProto
  <2> QED
    BY <1>1, <1>2, <2>2, <2>7, TakeTyped
<1> QED
  BY <1>4, <1>5, <1>6

LEMMA ConstantTyped ==
  ASSUME LoaderInv, LoadConstant
  PROVE  ProtosTyped'
<1>1. phase = "loading" /\ Wanted = "constant"
  BY DEF LoadConstant, Loading
<1>2. stack # <<>> /\ Cur.sizep = Unset /\ Len(Cur.got) = 11 /\ Len(Cur.k) < SizeK
  BY <1>1, WhatIsWanted, WantedIs DEF LoaderInv
<1>3. /\ IsProto(Cur) /\ DOMAIN Cur = {"got", "k", "sizep", "children"}
      /\ Cur.k \in Seq(ConstValue) /\ pos \in Nat /\ Len(file) \in Nat /\ file # Absent
  BY <1>1, <1>2, LoadingNow, CurIs DEF LoaderInv
<1>4. ASSUME NEW v \in ConstValue, NEW n \in Nat, TakeConst(v, n)
      PROVE  ProtosTyped'
  <2>1. PICK p : p = [Cur EXCEPT !.k = Append(@, v)]
    OBVIOUS
  <2>2. /\ p.k = Append(Cur.k, v) /\ p.got = Cur.got /\ p.sizep = Cur.sizep
        /\ p.children = Cur.children
    BY <1>3, <2>1
  <2>3. p.k \in Seq(ConstValue)
    BY <1>3, <2>2, AppendProperties
  <2>4. IsProto(p)
    BY <1>3, <2>2, <2>3 DEF IsProto
  <2> QED
    BY <1>1, <1>2, <1>4, <2>1, <2>4, TakeTyped DEF TakeConst
<1>5. PICK type \in Item(pos, "char") :
        CASE type \in {0, 4} -> TakeConst(Null, 1)
          [] type = 1 -> \E n \in Item(pos + 1, "number") : TakeConst(Number(n), 2)
          [] type = 2 -> \E c \in Item(pos + 1, "char") : TakeConst(Boolean(c # 0), 2)
          [] type = 3 -> \E s \in Item(pos + 1, "string") :
                           IF s = BadEscape THEN End("crashed") ELSE TakeConst(String(s), 2)
          [] OTHER -> End("refused")
  BY DEF LoadConstant
\* What the file has of a constant that has two items.
<1>6. ASSUME type \in 1 .. 3, pos + 1 <= Len(file), NEW kind, NEW v \in Item(pos + 1, kind)
      PROVE  /\ type = 1 => v \in Nums
             /\ type = 3 => v \in Strings \cup {BadEscape}
  <2>1. pos <= Len(file) /\ pos - 1 <= Len(file)
    BY <1>3, <1>6
  <2>2. PICK b, x : b = blocks[Last(stack)] /\ x = Len(Cur.k) + 1
    OBVIOUS
  <2>3. IsWritten(b) /\ SizeK = Len(b.k)
    BY <1>2, <1>3, <2>1, <2>2, LoadingIs, AtHand DEF LoaderInv
  <2>4. /\ x \in 1 .. Len(b.k) /\ file[pos] = ConstItems(b.k[x])[1]
        /\ Len(ConstItems(b.k[x])) = 2 => file[pos + 1] = ConstItems(b.k[x])[2]
    BY <1>2, <1>3, <1>6, <2>1, <2>2, <2>3, AtHand DEF LoaderInv
  <2>5. b.k[x] \in Constants
    BY <2>3, <2>4, ConstSeqsAre
  <2>6. PICK w : w = b.k[x]
    OBVIOUS
  <2>7. type = TypeByte(w)
    BY <1>5, <2>1, <2>4, <2>5, <2>6, ConstItemsAre DEF Item
  <2>8. v = ConstItems(w)[2][2]
    BY <1>6, <2>4, <2>5, <2>6, <2>7, ConstItemsAre DEF Item
  <2>9. CASE type = 1
    <3>1. w \in {"number"} \X Nums /\ ConstItems(w)[2] = <<"number", w[2]>>
      BY <2>5, <2>6, <2>7, <2>9, ConstItemsAre DEF Payload
    <3>2. w[2] \in Nums /\ v = w[2]
      BY <2>8, <3>1
    <3> QED
      BY <2>9, <3>2
  <2>10. CASE type = 3
    <3>1. w \in {"string"} \X Strings /\ ConstItems(w)[2] = <<"string", Unescape[w[2]]>>
      BY <2>5, <2>6, <2>7, <2>10, ConstItemsAre DEF Payload
    <3>2. w[2] \in Strings /\ v = Unescape[w[2]]
      BY <2>8, <3>1
    <3>3. Unescape[w[2]] \in Strings \cup {BadEscape}
      BY <3>2, AssemblyAssumption
    <3> QED
      BY <2>10, <3>2, <3>3
  <2> QED
    BY <2>9, <2>10
<1>7. CASE type \in {0, 4}
  <2>1. Null \in ConstValue
    BY DEF ConstValue
  <2> QED
    BY <1>4, <1>5, <1>7, <2>1
<1>8. CASE type = 1
  <2>1. PICK n \in Item(pos + 1, "number") : TakeConst(Number(n), 2)
    BY <1>5, <1>8
  <2>2. n \in Nums
    <3>1. CASE pos + 1 <= Len(file)
      BY <1>6, <1>8, <2>1, <3>1
    <3>2. CASE ~(pos + 1 <= Len(file))
      BY <2>1, <3>2 DEF Item, PastEnd
    <3> QED
      BY <3>1, <3>2
  <2>3. Number(n) \in ConstValue
    BY <2>2 DEF Number, ConstValue
  <2> QED
    BY <1>4, <2>1, <2>3
<1>9. CASE type = 2
  <2>1. PICK c \in Item(pos + 1, "char") : TakeConst(Boolean(c # 0), 2)
    BY <1>5, <1>9
  <2>2. Boolean(c # 0) \in ConstValue
    <3>1. (c # 0) \in BOOLEAN
      OBVIOUS
    <3> QED
      BY <3>1 DEF Boolean, ConstValue
  <2> QED
    BY <1>4, <2>1, <2>2
<1>10. CASE type = 3
  <2>1. PICK s \in Item(pos + 1, "string") :
          IF s = BadEscape THEN End("crashed") ELSE TakeConst(String(s), 2)
    BY <1>5, <1>10
  <2>2. CASE s = BadEscape
    BY <2>1, <2>2, EndTyped DEF LoaderInv, Phases, Ends
  <2>3. CASE s # BadEscape
    <3>1. s \in Strings \cup {BadEscape}
      <4>1. CASE pos + 1 <= Len(file)
        BY <1>6, <1>10, <2>1, <4>1
      <4>2. CASE ~(pos + 1 <= Len(file))
        BY <2>1, <4>2 DEF Item, PastEnd
      <4> QED
        BY <4>1, <4>2
    <3>2. String(s) \in ConstValue
      BY <2>3, <3>1 DEF String, ConstValue
    <3> QED
      BY <1>4, <2>1, <2>3, <3>2
  <2> QED
    BY <2>2, <2>3
<1>11. CASE type \notin {0, 4} /\ type # 1 /\ type # 2 /\ type # 3
  <2>1. End("refused")
    BY <1>5, <1>11
  <2> QED
    BY <2>1, EndTyped DEF LoaderInv, Phases, Ends
<1> QED
  BY <1>7, <1>8, <1>9, <1>10, <1>11

LEMMA ChildrenTyped ==
  ASSUME LoaderInv, LoadNumChildren
  PROVE  ProtosTyped'
<1>1. phase = "loading" /\ Wanted = "children" /\ stack # <<>>
  BY WhatIsWanted DEF LoadNumChildren, Loading, LoaderInv
<1>2. PICK n \in Item(pos, "int") :
        IF n < 0 THEN End("refused") ELSE Take([Cur EXCEPT !.sizep = n], 1)
  BY DEF LoadNumChildren
<1>3. CASE n < 0
  BY <1>2, <1>3, EndTyped DEF LoaderInv, Phases, Ends
<1>4. CASE ~(n < 0)
  <2>1. PICK p : p = [Cur EXCEPT !.sizep = n]
    OBVIOUS
  <2>2. /\ IsProto(Cur) /\ DOMAIN Cur = {"got", "k", "sizep", "children"}
        /\ pos \in Nat /\ Len(file) \in Nat /\ file # Absent
    BY <1>1, LoadingNow, CurIs DEF LoaderInv
  <2>3. n \in Nat
    <3>1. pos <= Len(file)
      <4>1. CASE ~(pos <= Len(file))
        <5>1. n = -1
          BY <1>2, <4>1 DEF Item, PastEnd
        <5> QED
          BY <1>4, <5>1
      <4> QED
        BY <4>1
    <3>2. /\ IsWritten(blocks[Last(stack)]) /\ SizeK = Len(blocks[Last(stack)].k)
          /\ Len(Cur.got) = 11 /\ Cur.sizep = Unset /\ Len(Cur.k) = SizeK
      <4>1. pos - 1 <= Len(file)
        BY <2>2, <3>1
      <4>2. Len(Cur.got) = 11 /\ Cur.sizep = Unset /\ Len(Cur.k) = SizeK
        <5>1. Len(Fields) = 11
          BY DEF Fields
        <5> QED
          BY <1>1, <5>1, WhatIsWanted, WantedIs DEF LoaderInv
      <4> QED
        BY <1>1, <2>2, <3>1, <4>1, <4>2, LoadingIs, AtHand DEF LoaderInv
    <3>3. n = Len(blocks[Last(stack)].children)
      <4>1. file[pos] = <<"int", Len(blocks[Last(stack)].children)>>
        BY <1>1, <2>2, <3>1, <3>2, AtHand DEF LoaderInv
      <4> QED
        BY <1>2, <3>1, <4>1 DEF Item
    <3> QED
      BY <3>2, <3>3, LenProperties DEF IsWritten
  <2>4. /\ p.got = Cur.got /\ p.k = Cur.k /\ p.sizep = n /\ p.children = Cur.children
    BY <2>1, <2>2
  <2>5. IsProto(p)
    BY <2>2, <2>3, <2>4 DEF IsProto
  <2> QED
    BY <1>1, <1>2, <1>4, <2>1, <2>5, TakeTyped
<1> QED
  BY <1>3, <1>4

\* A proto in a longer list of protos.
LEMMA MoreProtos ==
  ASSUME Len(protos) \in Nat, Len(protos') = Len(protos) + 1, NEW p, IsProto(p)
  PROVE  IsProto(p)'
<1>1. 2 .. Len(protos) \subseteq 2 .. Len(protos')
  OBVIOUS
<1>2. p.children \in Seq(2 .. Len(protos'))
  BY <1>1, SeqMonotonic DEF IsProto
<1> QED
  BY <1>2 DEF IsProto

LEMMA ChildTyped ==
  ASSUME LoaderInv, LoadChild
  PROVE  ProtosTyped'
<1>1. /\ phase = "loading" /\ Wanted = "nothing" /\ phase' = phase /\ pos' = pos
      /\ protos' = Append([protos EXCEPT ![Last(stack)].children = Append(@, Len(protos) + 1)],
                          NewProto)
  BY DEF LoadChild, Loading
<1>2. stack # <<>>
  BY <1>1, WhatIsWanted DEF LoaderInv
<1>3. PICK t, N : t = Last(stack) /\ N = Len(protos)
  OBVIOUS
<1>4. /\ t \in 1 .. N /\ N \in Nat /\ Cur = protos[t]
      /\ DOMAIN Cur = {"got", "k", "sizep", "children"} /\ Cur.children \in Seq(2 .. N)
      /\ protos \in Seq(Range(protos)) /\ DOMAIN protos = 1 .. N
      /\ \A j \in 1 .. N : IsProto(protos[j])
  <2>1. protos \in Seq(Range(protos))
    BY DEF LoaderInv, Inv, ProtosOK
  <2> QED
    BY <1>1, <1>2, <1>3, <2>1, LoadingNow, CurIs DEF LoaderInv
<1>5. PICK p : p = [Cur EXCEPT !.children = Append(@, N + 1)]
  OBVIOUS
<1>6. /\ p.got = Cur.got /\ p.k = Cur.k /\ p.sizep = Cur.sizep
      /\ p.children = Append(Cur.children, N + 1)
  BY <1>4, <1>5
<1>7. /\ Len(protos') = N + 1 /\ protos'[t] = p /\ protos'[N + 1] = NewProto
      /\ \A j \in 1 .. N : j # t => protos'[j] = protos[j]
  <2>1. PICK r : r = [protos EXCEPT ![t] = p]
    OBVIOUS
  <2>2. protos' = Append(r, NewProto)
    BY <1>1, <1>3, <1>4, <1>5, <2>1
  <2>3. /\ r \in Seq(Range(r)) /\ DOMAIN r = 1 .. N /\ Len(r) = N /\ r[t] = p
        /\ \A j \in 1 .. N : j # t => r[j] = protos[j]
    BY <1>3, <1>4, <2>1, Replaced
  <2>4. /\ Len(protos') = N + 1 /\ protos'[N + 1] = NewProto
        /\ \A j \in 1 .. N : protos'[j] = r[j]
    BY <2>2, <2>3, Grown
  <2> QED
    BY <1>4, <2>3, <2>4
<1>8. IsProto(p)'
  <2>1. p.children \in Seq(2 .. N + 1)
    <3>1. 2 .. N \subseteq 2 .. N + 1 /\ N + 1 \in 2 .. N + 1
      BY <1>4
    <3>2. Cur.children \in Seq(2 .. N + 1)
      BY <1>4, <3>1, SeqMonotonic
    <3> QED
      BY <1>6, <3>1, <3>2, AppendProperties
  <2>2. IsProto(Cur)
    BY <1>4
  <2> QED
    BY <1>6, <1>7, <2>1, <2>2 DEF IsProto
<1>9. IsProto(NewProto)'
  <2>1. /\ NewProto.got = <<>> /\ NewProto.k = <<>> /\ NewProto.children = <<>>
        /\ NewProto.sizep = Unset /\ Len(<<>>) = 0 /\ DOMAIN <<>> = {}
    BY DEF NewProto
  <2>2. <<>> \in Seq(ConstValue) /\ <<>> \in Seq(2 .. N + 1)
    BY EmptySeq
  <2>3. Len(Fields) = 11
    BY DEF Fields
  <2> QED
    BY <1>7, <2>1, <2>2, <2>3 DEF IsProto
<1>10. ASSUME NEW j \in 1 .. N + 1
       PROVE  IsProto(protos[j])'
  <2>1. CASE j = t
    BY <1>7, <1>8, <2>1 DEF IsProto
  <2>2. CASE j = N + 1
    BY <1>7, <1>9, <2>2 DEF IsProto
  <2>3. CASE j \in 1 .. N /\ j # t
    <3>1. PICK r : r = protos[j]
      OBVIOUS
    <3>2. IsProto(r)'
      BY <1>3, <1>4, <1>7, <2>3, <3>1, MoreProtos
    <3> QED
      BY <1>7, <2>3, <3>1, <3>2 DEF IsProto
  <2>4. j \in 1 .. N \/ j = N + 1
    BY <1>4
  <2> QED
    BY <2>1, <2>2, <2>3, <2>4
<1> QED
  BY <1>1, <1>7, <1>10 DEF ProtosTyped, LoaderInv

LEMMA HeaderTyped ==
  ASSUME LoaderInv, LoadHeader
  PROVE  ProtosTyped'
<1>1. phase = "loading"
  BY DEF LoadHeader, Loading
<1>2. CASE End("refused")
  BY <1>2, EndTyped DEF LoaderInv, Phases, Ends
<1>3. CASE /\ protos' = <<NewProto>> /\ pos' = pos + 1
           /\ UNCHANGED <<given, phase, compiling, file, loaded>>
  <2>1. Len(protos') = 1 /\ protos'[1] = NewProto
    BY <1>3
  <2>2. /\ NewProto.got = <<>> /\ NewProto.k = <<>> /\ NewProto.children = <<>>
        /\ NewProto.sizep = Unset /\ Len(<<>>) = 0 /\ DOMAIN <<>> = {}
    BY DEF NewProto
  <2>3. <<>> \in Seq(ConstValue) /\ <<>> \in Seq(2 .. 1)
    BY EmptySeq
  <2>4. Len(Fields) = 11
    BY DEF Fields
  <2>5. IsProto(protos[1])'
    BY <2>1, <2>2, <2>3, <2>4 DEF IsProto
  <2>6. pos' # 0
    <3>1. pos \in Nat
      BY CurIs DEF LoaderInv
    <3> QED
      BY <1>3, <3>1
  <2>7. \A j \in 1 .. 1 : j = 1
    OBVIOUS
  <2> QED
    BY <1>1, <1>3, <2>1, <2>5, <2>6, <2>7 DEF ProtosTyped, Phases
<1> QED
  BY <1>2, <1>3 DEF LoadHeader

----------------------------------------------------------------------------
(* The steps.                                                              *)

\* What bijouc does is before all that is loaded.
LEMMA WriterKeeps ==
  ASSUME LoaderInv, UNCHANGED loading, phase \in NotYet,
         phase' \in Phases \ {"building", "ready"}
  PROVE  Faithful' /\ ProtosTyped' /\ Outside' /\ Building'
<1>1. pos' = pos /\ stack' = stack /\ protos' = protos /\ loaded' = loaded
  BY DEF loading
<1>2. stack = <<>> /\ protos = <<>> /\ pos = 1 /\ loaded = <<>> /\ <<>> \in Seq(Range(<<>>))
  <2>1. phase \notin {"building", "ready"} \cup Ends
    BY DEF NotYet, Ends
  <2> QED
    BY <2>1, EmptySeq DEF LoaderInv, Inv, Before, Outside, Building
<1>3. ProtosTyped'
  BY <1>1, SameTyped DEF LoaderInv
<1> QED
  BY <1>1, <1>2, <1>3 DEF Faithful, Outside, Building

\* bijou ends without a program.
LEMMA EndKeeps ==
  ASSUME LoaderInv, NEW how \in {"refused", "crashed"}, End(how)
  PROVE  Faithful' /\ ProtosTyped' /\ Outside' /\ Building'
<1>1. phase' = how /\ loaded' = loaded /\ how \in Ends /\ how \in Phases
  BY DEF End, loading, Ends, Phases
<1>2. Faithful' /\ ProtosTyped'
  BY <1>1, EndFaithful, EndTyped DEF LoaderInv
<1>3. Outside'
  BY <1>1 DEF Outside, NotYet
<1>4. Building'
  BY <1>1 DEF LoaderInv, Building
<1> QED
  BY <1>2, <1>3, <1>4

\* As long as functions are loaded no block is built.
LEMMA LoadingKeeps ==
  ASSUME LoaderInv, phase = "loading", phase' = "loading", stack' # <<>>, loaded' = loaded
  PROVE  Outside' /\ Building'
<1>1. loaded = <<>>
  BY DEF LoaderInv, Building, Ends
<1> QED
  BY <1>1, EmptySeq DEF LoaderInv, Outside, Building

LEMMA TakeKeeps ==
  ASSUME LoaderInv, phase = "loading", stack # <<>>, NEW p, NEW n, Take(p, n)
  PROVE  Outside' /\ Building'
BY LoadingKeeps DEF Take

LEMMA LoadKeeps ==
  ASSUME LoaderInv, LoadHeader \/ LoadField \/ LoadConstant \/ LoadNumChildren \/ LoadChild
  PROVE  Faithful' /\ ProtosTyped' /\ Outside' /\ Building'
<1>1. CASE LoadHeader
  <2>1. Outside' /\ Building'
    <3>1. CASE End("refused")
      BY <3>1, EndKeeps
    <3>2. CASE stack' = <<1>> /\ UNCHANGED <<phase, loaded>>
      BY <1>1, <3>2, LoadingKeeps DEF LoadHeader, Loading
    <3> QED
      BY <1>1, <3>1, <3>2 DEF LoadHeader
  <2> QED
    BY <1>1, <2>1, HeaderFaithful, HeaderTyped
<1>2. CASE LoadField
  <2>1. phase = "loading" /\ stack # <<>>
    BY <1>2, WhatIsWanted DEF LoadField, Loading, LoaderInv
  <2>2. PICK v : \/ End("refused") \/ End("crashed")
                 \/ Take([Cur EXCEPT !.got = Append(@, v)], 1)
    BY <1>2 DEF LoadField
  <2>3. Outside' /\ Building'
    <3>1. PICK p : p = [Cur EXCEPT !.got = Append(@, v)]
      OBVIOUS
    <3> QED
      BY <2>1, <2>2, <3>1, EndKeeps, TakeKeeps
  <2> QED
    BY <1>2, <2>3, FieldFaithful, FieldTyped
<1>3. CASE LoadConstant
  <2>1. phase = "loading" /\ stack # <<>>
    BY <1>3, WhatIsWanted DEF LoadConstant, Loading, LoaderInv
  <2>2. \/ End("refused") \/ End("crashed")
        \/ \E v, n : TakeConst(v, n)
    <3>1. PICK type \in Item(pos, "char") :
            CASE type \in {0, 4} -> TakeConst(Null, 1)
              [] type = 1 -> \E n \in Item(pos + 1, "number") : TakeConst(Number(n), 2)
              [] type = 2 -> \E c \in Item(pos + 1, "char") : TakeConst(Boolean(c # 0), 2)
              [] type = 3 -> \E s \in Item(pos + 1, "string") :
                               IF s = BadEscape THEN End("crashed") ELSE TakeConst(String(s), 2)
              [] OTHER -> End("refused")
      BY <1>3 DEF LoadConstant
    <3> QED
      BY <3>1
  <2>3. Outside' /\ Building'
    <3>1. ASSUME NEW v, NEW n, TakeConst(v, n)
          PROVE  Outside' /\ Building'
      <4>1. PICK p : p = [Cur EXCEPT !.k = Append(@, v)]
        OBVIOUS
      <4> QED
        BY <2>1, <3>1, <4>1, TakeKeeps DEF TakeConst
    <3> QED
      BY <2>2, <3>1, EndKeeps
  <2> QED
    BY <1>3, <2>3, ConstantFaithful, ConstantTyped
<1>4. CASE LoadNumChildren
  <2>1. phase = "loading" /\ stack # <<>>
    BY <1>4, WhatIsWanted DEF LoadNumChildren, Loading, LoaderInv
  <2>2. PICK n : End("refused") \/ Take([Cur EXCEPT !.sizep = n], 1)
    BY <1>4 DEF LoadNumChildren
  <2>3. Outside' /\ Building'
    <3>1. PICK p : p = [Cur EXCEPT !.sizep = n]
      OBVIOUS
    <3> QED
      BY <2>1, <2>2, <3>1, EndKeeps, TakeKeeps
  <2> QED
    BY <1>4, <2>3, ChildrenFaithful, ChildrenTyped
<1>5. CASE LoadChild
  <2>1. phase = "loading" /\ phase' = phase /\ loaded' = loaded /\ stack \in Seq(Range(stack))
    BY <1>5, SeqOfRange DEF LoadChild, Loading, LoaderInv, Inv, ProtosOK
  <2>2. stack' # <<>>
    <3>1. PICK n : n = Len(protos) + 1
      OBVIOUS
    <3>2. Len(stack') = Len(stack) + 1 /\ Len(stack) \in Nat
      BY <1>5, <2>1, <3>1, Grown DEF LoadChild
    <3> QED
      BY <3>2
  <2> QED
    BY <1>5, <2>1, <2>2, LoadingKeeps, ChildFaithful, ChildTyped
<1> QED
  BY <1>1, <1>2, <1>3, <1>4, <1>5

LEMMA ReturnKeeps ==
  ASSUME LoaderInv, LoadReturn
  PROVE  Faithful' /\ ProtosTyped' /\ Outside' /\ Building'
<1>1. /\ phase = "loading" /\ Wanted = "nothing"
      /\ stack' = Front(stack) /\ phase' = IF Len(stack) = 1 THEN "building" ELSE phase
      /\ pos' = pos /\ protos' = protos /\ loaded' = loaded
  BY DEF LoadReturn, Loading
<1>2. stack # <<>>
  BY <1>1, WhatIsWanted DEF LoaderInv
<1>3. Faithful' /\ ProtosTyped'
  <2>1. phase' \in Phases
    BY <1>1 DEF Phases
  <2> QED
    BY <1>1, <2>1, ReturnFaithful, SameTyped DEF LoaderInv
<1>4. loaded = <<>> /\ protos # <<>> /\ Len(protos) \in Nat \ {0}
  <2>1. protos # <<>> /\ Len(protos) \in Nat /\ Last(stack) \in 1 .. Len(protos)
    BY <1>1, <1>2, LoadingNow
  <2> QED
    BY <1>1, <2>1 DEF LoaderInv, Building, Ends
<1>5. Len(stack') = Len(stack) - 1 /\ Len(stack) \in Nat
  <2>1. Len(stack) \in 1 .. Len(stack) /\ Len(stack) \in Nat
    BY <1>1, <1>2, LoadingNow
  <2>2. stack \in Seq(Range(stack)) /\ stack' = SubSeq(stack, 1, Len(stack) - 1)
    BY <1>1, SeqOfRange DEF LoaderInv, Inv, ProtosOK, Front
  <2>3. \A i \in 1 .. Len(stack) - 1 : stack[i] \in Range(stack)
    <3>1. \A i \in 1 .. Len(stack) - 1 : i \in 1 .. Len(stack)
      BY <2>1
    <3> QED
      BY <2>2, <3>1, ElementOfSeq
  <2>4. PICK m : m = Len(stack)
    OBVIOUS
  <2>5. /\ m - 1 \in Int /\ 1 \in Int /\ (IF 1 <= m - 1 THEN m - 1 - 1 + 1 ELSE 0) = m - 1
    BY <2>1, <2>4
  <2> QED
    BY <2>1, <2>2, <2>3, <2>4, <2>5, SubSeqProperties
<1>6. CASE Len(stack) = 1
  <2>1. stack' = <<>>
    <3>1. Len(stack') = 0
      BY <1>5, <1>6
    <3>2. stack' \in Seq(Range(stack))
      <4>1. stack \in Seq(Range(stack))
        BY SeqOfRange DEF LoaderInv, Inv, ProtosOK
      <4> QED
        BY <1>1, <1>2, <4>1, LastOf
    <3> QED
      BY <3>1, <3>2, EmptySeq
  <2>2. phase' = "building"
    BY <1>1, <1>6
  <2>3. Outside'
    BY <1>1, <1>4, <2>1, <2>2 DEF Outside, NotYet
  <2>4. Building'
    <3>1. <<>> \in Seq(Range(<<>>)) /\ Len(<<>>) = 0 /\ 1 .. 0 = {}
      BY EmptySeq
    <3>2. Len(<<>>) < Len(protos)
      BY <1>4, <3>1
    <3> QED
      BY <1>1, <1>4, <2>2, <3>1, <3>2 DEF Building
  <2> QED
    BY <1>3, <2>3, <2>4
<1>7. CASE Len(stack) # 1
  <2>1. stack' # <<>>
    <3>1. Len(stack') # 0
      BY <1>5, <1>7
    <3> QED
      BY <3>1
  <2> QED
    BY <1>1, <1>3, <1>7, <2>1, LoadingKeeps
<1> QED
  BY <1>6, <1>7

LEMMA BuildKeeps ==
  ASSUME LoaderInv, Build
  PROVE  Faithful' /\ ProtosTyped' /\ Outside' /\ Building'
<1>1. CASE End("crashed")
  BY <1>1, EndKeeps
<1>2. CASE ~End("crashed")
  <2>1. PICK j, p : j = Len(loaded) + 1 /\ p = protos[j]
    OBVIOUS
  <2>2. PICK k \in PushAll(p.k) :
          /\ loaded' = Append(loaded,
               [code |-> p.got[10], k |-> k, regc |-> p.got[5], argc |-> p.got[8],
                numglobal |-> IF j = 1 THEN p.got[6] ELSE 0, children |-> p.children])
          /\ phase = "building" /\ phase' = IF j = Len(protos) THEN "ready" ELSE phase
          /\ pos' = pos /\ stack' = stack /\ protos' = protos /\ file' = file
          /\ src' = src /\ blocks' = blocks
    BY <1>2, <2>1 DEF Build, given, compiling
  <2>3. PICK l : l = [code |-> p.got[10], k |-> k, regc |-> p.got[5], argc |-> p.got[8],
                      numglobal |-> IF j = 1 THEN p.got[6] ELSE 0, children |-> p.children]
    OBVIOUS
  <2>4. BuiltOf(l, p, j = 1)
    BY <2>2, <2>3 DEF BuiltOf
  <2>5. /\ loaded' \in Seq(Range(loaded')) /\ Len(loaded') = j /\ loaded'[j] = l
        /\ \A i \in 1 .. Len(loaded) : loaded'[i] = loaded[i]
        /\ Len(loaded) \in Nat /\ j \in Nat
    <3>1. loaded \in Seq(Range(loaded))
      BY DEF LoaderInv, Building
    <3> QED
      BY <2>1, <2>2, <2>3, <3>1, Grown
  <2>6. Faithful' /\ ProtosTyped'
    <3>1. phase' \in Phases
      BY <2>2 DEF Phases, Ends
    <3> QED
      BY <2>2, <3>1, SameFaithful, SameTyped DEF LoaderInv
  <2>7. Outside'
    BY <2>2 DEF LoaderInv, Outside, NotYet
  <2>8. ASSUME NEW i \in 1 .. j
        PROVE  BuiltOf(loaded'[i], protos[i], i = 1)
    <3>1. CASE i \in 1 .. Len(loaded)
      BY <2>2, <2>5, <3>1 DEF LoaderInv, Building
    <3>2. CASE i = j
      BY <2>1, <2>4, <2>5, <3>2
    <3>3. i \in 1 .. Len(loaded) \/ i = j
      BY <2>1, <2>5
    <3> QED
      BY <3>1, <3>2, <3>3
  <2>9. j <= Len(protos) /\ Len(protos) \in Nat
    <3>1. Len(loaded) < Len(protos) /\ Len(protos) \in Nat
      BY <2>2, CurIs DEF LoaderInv, Building
    <3> QED
      BY <2>1, <2>5, <3>1
  <2>10. Building'
    <3>1. phase' \in {"building", "ready"}
      BY <2>2
    <3>2. phase' = "building" => Len(loaded') < Len(protos)
      BY <2>2, <2>5, <2>9
    <3>3. phase' = "ready" => Len(loaded') = Len(protos)
      BY <2>2, <2>5
    <3> QED
      BY <2>2, <2>5, <2>8, <3>1, <3>2, <3>3 DEF Building
  <2> QED
    BY <2>6, <2>7, <2>10
<1> QED
  BY <1>1, <1>2

LEMMA LoaderInit == Init => LoaderInv
<1> SUFFICES ASSUME Init
             PROVE  LoaderInv
  OBVIOUS
<1>1. /\ protos = <<>> /\ stack = <<>> /\ pos = 1 /\ loaded = <<>> /\ phase = "start"
      /\ <<>> \in Seq(Range(<<>>)) /\ Len(<<>>) = 0 /\ 1 .. 0 = {}
  BY EmptySeq DEF Init
<1>2. Faithful /\ ProtosTyped /\ Outside /\ Building
  BY <1>1 DEF Faithful, ProtosTyped, Outside, Building, NotYet, Ends, Phases
<1> QED
  BY <1>2, InvInit, CompilerInit DEF LoaderInv

LEMMA LoaderNext == LoaderInv /\ [Next]_vars => LoaderInv'
<1> SUFFICES ASSUME LoaderInv, [Next]_vars
             PROVE  LoaderInv'
  OBVIOUS
<1>1. CompilerInv' /\ Inv' /\ phase' \in Phases
  BY CompilerNext, InvNext DEF LoaderInv, CompilerInv, GivenOK
<1> DEFINE Keeps == Faithful' /\ ProtosTyped' /\ Outside' /\ Building'
<1>2. CASE Start \/ CompileConst \/ CompileNested \/ Dump
  <2>1. /\ UNCHANGED loading /\ phase \in NotYet
        /\ phase' \in NotYet
    BY <1>2 DEF Start, CompileConst, CompileNested, Dump, ReadingConsts, NotYet
  <2>2. phase' \notin {"building", "ready"}
    BY <2>1 DEF NotYet
  <2> QED
    BY <1>1, <2>1, <2>2, WriterKeeps DEF LoaderInv
<1>3. CASE RefuseConst \/ EndMain \/ Killed \/ Run
  <2>1. UNCHANGED loading /\ phase \in NotYet /\ phase' \notin {"building", "ready"}
    BY <1>3 DEF RefuseConst, EndMain, Killed, Run, End, ReadingConsts, NotYet
  <2> QED
    BY <1>1, <2>1, WriterKeeps DEF LoaderInv
<1>4. CASE EndNested
  <2>1. UNCHANGED loading /\ phase \in NotYet /\ phase' \notin {"building", "ready"}
    BY <1>4 DEF EndNested, End, NotYet
  <2> QED
    BY <1>1, <2>1, WriterKeeps DEF LoaderInv
<1>5. CASE LoadHeader \/ LoadField \/ LoadConstant \/ LoadNumChildren \/ LoadChild
  BY <1>1, <1>5, LoadKeeps DEF LoaderInv
<1>6. CASE LoadReturn
  BY <1>1, <1>6, ReturnKeeps DEF LoaderInv
<1>7. CASE Build
  BY <1>1, <1>7, BuildKeeps DEF LoaderInv
<1>8. CASE UNCHANGED vars
  <2>1. /\ src' = src /\ blocks' = blocks /\ file' = file /\ pos' = pos /\ stack' = stack
        /\ protos' = protos /\ loaded' = loaded /\ phase' = phase
    BY <1>8 DEF vars, given, compiling, loading
  <2>2. Faithful' /\ ProtosTyped'
    BY <1>1, <2>1, SameFaithful, SameTyped DEF LoaderInv
  <2>3. Outside' /\ Building'
    BY <2>1 DEF LoaderInv, Outside, Building
  <2> QED
    BY <1>1, <2>2, <2>3 DEF LoaderInv
<1>9. Step \/ UNCHANGED vars
  BY DEF Next, Ended
<1> QED
  BY <1>2, <1>3, <1>4, <1>5, <1>6, <1>7, <1>8, <1>9 DEF Step

----------------------------------------------------------------------------
(* The theorems.                                                           *)

\* DumpFunction of dump.c and LoadFunction of load.c walk the functions of every
\* source, and their fields, in one order: the loader reads no item as something
\* else than what it was written as.
THEOREM ReadsAsWritten == Spec => []InStep
<1>1. LoaderInv => InStep
  BY KindsAgree
<1> QED
  BY <1>1, LoaderInit, LoaderNext, PTL DEF Spec

\* A program is built only of a whole file, and is what was compiled.
LEMMA BuiltIs ==
  ASSUME LoaderInv, phase \in {"building", "ready"}
  PROVE  /\ file = Bytecode /\ pos = Len(file) + 1 /\ Complete /\ AllWritten
         /\ Len(protos) = Len(blocks) /\ Len(blocks) \in Nat \ {0}
         /\ \A j \in 1 .. Len(protos) :
              Whole(protos[j], blocks[j]) /\ PartOf(protos[j], blocks[j])
<1>1. stack = <<>> /\ protos # <<>> /\ pos - 1 <= Len(file) /\ file # Absent
  BY DEF LoaderInv, Outside, Inv, NothingIsMadeUp, CompilerInv, PhaseOK
<1>2. Matches
  BY <1>1 DEF LoaderInv, Faithful
<1>3. /\ Len(protos) = Len(blocks) /\ pos = Len(Bytecode) + 1
      /\ \A j \in 1 .. Len(protos) :
           Whole(protos[j], blocks[j]) /\ PartOf(protos[j], blocks[j])
  <2>1. \A i \in 1 .. Len(stack) : FALSE
    BY <1>1
  <2> QED
    BY <1>1, <1>2, <2>1 DEF Matches
<1>4. /\ Len(file) \in Nat /\ Len(file) <= Len(Bytecode) /\ Len(Bytecode) \in Nat \ {0}
      /\ Len(file) = Len(Bytecode) => file = Bytecode
      /\ Len(file) # 0 => Complete
      /\ AllWritten
  <2>1. Len(Bytecode) \in Nat /\ AllWritten
    BY AllAreWritten DEF LoaderInv
  <2>2. Len(Bytecode) # 0
    <3>1. PICK n : n = FunctionsTo(Len(blocks))
      OBVIOUS
    <3>2. Len(Bytecode) = 1 + n /\ n \in Nat
      <4>1. Len(blocks) \in 0 .. Len(blocks)
        BY <2>1 DEF AllWritten
      <4> QED
        BY <2>1, <3>1, <4>1, BytecodeIs
    <3> QED
      BY <3>2
  <2> QED
    BY <1>1, <2>1, <2>2, FileIs DEF LoaderInv
<1>5. Len(file) = Len(Bytecode)
  BY <1>1, <1>3, <1>4
<1>6. file = Bytecode /\ pos = Len(file) + 1 /\ Complete
  BY <1>3, <1>4, <1>5
<1>7. Len(blocks) \in Nat \ {0}
  BY <1>6, SourceIs DEF Complete, LoaderInv, CompilerInv, GivenOK
<1> QED
  BY <1>3, <1>4, <1>6, <1>7

\* Whatever the writing of the file did not get to, no program is made of what is
\* left, and none before all of the file is read.
THEOREM OnlyWholeFilesRun == Spec => []CutNeverRuns
<1>1. LoaderInv => CutNeverRuns
  BY BuiltIs DEF CutNeverRuns
<1> QED
  BY <1>1, LoaderInit, LoaderNext, PTL DEF Spec

\* What proto_to_block2 has built when all is built.
LEMMA ReadyIs ==
  ASSUME LoaderInv, phase = "ready"
  PROVE  /\ loaded \in Seq(Range(loaded)) /\ Len(loaded) = Len(blocks)
         /\ DOMAIN loaded = 1 .. Len(loaded) /\ DOMAIN blocks = 1 .. Len(blocks)
         /\ Len(loaded) \in Nat \ {0} /\ Len(protos) = Len(loaded)
         /\ \A j \in 1 .. Len(loaded) :
              /\ BuiltOf(loaded[j], protos[j], j = 1) /\ IsProto(protos[j])
              /\ IsWritten(blocks[j]) /\ Whole(protos[j], blocks[j])
              /\ PartOf(protos[j], blocks[j]) /\ IsCompiled(blocks[j])
<1>1. /\ loaded \in Seq(Range(loaded)) /\ Len(loaded) = Len(protos)
      /\ \A j \in 1 .. Len(loaded) : BuiltOf(loaded[j], protos[j], j = 1)
  BY DEF LoaderInv, Building
<1>2. /\ Len(protos) = Len(blocks) /\ Len(blocks) \in Nat \ {0} /\ AllWritten
      /\ \A j \in 1 .. Len(protos) :
           Whole(protos[j], blocks[j]) /\ PartOf(protos[j], blocks[j])
  BY BuiltIs
<1>3. DOMAIN loaded = 1 .. Len(loaded)
  BY <1>1, LenProperties
<1> QED
  BY <1>1, <1>2, <1>3 DEF LoaderInv, ProtosTyped, AllWritten, CompilerInv, BlocksOK

\* The functions, who nests whom, their code, registers and parameters, and the
\* main function's globals are in the virtual machine what they were in the
\* compiler, for every source.
THEOREM LoadedAsCompiled == Spec => []LoadedKeepsBlocks
<1>1. ASSUME LoaderInv, phase = "ready"
      PROVE  /\ DOMAIN loaded = DOMAIN blocks
             /\ loaded[1].numglobal = blocks[1].globals
             /\ \A j \in DOMAIN blocks :
                  /\ loaded[j].code = blocks[j].code
                  /\ loaded[j].regc = blocks[j].regs
                  /\ loaded[j].argc = blocks[j].params
                  /\ loaded[j].children = blocks[j].children
  <2>1. ASSUME NEW j \in 1 .. Len(loaded)
        PROVE  /\ loaded[j].code = blocks[j].code
               /\ loaded[j].regc = blocks[j].regs
               /\ loaded[j].argc = blocks[j].params
               /\ loaded[j].children = blocks[j].children
               /\ j = 1 => loaded[j].numglobal = blocks[j].globals
    <3>1. PICK l, p, b : l = loaded[j] /\ p = protos[j] /\ b = blocks[j]
      OBVIOUS
    <3>2. BuiltOf(l, p, j = 1) /\ Whole(p, b) /\ PartOf(p, b) /\ IsWritten(b) /\ IsProto(p)
      BY <1>1, <3>1, ReadyIs
    <3>3. /\ l.code = p.got[10] /\ l.regc = p.got[5] /\ l.argc = p.got[8]
          /\ l.children = p.children /\ (j = 1 => l.numglobal = p.got[6])
      BY <3>2 DEF BuiltOf
    <3>4. \A i \in 1 .. 11 : p.got[i] = FieldItems(b)[i][2]
      BY <3>2 DEF Whole, ReadUp, PartOf
    <3>5. /\ FieldItems(b)[5][2] = b.regs /\ FieldItems(b)[6][2] = b.globals
          /\ FieldItems(b)[8][2] = b.params /\ FieldItems(b)[10][2] = b.code
      BY DEF FieldItems, Char
    <3>6. p.children = b.children
      <4>1. /\ Len(p.children) = Len(b.children)
            /\ \A c \in 1 .. Len(p.children) : p.children[c] = b.children[c]
        BY <3>2 DEF Whole, PartOf
      <4>2. p.children \in Seq(Range(p.children)) /\ b.children \in Seq(Range(b.children))
        BY <3>2, SeqOfRange DEF IsProto, IsWritten
      <4>3. PICK u, v : u = p.children /\ v = b.children
        OBVIOUS
      <4>4. u \in Seq(Range(u) \cup Range(v)) /\ v \in Seq(Range(u) \cup Range(v))
        <5>1. /\ Range(u) \subseteq Range(u) \cup Range(v)
              /\ Range(v) \subseteq Range(u) \cup Range(v)
          OBVIOUS
        <5> QED
          BY <4>2, <4>3, <5>1, SeqMonotonic
      <4>5. u = v
        BY <4>1, <4>3, <4>4, SeqEqual
      <4> QED
        BY <4>3, <4>5
    <3> QED
      BY <3>1, <3>3, <3>4, <3>5, <3>6
  <2>2. /\ DOMAIN loaded = 1 .. Len(loaded) /\ DOMAIN blocks = 1 .. Len(loaded)
        /\ 1 \in 1 .. Len(loaded)
    BY <1>1, ReadyIs
  <2> QED
    BY <2>1, <2>2
<1>2. LoaderInv => LoadedKeepsBlocks
  BY <1>1 DEF LoadedKeepsBlocks
<1> QED
  BY <1>2, LoaderInit, LoaderNext, PTL DEF Spec

\* The entries of a tidy function are at their places in the tables of bijou, too,
\* their strings decoded: the second pass over the constants, in proto_to_block2,
\* drops none the code of the function needs.
THEOREM ConstantsArrive == Spec => []ConstantsKept
<1>1. ASSUME LoaderInv, phase = "ready", NEW j \in DOMAIN src, TidyConsts(src[j].consts),
             NEW x \in DOMAIN src[j].consts, ~IsNested(src[j].consts[x])
      PROVE  x <= Len(loaded[j].k) /\ loaded[j].k[x] = Decoded(src[j].consts[x])
  <2>1. PICK p, b, C : p = protos[j] /\ b = blocks[j] /\ C = Consts(j)
    OBVIOUS
  <2>2. /\ src \in Sources /\ j \in 1 .. Len(src) /\ Len(loaded) = Len(src)
        /\ Len(blocks) = Len(src) /\ Complete
    <3>1. src \in Sources
      BY <1>1 DEF LoaderInv, CompilerInv, GivenOK
    <3> QED
      BY <1>1, <3>1, BuiltIs, ReadyIs, SourceIs DEF Complete
  <2>3. /\ BuiltOf(loaded[j], p, j = 1) /\ IsProto(p) /\ IsWritten(b)
        /\ Whole(p, b) /\ PartOf(p, b)
    BY <1>1, <2>1, <2>2, ReadyIs
  <2>4. Len(C) \in Nat /\ x \in 1 .. Len(C) /\ x \in Plain(j)
    <3>1. Consts(j) \in Seq(ConstValue \cup {Refused} \cup {Nested(i) : i \in 2 .. Len(src)})
      BY <2>2, SourceIs DEF IsFunction, Consts
    <3>2. DOMAIN Consts(j) = 1 .. Len(Consts(j)) /\ Len(Consts(j)) \in Nat
      BY <3>1, LenProperties
    <3> QED
      BY <1>1, <2>1, <3>2 DEF Consts, Plain
  <2>5. InPlace(b.k, Plain(j), C, Len(C))
    BY <1>1, <2>1, <2>2 DEF Complete, Compiled, Kept, Consts
  \* What the second pass is given.
  <2>6. /\ p.k \in Seq(ConstValue) /\ Len(p.k) = Len(b.k) /\ Len(p.k) \in Nat
        /\ \A y \in 1 .. Len(p.k) : p.k[y] = AsLoaded(b.k[y])
    BY <2>3, LenProperties DEF IsProto, Whole, ReadUp, PartOf
  <2>7. ASSUME NEW y \in Plain(j)
        PROVE  y \in 1 .. Len(p.k) /\ p.k[y] = Decoded(C[y])
    <3>1. y \in 1 .. Len(C)
      <4>1. DOMAIN Consts(j) = 1 .. Len(Consts(j))
        <5>1. Consts(j) \in
                Seq(ConstValue \cup {Refused} \cup {Nested(i) : i \in 2 .. Len(src)})
          BY <2>2, SourceIs DEF IsFunction, Consts
        <5> QED
          BY <5>1, LenProperties
      <4> QED
        BY <2>1, <4>1 DEF Plain
    <3>2. y <= Len(b.k) /\ b.k[y] = C[y]
      BY <2>5, <3>1 DEF InPlace
    <3>3. y \in 1 .. Len(p.k)
      BY <2>6, <3>1, <3>2
    <3>4. Tag(C[y]) # "function"
      <4>1. /\ C[y] \in ConstValue \cup {Refused} \cup {Nested(i) : i \in 2 .. Len(src)}
            /\ ~IsNested(C[y])
        BY <2>1, <2>2, <3>1, EntryIs DEF Plain
      <4> QED
        BY <4>1 DEF ConstValue, Null, Refused, Nested, IsNested, Tag
    <3> QED
      BY <2>6, <3>2, <3>3, <3>4 DEF AsLoaded
  <2>8. Apart(Plain(j), p.k)
    <3>1. ASSUME NEW y \in Plain(j), NEW z \in 1 .. y - 1
          PROVE  z \in Plain(j) /\ p.k[z] # p.k[y]
      <4>1. TidyConsts(Consts(j))
        BY <1>1 DEF Consts
      <4>2. z \in Plain(j) /\ Decoded(C[z]) # Decoded(C[y])
        BY <2>1, <2>2, <4>1, TidyIsApart DEF Apart
      <4> QED
        BY <2>7, <4>2
    <3> QED
      BY <3>1 DEF Apart
  <2>9. PICK k : /\ k \in Pushed(p.k)[Len(p.k)] /\ k = loaded[j].k
    BY <2>3 DEF BuiltOf, PushAll
  <2>10. InPlace(k, Plain(j), p.k, Len(p.k))
    <3>1. ConstValue \subseteq Constants
      BY DEF Constants
    <3>2. Len(p.k) \in 0 .. Len(p.k)
      BY <2>6
    <3>3. PICK u, P : u = p.k /\ P = Plain(j)
      OBVIOUS
    <3>4. \A n \in 0 .. Len(u) : \A t \in Pushed(u)[n] : InPlace(t, P, u, n)
      BY <2>6, <2>8, <3>1, <3>3, PushedInPlace
    <3> QED
      BY <2>9, <3>2, <3>3, <3>4
  <2>11. x \in 1 .. Len(p.k) /\ p.k[x] = Decoded(C[x])
    BY <2>4, <2>7
  <2> QED
    BY <2>1, <2>4, <2>9, <2>10, <2>11 DEF InPlace, Consts
<1>2. LoaderInv => ConstantsKept
  BY <1>1 DEF ConstantsKept
<1> QED
  BY <1>2, LoaderInit, LoaderNext, PTL DEF Spec

\* Every variable stays in its type, and what is run is a program: code, constants
\* and children as the interpreter takes them for granted.
THEOREM AssemblyTypes == Spec => []TypeOK
<1>1. ASSUME LoaderInv, phase = "ready"
      PROVE  IsProgram(loaded)
  <2>1. ASSUME NEW j \in 1 .. Len(loaded)
        PROVE  IsBlock(loaded[j], loaded)
    <3>1. PICK l, p, b : l = loaded[j] /\ p = protos[j] /\ b = blocks[j]
      OBVIOUS
    <3>2. /\ BuiltOf(l, p, j = 1) /\ Whole(p, b) /\ PartOf(p, b) /\ IsProto(p)
          /\ Len(protos) = Len(loaded)
      BY <1>1, <3>1, ReadyIs
    <3>3. PICK k \in PushAll(p.k) :
            l = [code |-> p.got[10], k |-> k, regc |-> p.got[5], argc |-> p.got[8],
                 numglobal |-> IF j = 1 THEN p.got[6] ELSE 0, children |-> p.children]
      BY <3>2 DEF BuiltOf
    <3>4. /\ p.got[10] \in Seq(Instruction) /\ p.got[5] \in Byte /\ p.got[8] \in Byte
          /\ p.got[6] \in Byte
      <4>1. Len(p.got) = 11 /\ DOMAIN p.got = 1 .. 11
        <5>1. Len(p.got) = 11
          BY <3>2 DEF Whole, ReadUp
        <5> QED
          BY <1>1, <3>1, <3>2, <5>1, CurIs DEF LoaderInv
      <4>2. /\ Fields[5] = "char" /\ Fields[6] = "char" /\ Fields[8] = "char"
            /\ Fields[10] = "words"
        BY DEF Fields
      <4>3. 5 \in 1 .. 11 /\ 6 \in 1 .. 11 /\ 8 \in 1 .. 11 /\ 10 \in 1 .. 11
        OBVIOUS
      <4> QED
        BY <3>2, <4>1, <4>2, <4>3 DEF IsProto
    <3>5. k \in Seq(ConstValue)
      <4>1. p.k \in Seq(ConstValue) /\ Len(p.k) \in 0 .. Len(p.k)
        BY <3>2, LenProperties DEF IsProto
      <4>2. ConstValue \subseteq Constants /\ Apart({}, p.k)
        BY DEF Constants, Apart
      <4>3. PICK u : u = p.k
        OBVIOUS
      <4>4. \A n \in 0 .. Len(u) : \A t \in Pushed(u)[n] : t \in Seq(ConstValue)
        BY <4>1, <4>2, <4>3, PushedInPlace
      <4> QED
        BY <4>1, <4>3, <4>4 DEF PushAll
    <3>6. p.children \in Seq(1 .. Len(loaded))
      <4>1. p.children \in Seq(2 .. Len(protos))
        BY <1>1, <3>1, <3>2, CurIs DEF LoaderInv
      <4>2. 2 .. Len(protos) \subseteq 1 .. Len(loaded)
        BY <3>2
      <4> QED
        BY <4>1, <4>2, SeqMonotonic
    <3>7. 0 \in Byte
      BY DEF Byte
    <3> QED
      BY <3>1, <3>3, <3>4, <3>5, <3>6, <3>7 DEF IsBlock
  <2>2. /\ loaded = [i \in 1 .. Len(loaded) |-> loaded[i]] /\ Len(loaded) \in Nat \ {0}
    <3>1. loaded \in Seq(Range(loaded)) /\ Len(loaded) \in Nat \ {0}
      BY <1>1, ReadyIs
    <3> QED
      BY <3>1
  <2> QED
    BY <2>1, <2>2 DEF IsProgram
<1>2. ASSUME LoaderInv
      PROVE  \A x \in DOMAIN file :
               file[x][1] \in {"absent", "header", "string", "int", "char", "number", "words"}
  <2>1. CASE file = Absent
    BY <2>1 DEF Absent
  <2>2. CASE file # Absent
    <3>1. file \in Seq(ItemSet) /\ DOMAIN file = 1 .. Len(file)
      BY <1>2, <2>2, FileIs DEF LoaderInv
    <3>2. \A x \in 1 .. Len(file) : file[x] \in ItemSet
      BY <3>1, ElementOfSeq
    <3>3. \A i \in ItemSet : i[1] \in {"header", "string", "int", "char", "number", "words"}
      BY DEF ItemSet
    <3> QED
      BY <3>1, <3>2, <3>3
  <2> QED
    BY <2>1, <2>2
<1>3. ASSUME LoaderInv
      PROVE  TypeOK
  <2>1. /\ options \subseteq {"parse", "debug"} /\ phase \in Phases
        /\ open \in Seq([fn : 1 .. Len(src), at : Nat])
    BY <1>3 DEF LoaderInv, CompilerInv, GivenOK
  <2>2. \A j \in DOMAIN blocks : IsCompiled(blocks[j])
    BY <1>3, LenProperties DEF LoaderInv, CompilerInv, BlocksOK
  <2>3. /\ pos \in Nat \ {0} /\ stack \in Seq(1 .. Len(protos))
        /\ \A j \in DOMAIN protos : IsProto(protos[j])
    BY <1>3, CurIs DEF LoaderInv, Inv, ProtosOK
  <2> QED
    BY <1>1, <1>2, <1>3, <2>1, <2>2, <2>3 DEF TypeOK
<1> QED
  BY <1>3, LoaderInit, LoaderNext, PTL DEF Spec
=============================================================================
