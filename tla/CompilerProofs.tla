--------------------------- MODULE CompilerProofs ---------------------------
(***************************************************************************)
(* What bijouc has made of a source when it writes the file, and what it   *)
(* writes of it, for every source.                                         *)
(***************************************************************************)
EXTENDS AssemblyProofs, BytecodeProofs

\* The last function that begins inside each.
LastIn == CHOOSE last \in [1 .. Len(src) -> 1 .. Len(src)] : Numbers(src, last)

\* The last function that has begun when x entries of function j are read.
BegunAt(j, x) == Begun(src, LastIn, j, x)

\* The last function that begins inside the first c children of block j.
Reach(j, c) == IF c = 0 THEN j ELSE LastIn[blocks[j].children[c]]

Consts(j) == src[j].consts

\* The entries that are no nested functions.
Plain(j) == {x \in DOMAIN Consts(j) : ~IsNested(Consts(j)[x])}

\* A table made of the first n values has those of the places P where they were.
InPlace(k, P, values, n) ==
  /\ \A x \in 1 .. n : x \in P => x <= Len(k) /\ k[x] = values[x]
  /\ 1 .. n \subseteq P => Len(k) = n

\* The first n entries of a tidy function are where its code expects them.
Kept(j, n) ==
  TidyConsts(Consts(j)) => InPlace(blocks[j].k, Plain(j), Consts(j), n)

GivenOK ==
  /\ src \in Sources
  /\ options \subseteq {"parse", "debug"} /\ phase \in Phases
  /\ open \in Seq([fn : 1 .. Len(src), at : Nat])

BlockFields == {"source", "name", "line", "lastline", "regs", "globals", "params",
                "code", "k", "children"}

BlocksOK ==
  /\ blocks \in Seq(Range(blocks)) /\ Len(blocks) <= Len(src)
  /\ \A j \in 1 .. Len(blocks) : DOMAIN blocks[j] = BlockFields /\ IsCompiled(blocks[j])

\* A child begins where the one before it ended.
Chained ==
  \A j \in 1 .. Len(blocks) : \A c \in 1 .. Len(blocks[j].children) :
    /\ blocks[j].children[c] = Reach(j, c - 1) + 1
    /\ blocks[j].children[c] \in j + 1 .. Len(blocks)

\* The first n entries of block f are read and the functions of the first m have
\* ended.
CaughtUp(f, n, m) ==
  /\ f \in 1 .. Len(blocks) /\ n \in 0 .. Len(Consts(f))
  /\ Reach(f, Len(blocks[f].children)) = BegunAt(f, m)
  /\ Kept(f, n)

\* The functions being compiled, each nested in the one before it.
Nest ==
  /\ open # <<>> /\ open[1].fn = 1
  /\ \A i \in 1 .. Len(open) : \A f \in {open[i].fn}, n \in {open[i].at} :
       CaughtUp(f, n, IF i = Len(open) THEN n ELSE n - 1)
  /\ \A i \in 1 .. Len(open) - 1 : \A f \in {open[i].fn}, n \in {open[i].at} :
       n # 0 /\ Consts(f)[n] = Nested(open[i + 1].fn)
  /\ \A i, j \in 1 .. Len(open) : i < j => open[i].fn < open[j].fn
  /\ \A f \in {Last(open).fn}, n \in {Last(open).at} : Len(blocks) = BegunAt(f, n)

\* A function that is compiled has all its children.
Compiled(j) ==
  Reach(j, Len(blocks[j].children)) = LastIn[j] /\ Kept(j, Len(Consts(j)))

Progress ==
  /\ Nest
  /\ \A j \in 1 .. Len(blocks) : (\A i \in 1 .. Len(open) : open[i].fn # j) => Compiled(j)

Complete == Len(blocks) = Len(src) /\ \A j \in 1 .. Len(blocks) : Compiled(j)

\* The file is what bijouc has written so far.
Written ==
  \/ file \in {Absent, <<>>}
  \/ Complete /\ \E n \in 0 .. Len(Bytecode) : file = SubSeq(Bytecode, 1, n)

PhaseOK ==
  /\ phase = "start"     => open = <<>> /\ blocks = <<>> /\ file = Absent
  /\ phase = "compiling" => Progress /\ file \in {Absent, <<>>}
  /\ phase = "dumping"   => Complete
  /\ phase \in {"loading", "building", "ready"} => file # Absent

CompilerInv == GivenOK /\ BlocksOK /\ Chained /\ PhaseOK /\ Written

----------------------------------------------------------------------------
(* The source.                                                             *)

LEMMA SourceIs ==
  ASSUME src \in Sources
  PROVE  /\ Len(src) \in Nat \ {0}
         /\ LastIn \in [1 .. Len(src) -> 1 .. Len(src)] /\ Numbers(src, LastIn)
         /\ \A j \in 1 .. Len(src) : IsFunction(src[j], src)
         /\ DOMAIN src = 1 .. Len(src)
<1>1. IsSource(src) /\ InOrder(src)
  BY AssemblyAssumption
<1>2. LastIn \in [1 .. Len(src) -> 1 .. Len(src)] /\ Numbers(src, LastIn)
  <2>1. PICK last \in [1 .. Len(src) -> 1 .. Len(src)] : Numbers(src, last)
    BY <1>1 DEF InOrder
  <2> QED
    BY <2>1, Zenon DEF LastIn
<1> QED
  BY <1>1, <1>2 DEF IsSource

LEMMA EntryIs ==
  ASSUME src \in Sources, NEW j \in 1 .. Len(src)
  PROVE  /\ Len(Consts(j)) \in Nat
         /\ \A x \in 1 .. Len(Consts(j)) :
              LET e == Consts(j)[x]
              IN  /\ e \in ConstValue \cup {Refused} \cup {Nested(i) : i \in 2 .. Len(src)}
                  /\ e \in ConstValue => ~IsNested(e)
                  /\ IsNested(e) => e = Nested(e[2]) /\ e[2] \in 2 .. Len(src)
<1> DEFINE E == ConstValue \cup {Refused} \cup {Nested(i) : i \in 2 .. Len(src)}
<1>1. Consts(j) \in Seq(E)
  BY SourceIs DEF IsFunction, Consts
<1>2. \A e \in ConstValue : ~IsNested(e)
  BY DEF ConstValue, IsNested, Null
<1>3. ~IsNested(Refused)
  BY DEF Refused, IsNested
<1>4. \A e \in {Nested(i) : i \in 2 .. Len(src)} : e = Nested(e[2]) /\ e[2] \in 2 .. Len(src)
  BY DEF Nested
<1>5. Len(Consts(j)) \in Nat /\ \A x \in 1 .. Len(Consts(j)) : Consts(j)[x] \in E
  <2> HIDE DEF E
  <2> QED
    BY <1>1, LenProperties, ElementOfSeq
<1> QED
  BY <1>2, <1>3, <1>4, <1>5

\* What has begun when one entry more is read.
LEMMA BegunStep ==
  ASSUME src \in Sources, NEW j \in 1 .. Len(src)
  PROVE  /\ BegunAt(j, 0) = j
         /\ \A x \in 1 .. Len(Consts(j)) :
              BegunAt(j, x) = IF IsNested(Consts(j)[x]) THEN LastIn[Consts(j)[x][2]]
                                                      ELSE BegunAt(j, x - 1)
<1> DEFINE N(x) == NestedIn(src[j], x)
<1>1. N(0) = {}
  BY DEF NestedIn
<1>2. \A x : BegunAt(j, x) = IF N(x) = {} THEN j ELSE LastIn[Consts(j)[Max(N(x))][2]]
  BY DEF BegunAt, Begun, Consts
<1>3. ASSUME NEW x \in 1 .. Len(Consts(j)), IsNested(Consts(j)[x])
      PROVE  N(x) # {} /\ Max(N(x)) = x
  <2>1. x \in N(x) /\ \A y \in N(x) : y \in Int /\ x >= y
    BY <1>3 DEF NestedIn, Consts
  <2> HIDE DEF N
  <2>2. \E z \in N(x) : \A y \in N(x) : z >= y
    BY <2>1
  <2>3. Max(N(x)) \in N(x) /\ \A y \in N(x) : Max(N(x)) >= y
    BY <2>2, Zenon DEF Max
  <2>4. Max(N(x)) >= x /\ x >= Max(N(x)) /\ Max(N(x)) \in Int /\ x \in Int
    BY <2>1, <2>3
  <2>5. \A y, z \in Int : y >= z /\ z >= y => y = z
    OBVIOUS
  <2> QED
    BY <2>1, <2>4, <2>5
<1>4. ASSUME NEW x \in 1 .. Len(Consts(j)), ~IsNested(Consts(j)[x])
      PROVE  N(x) = N(x - 1)
  <2>1. \A y : y \in 1 .. x <=> y \in 1 .. x - 1 \/ y = x
    OBVIOUS
  <2> QED
    BY <1>4, <2>1 DEF NestedIn, Consts
<1> HIDE DEF N
<1> QED
  BY <1>1, <1>2, <1>3, <1>4

LEMMA NumbersAre ==
  ASSUME src \in Sources
  PROVE  /\ LastIn[1] = Len(src)
         /\ \A j \in 1 .. Len(src) :
              /\ LastIn[j] = BegunAt(j, Len(Consts(j)))
              /\ \A x \in 1 .. Len(Consts(j)) : IsNested(Consts(j)[x]) =>
                   Consts(j)[x] = Nested(BegunAt(j, x - 1) + 1)
<1>1. Numbers(src, LastIn)
  BY SourceIs
<1> QED
  BY <1>1 DEF Numbers, BegunAt, Consts, NestedIn

----------------------------------------------------------------------------
(* Constants.                                                              *)

\* Values that differ are never taken for equal.
LEMMA EqualIsSame ==
  ASSUME NEW v \in Constants, NEW w \in Constants, TRUE \in EqualResults(v, w)
  PROVE  v = w /\ w \in ConstValue
<1> USE DEF Tag, Payload, Junk
<1>1. v # Junk /\ w # Junk
  BY DEF Constants, ConstValue, Null, Function
<1>2. Tag(v) = Tag(w) /\ Tag(v) \in {"null", "number", "string", "boolean"}
  BY <1>1 DEF EqualResults
<1>3. v = w
  BY <1>1, <1>2 DEF EqualResults
<1>4. w \in ConstValue
  BY <1>2, <1>3 DEF Constants, Function
<1> QED
  BY <1>3, <1>4

\* A table grows by the value, or stays as it is because it has the value.
LEMMA PushConstIs ==
  ASSUME NEW S, S \subseteq Constants, NEW k \in Seq(S), NEW v \in S,
         NEW t \in PushConst(k, v)
  PROVE  /\ t \in Seq(S)
         /\ Len(k) <= Len(t) /\ \A x \in 1 .. Len(k) : t[x] = k[x]
         /\ \/ t = k /\ \E x \in 1 .. Len(k) : k[x] = v
            \/ t = Append(k, v) /\ Len(t) = Len(k) + 1 /\ t[Len(k) + 1] = v
<1>1. Len(k) \in Nat /\ DOMAIN k = 1 .. Len(k) /\ \A x \in 1 .. Len(k) : k[x] \in S
  BY LenProperties, ElementOfSeq
<1>2. \/ t = k /\ \E x \in DOMAIN k : TRUE \in EqualResults(k[x], v)
      \/ t = Append(k, v)
  BY DEF PushConst
<1>3. CASE t = k /\ \E x \in DOMAIN k : TRUE \in EqualResults(k[x], v)
  <2>1. PICK x \in 1 .. Len(k) : TRUE \in EqualResults(k[x], v)
    BY <1>1, <1>3
  <2>2. k[x] = v
    BY <1>1, <2>1, EqualIsSame
  <2>3. Len(k) <= Len(k)
    BY <1>1
  <2> QED
    BY <1>3, <2>2, <2>3
<1>4. CASE t = Append(k, v)
  <2>1. /\ Append(k, v) \in Seq(S) /\ Len(Append(k, v)) = Len(k) + 1
        /\ \A x \in 1 .. Len(k) : Append(k, v)[x] = k[x]
        /\ Append(k, v)[Len(k) + 1] = v
    BY AppendProperties
  <2> QED
    BY <1>1, <1>4, <2>1
<1> QED
  BY <1>2, <1>3, <1>4

\* No two of the first values are taken for equal.
Apart(P, values) ==
  \A y \in P : \A x \in 1 .. y - 1 : x \in P /\ values[x] # values[y]

LEMMA InPlaceStep ==
  ASSUME NEW S, S \subseteq Constants, NEW k \in Seq(S), NEW n \in Nat, NEW values,
         values[n + 1] \in S, NEW P, Apart(P, values), InPlace(k, P, values, n),
         NEW t \in PushConst(k, values[n + 1])
  PROVE  t \in Seq(S) /\ InPlace(t, P, values, n + 1)
<1>1. /\ t \in Seq(S) /\ Len(k) <= Len(t) /\ \A x \in 1 .. Len(k) : t[x] = k[x]
      /\ \/ t = k /\ \E x \in 1 .. Len(k) : k[x] = values[n + 1]
         \/ t = Append(k, values[n + 1]) /\ Len(t) = Len(k) + 1
              /\ t[Len(k) + 1] = values[n + 1]
  BY PushConstIs
<1>2. Len(k) \in Nat /\ Len(t) \in Nat
  BY <1>1, LenProperties
<1>3. \A x \in 1 .. n : x \in P => x <= Len(t) /\ t[x] = values[x]
  <2> TAKE x \in 1 .. n
  <2> HAVE x \in P
  <2>1. x <= Len(k) /\ k[x] = values[x]
    BY DEF InPlace
  <2> QED
    BY <1>1, <1>2, <2>1
<1>4. CASE n + 1 \in P
  <2>1. \A x \in 1 .. n : x \in P /\ values[x] # values[n + 1]
    BY <1>4 DEF Apart
  <2>2. Len(k) = n /\ \A x \in 1 .. n : k[x] = values[x]
    BY <2>1 DEF InPlace
  <2>3. Len(t) = n + 1 /\ t[n + 1] = values[n + 1]
    BY <1>1, <2>1, <2>2
  <2>4. ASSUME NEW x \in 1 .. n + 1, x \in P
        PROVE  x <= Len(t) /\ t[x] = values[x]
    <3>1. x \in 1 .. n \/ x = n + 1
      OBVIOUS
    <3> QED
      BY <1>3, <2>3, <2>4, <3>1
  <2> QED
    BY <1>1, <2>3, <2>4 DEF InPlace
<1>5. CASE n + 1 \notin P
  <2>1. ~(1 .. n + 1 \subseteq P) /\ \A x \in 1 .. n + 1 : x \in P => x \in 1 .. n
    BY <1>5
  <2> QED
    BY <1>1, <1>3, <2>1 DEF InPlace
<1> QED
  BY <1>4, <1>5

\* A table made of values that are apart has each where it was.
LEMMA PushedInPlace ==
  ASSUME NEW S, S \subseteq Constants, NEW values \in Seq(S), NEW P, Apart(P, values)
  PROVE  \A n \in 0 .. Len(values) : \A k \in Pushed(values)[n] :
           k \in Seq(S) /\ InPlace(k, P, values, n)
<1>1. Len(values) \in Nat /\ \A n \in 1 .. Len(values) : values[n] \in S
  BY LenProperties, ElementOfSeq
<1>2. PICK N : N = Len(values)
  OBVIOUS
<1> DEFINE T == {n \in 0 .. N : \A k \in Pushed(values)[n] :
                   k \in Seq(S) /\ InPlace(k, P, values, n)}
<1>3. 0 \in T
  <2>1. Pushed(values)[0] = {<<>>}
    BY <1>1, PushedStep
  <2>2. <<>> \in Seq(S) /\ InPlace(<<>>, P, values, 0)
    BY EmptySeq DEF InPlace
  <2>3. 0 \in 0 .. N
    BY <1>1, <1>2
  <2>4. \A k \in Pushed(values)[0] : k \in Seq(S) /\ InPlace(k, P, values, 0)
    BY <2>1, <2>2
  <2> QED
    BY <2>3, <2>4
<1>4. ASSUME NEW n \in 0 .. N - 1, n \in T
      PROVE  n + 1 \in T
  <2>1. n + 1 \in 1 .. N /\ n + 1 \in 0 .. N /\ n + 1 - 1 = n /\ n \in Nat
    BY <1>1, <1>2
  <2>2. ASSUME NEW t \in Pushed(values)[n + 1]
        PROVE  t \in Seq(S) /\ InPlace(t, P, values, n + 1)
    <3>1. PICK m : m = n + 1
      OBVIOUS
    <3>2. PICK k \in Pushed(values)[m - 1] : t \in PushConst(k, values[m])
      BY <1>1, <1>2, <2>1, <3>1, PushedStep
    <3>3. k \in Seq(S) /\ InPlace(k, P, values, n) /\ values[n + 1] \in S
      BY <1>1, <1>2, <1>4, <2>1, <3>1, <3>2
    <3> QED
      BY <2>1, <3>1, <3>2, <3>3, InPlaceStep
  <2> QED
    BY <2>1, <2>2
<1>5. 0 .. N \subseteq T
  <2> HIDE DEF T
  <2> QED
    BY <1>1, <1>2, <1>3, <1>4, InductionUpTo
<1> QED
  BY <1>2, <1>5

LEMMA TidyIsApart ==
  ASSUME src \in Sources, NEW j \in 1 .. Len(src), TidyConsts(Consts(j))
  PROVE  /\ Apart(Plain(j), Consts(j))
         /\ \A y \in Plain(j) : \A x \in 1 .. y - 1 :
              Decoded(Consts(j)[x]) # Decoded(Consts(j)[y])
<1>1. DOMAIN Consts(j) = 1 .. Len(Consts(j)) /\ Len(Consts(j)) \in Nat
  <2>1. Consts(j) \in Seq(ConstValue \cup {Refused} \cup {Nested(i) : i \in 2 .. Len(src)})
    BY SourceIs DEF IsFunction, Consts
  <2> QED
    BY <2>1, LenProperties
<1>2. ASSUME NEW y \in Plain(j), NEW x \in 1 .. y - 1
      PROVE  x \in Plain(j) /\ Decoded(Consts(j)[x]) # Decoded(Consts(j)[y])
  <2>1. y \in DOMAIN Consts(j) /\ ~IsNested(Consts(j)[y])
    BY DEF Plain
  <2>2. x \in DOMAIN Consts(j) /\ x < y
    BY <1>1, <2>1
  <2> QED
    BY <2>1, <2>2 DEF TidyConsts, Plain
<1>3. ASSUME NEW y \in Plain(j), NEW x \in 1 .. y - 1
      PROVE  Consts(j)[x] # Consts(j)[y]
  BY <1>2
<1> QED
  BY <1>2, <1>3 DEF Apart

----------------------------------------------------------------------------
(* What a step leaves as it is.                                            *)

LEMMA SameSource ==
  ASSUME src' = src
  PROVE  /\ LastIn' = LastIn /\ \A j, x : BegunAt(j, x)' = BegunAt(j, x)
         /\ \A j : Consts(j)' = Consts(j) /\ Plain(j)' = Plain(j)
<1>1. LastIn' = LastIn
  BY DEF LastIn, Numbers, Begun, NestedIn
<1>2. \A j : Consts(j)' = Consts(j)
  BY DEF Consts
<1> QED
  BY <1>1, <1>2 DEF BegunAt, Plain, Begun

LEMMA SameBlock ==
  ASSUME src' = src, NEW j, blocks'[j] = blocks[j]
  PROVE  /\ \A c : Reach(j, c)' = Reach(j, c)
         /\ \A n : Kept(j, n)' = Kept(j, n)
         /\ Compiled(j)' = Compiled(j)
         /\ \A n, m : Len(blocks) <= Len(blocks') /\ Len(blocks) \in Nat
                        /\ Len(blocks') \in Nat /\ CaughtUp(j, n, m) => CaughtUp(j, n, m)'
<1>1. \A c : Reach(j, c)' = Reach(j, c)
  BY SameSource DEF Reach
<1>2. \A n : Kept(j, n)' = Kept(j, n)
  BY SameSource DEF Kept
<1>3. \A n, m : Len(blocks) <= Len(blocks') /\ Len(blocks) \in Nat
                  /\ Len(blocks') \in Nat /\ CaughtUp(j, n, m) => CaughtUp(j, n, m)'
  BY <1>1, <1>2, SameSource DEF CaughtUp
<1>4. Kept(j, Len(Consts(j)))' = Kept(j, Len(Consts(j)))
  BY SameSource DEF Kept
<1> QED
  BY <1>1, <1>2, <1>3, <1>4, SameSource DEF Compiled

\* The loader and the end of a process change nothing that is compiled.
LEMMA NothingCompiled ==
  ASSUME CompilerInv, UNCHANGED <<given, compiling, file>>,
         phase' \in Phases \ {"start", "compiling", "dumping"},
         phase' \in {"loading", "building", "ready"} => file # Absent
  PROVE  CompilerInv'
<1>1. src' = src /\ options' = options /\ open' = open /\ blocks' = blocks /\ file' = file
  BY DEF given, compiling
<1>2. GivenOK' /\ BlocksOK'
  BY <1>1 DEF CompilerInv, GivenOK, BlocksOK, IsCompiled
<1>3. Chained'
  BY <1>1, SameBlock, ZenonT(30) DEF CompilerInv, Chained
<1>4. Written'
  <2>1. Bytecode' = Bytecode
    BY <1>1 DEF Bytecode
  <2>2. Complete' = Complete
    BY <1>1, SameBlock DEF Complete
  <2> QED
    BY <1>1, <2>1, <2>2 DEF CompilerInv, Written, Absent
<1>5. PhaseOK'
  BY <1>1 DEF PhaseOK, Absent
<1> QED
  BY <1>2, <1>3, <1>4, <1>5 DEF CompilerInv

\* The function that is being compiled.
LEMMA TopIs ==
  ASSUME CompilerInv, phase = "compiling"
  PROVE  /\ Nest /\ Progress /\ file \in {Absent, <<>>} /\ src \in Sources
         /\ Len(open) \in Nat /\ Len(open) \in 1 .. Len(open)
         /\ Last(open) = open[Len(open)] /\ Fn = open[Len(open)].fn
         /\ Len(blocks) \in Nat /\ DOMAIN blocks = 1 .. Len(blocks) /\ Len(src) \in Nat
         /\ \A i \in 1 .. Len(open) :
              /\ open[i] = [fn |-> open[i].fn, at |-> open[i].at]
              /\ open[i].at \in Nat
              /\ open[i].fn \in 1 .. Len(blocks) /\ open[i].fn \in 1 .. Len(src)
         /\ \A j \in 1 .. Len(blocks) : j \in 1 .. Len(src)
         /\ \A j \in 1 .. Len(src) : Len(Consts(j)) \in Nat
         /\ Last(open).at \in 0 .. Len(Consts(Fn))
         /\ ReadingConsts =>
              Last(open).at + 1 \in 1 .. Len(Consts(Fn)) /\ Entry = Consts(Fn)[Last(open).at + 1]
<1>1. Nest /\ Progress /\ file \in {Absent, <<>>} /\ src \in Sources
  BY DEF CompilerInv, PhaseOK, Progress, GivenOK
<1>2. open \in Seq([fn : 1 .. Len(src), at : Nat]) /\ open # <<>>
  BY <1>1 DEF CompilerInv, GivenOK, Nest
<1>3. /\ Len(open) \in Nat /\ Len(open) \in 1 .. Len(open)
      /\ Last(open) = open[Len(open)] /\ Fn = open[Len(open)].fn
  BY <1>2, LastOf, LenProperties DEF Fn
<1>4. Len(blocks) \in Nat /\ DOMAIN blocks = 1 .. Len(blocks) /\ Len(src) \in Nat
      /\ Len(blocks) <= Len(src)
  BY <1>1, SourceIs, LenProperties DEF CompilerInv, BlocksOK
<1>5. \A j \in 1 .. Len(blocks) : j \in 1 .. Len(src)
  BY <1>4
<1>6. \A i \in 1 .. Len(open) :
        /\ open[i] = [fn |-> open[i].fn, at |-> open[i].at]
        /\ open[i].at \in Nat
        /\ open[i].fn \in 1 .. Len(blocks) /\ open[i].fn \in 1 .. Len(src)
  <2>1. \A i \in 1 .. Len(open) : open[i] \in [fn : 1 .. Len(src), at : Nat]
    BY <1>2, ElementOfSeq
  <2> QED
    BY <1>1, <2>1 DEF Nest, CaughtUp
<1>7. \A j \in 1 .. Len(src) : Len(Consts(j)) \in Nat
  BY <1>1, EntryIs
<1>8. Last(open).at \in 0 .. Len(Consts(Fn))
  BY <1>1, <1>3 DEF Nest, CaughtUp
<1>9. ReadingConsts =>
        Last(open).at + 1 \in 1 .. Len(Consts(Fn)) /\ Entry = Consts(Fn)[Last(open).at + 1]
  <2>1. Len(Consts(Fn)) \in Nat
    BY <1>3, <1>6, <1>7
  <2> QED
    BY <1>8, <2>1 DEF ReadingConsts, Entry, Consts
<1> QED
  BY <1>1, <1>3, <1>4, <1>5, <1>6, <1>7, <1>8, <1>9

\* One entry more is read.
LEMMA PastEntryIs ==
  ASSUME CompilerInv, phase = "compiling"
  PROVE  /\ PastEntry \in Seq([fn : 1 .. Len(src), at : Nat])
         /\ Len(PastEntry) = Len(open) /\ PastEntry # <<>>
         /\ PastEntry[Len(open)] = [fn |-> Fn, at |-> Last(open).at + 1]
         /\ \A i \in 1 .. Len(open) - 1 : PastEntry[i] = open[i]
<1> DEFINE T == [fn : 1 .. Len(src), at : Nat]
           L == Len(open)
           e == [fn |-> Fn, at |-> Last(open).at + 1]
<1>1. open \in Seq(T) /\ L \in Nat /\ L \in 1 .. L
  BY TopIs DEF CompilerInv, GivenOK
<1>2. open[L] = [fn |-> Fn, at |-> Last(open).at] /\ e \in T
  BY TopIs
<1>3. PastEntry = [open EXCEPT ![L] = e]
  <2>1. [open[L] EXCEPT !.at = Last(open).at + 1] = e
    BY <1>2
  <2>2. open[L].at = Last(open).at
    BY <1>2
  <2>3. PastEntry = [open EXCEPT ![L] = [open[L] EXCEPT !.at = open[L].at + 1]]
    BY DEF PastEntry
  <2> QED
    BY <2>1, <2>2, <2>3
<1> HIDE DEF T, L, e
<1>4. /\ PastEntry \in Seq(T) /\ Len(PastEntry) = L
      /\ \A i \in 1 .. L : PastEntry[i] = IF i = L THEN e ELSE open[i]
  BY <1>1, <1>2, <1>3, ExceptSeq DEF L
<1>5. \A i \in 1 .. L - 1 : i \in 1 .. L /\ i # L
  BY <1>1
<1>6. PastEntry # <<>>
  BY <1>1, <1>4, EmptySeq
<1> QED
  BY <1>1, <1>4, <1>5, <1>6 DEF T, L, e

----------------------------------------------------------------------------
(* The steps of the compiler.                                              *)

\* What a table of constants may hold before it is loaded.
TableValues == ConstValue \cup {Function(<<"block", j>>) : j \in 2 .. Len(src)}

LEMMA TableValuesAre == Len(src) \in Nat => TableValues \subseteq Constants
<1> SUFFICES ASSUME Len(src) \in Nat, NEW j \in 2 .. Len(src)
             PROVE  Function(<<"block", j>>) \in Constants
  BY DEF TableValues, Constants
<1>1. <<"block", j>> \in {"block"} \X Nat
  OBVIOUS
<1> QED
  BY <1>1 DEF Constants

\* The table or the children of one block change.
LEMMA OneBlock ==
  ASSUME CompilerInv, src' = src, Len(src) \in Nat, NEW f \in 1 .. Len(blocks), NEW e,
         blocks' = [blocks EXCEPT ![f] = e], DOMAIN e = BlockFields,
         \A x \in BlockFields \ {"k", "children"} : e[x] = blocks[f][x],
         e.k \in Seq(TableValues), e.children \in Seq(2 .. Len(src)),
         Len(e.children) < CountSize
  PROVE  /\ BlocksOK' /\ Len(blocks') = Len(blocks) /\ blocks'[f] = e
         /\ \A j \in 1 .. Len(blocks) : j # f => blocks'[j] = blocks[j]
<1>1. blocks \in Seq(Range(blocks)) /\ Len(blocks) <= Len(src) /\ DOMAIN blocks = 1 .. Len(blocks)
  BY LenProperties DEF CompilerInv, BlocksOK
<1>2. /\ blocks' \in Seq(Range(blocks')) /\ Len(blocks') = Len(blocks)
      /\ blocks'[f] = e /\ \A j \in 1 .. Len(blocks) : j # f => blocks'[j] = blocks[j]
  BY <1>1, Replaced
<1>3. /\ e.source = blocks[f].source /\ e.name = blocks[f].name /\ e.line = blocks[f].line
      /\ e.lastline = blocks[f].lastline /\ e.regs = blocks[f].regs
      /\ e.globals = blocks[f].globals /\ e.params = blocks[f].params
      /\ e.code = blocks[f].code
  BY DEF BlockFields
<1>4. DOMAIN blocks[f] = BlockFields /\ IsCompiled(blocks[f])
  BY DEF CompilerInv, BlocksOK
<1>5. IsCompiled(blocks[f])'
  BY <1>2, <1>3, <1>4 DEF IsCompiled, TableValues
<1>6. \A j \in 1 .. Len(blocks) : DOMAIN blocks'[j] = BlockFields /\ IsCompiled(blocks[j])'
  <2> TAKE j \in 1 .. Len(blocks)
  <2>1. CASE j = f
    BY <1>2, <1>5, <2>1
  <2>2. CASE j # f
    <3>1. DOMAIN blocks[j] = BlockFields /\ IsCompiled(blocks[j]) /\ blocks'[j] = blocks[j]
      BY <1>2, <2>2 DEF CompilerInv, BlocksOK
    <3> QED
      BY <3>1 DEF IsCompiled
  <2> QED
    BY <2>1, <2>2
<1> QED
  BY <1>1, <1>2, <1>6 DEF BlocksOK

\* A constant joins the table of the function that is compiled.
LEMMA CompileConstStep ==
  ASSUME CompilerInv, CompileConst
  PROVE  CompilerInv'
<1>1. /\ phase = "compiling" /\ phase' = phase /\ file' = file /\ src' = src
      /\ options' = options /\ open' = PastEntry
  BY DEF CompileConst, ReadingConsts, given
<1>2. PICK f, n, L : f = Fn /\ n = Last(open).at /\ L = Len(open)
  OBVIOUS
<1>3. PICK k \in PushConst(blocks[f].k, Entry) : blocks' = [blocks EXCEPT ![f].k = k]
  BY <1>2 DEF CompileConst
<1>4. /\ f \in 1 .. Len(blocks) /\ f \in 1 .. Len(src) /\ L \in Nat /\ L \in 1 .. L
      /\ f = open[L].fn /\ n = open[L].at /\ n \in Nat
      /\ n + 1 \in 1 .. Len(Consts(f)) /\ Entry = Consts(f)[n + 1] /\ Entry \in ConstValue
      /\ Len(Consts(f)) \in Nat /\ src \in Sources /\ file \in {Absent, <<>>}
      /\ Nest /\ Progress /\ Len(blocks) \in Nat /\ Len(src) \in Nat
      /\ DOMAIN blocks = 1 .. Len(blocks)
  <2>1. ReadingConsts /\ Entry \in ConstValue
    BY DEF CompileConst
  <2>2. /\ f \in 1 .. Len(blocks) /\ f \in 1 .. Len(src) /\ L \in Nat /\ L \in 1 .. L
        /\ f = open[L].fn /\ n = open[L].at /\ n \in Nat
    BY <1>1, <1>2, TopIs
  <2> QED
    BY <1>1, <1>2, <2>1, <2>2, TopIs
<1>5. /\ DOMAIN blocks[f] = BlockFields /\ IsCompiled(blocks[f])
      /\ blocks[f].k \in Seq(TableValues) /\ blocks[f].children \in Seq(2 .. Len(src))
      /\ Len(blocks[f].children) < CountSize
  BY <1>4 DEF CompilerInv, BlocksOK, IsCompiled, TableValues
<1>6. PICK e : e = [blocks[f] EXCEPT !.k = k]
  OBVIOUS
<1>7. /\ blocks' = [blocks EXCEPT ![f] = e] /\ DOMAIN e = BlockFields /\ e.k = k
      /\ \A x \in BlockFields \ {"k"} : e[x] = blocks[f][x]
      /\ e.children = blocks[f].children
  BY <1>3, <1>5, <1>6 DEF BlockFields
<1>8. /\ k \in Seq(TableValues)
      /\ TidyConsts(Consts(f)) /\ InPlace(blocks[f].k, Plain(f), Consts(f), n) =>
           InPlace(k, Plain(f), Consts(f), n + 1)
  <2>1. Entry \in TableValues
    BY <1>4 DEF TableValues
  <2>2. k \in Seq(TableValues)
    BY <1>3, <1>4, <1>5, <2>1, TableValuesAre, PushConstIs
  <2>3. ASSUME TidyConsts(Consts(f)), InPlace(blocks[f].k, Plain(f), Consts(f), n)
        PROVE  InPlace(k, Plain(f), Consts(f), n + 1)
    BY <1>3, <1>4, <1>5, <2>1, <2>3, TableValuesAre, TidyIsApart, InPlaceStep
  <2> QED
    BY <2>2, <2>3
<1>9. /\ BlocksOK' /\ Len(blocks') = Len(blocks) /\ blocks'[f] = e
      /\ \A j \in 1 .. Len(blocks) : j # f => blocks'[j] = blocks[j]
  <2>1. \A x \in BlockFields \ {"k", "children"} : e[x] = blocks[f][x]
    BY <1>7
  <2> QED
    BY <1>1, <1>4, <1>5, <1>7, <1>8, <2>1, OneBlock
<1>10. \A j \in 1 .. Len(blocks) : /\ blocks'[j].children = blocks[j].children
                                  /\ \A c : Reach(j, c)' = Reach(j, c)
  <2>1. \A j \in 1 .. Len(blocks) : blocks'[j].children = blocks[j].children
    BY <1>7, <1>9
  <2> QED
    BY <1>1, <2>1, SameSource DEF Reach
<1>11. Chained'
  BY <1>9, <1>10 DEF CompilerInv, Chained
<1>12. /\ open' \in Seq([fn : 1 .. Len(src), at : Nat]) /\ Len(open') = L /\ open' # <<>>
       /\ open'[L] = [fn |-> f, at |-> n + 1]
       /\ \A i \in 1 .. L - 1 : open'[i] = open[i]
  BY <1>1, <1>2, PastEntryIs
<1>13. BegunAt(f, n + 1) = BegunAt(f, n)
  <2>1. ~IsNested(Consts(f)[n + 1])
    BY <1>4, EntryIs
  <2> QED
    BY <1>4, <2>1, BegunStep
<1>14. \A i \in 1 .. L : i = L \/ i \in 1 .. L - 1
  BY <1>4
<1>15. /\ \A i \in 1 .. L : open'[i].fn = open[i].fn
       /\ open'[L].at = n + 1 /\ \A i \in 1 .. L - 1 : open'[i].at = open[i].at
  BY <1>4, <1>12, <1>14
<1>16. CaughtUp(f, n, n) /\ Len(blocks) = BegunAt(f, n)
  <2>1. Len(blocks) = BegunAt(f, n)
    BY <1>2, <1>4 DEF Nest, Fn
  <2>2. CaughtUp(f, n, IF L = Len(open) THEN n ELSE n - 1)
    BY <1>2, <1>4 DEF Nest
  <2> QED
    BY <1>2, <2>1, <2>2
<1>17. CaughtUp(f, n + 1, n + 1)'
  <2>1. f \in 1 .. Len(blocks') /\ n + 1 \in 0 .. Len(Consts(f)')
    BY <1>1, <1>4, <1>9, SameSource
  <2>2. Reach(f, Len(blocks[f].children))' = BegunAt(f, n + 1)'
    <3>1. Reach(f, Len(blocks[f].children)) = BegunAt(f, n)
      BY <1>16 DEF CaughtUp
    <3>2. Reach(f, Len(blocks[f].children))' = Reach(f, Len(blocks[f].children))
      BY <1>1, <1>4, <1>10, SameSource DEF Reach
    <3> QED
      BY <1>1, <1>13, <3>1, <3>2, SameSource
  <2>3. Kept(f, n + 1)'
    BY <1>1, <1>4, <1>7, <1>8, <1>9, <1>16, SameSource, ZenonT(30) DEF CaughtUp, Kept
  <2> QED
    BY <2>1, <2>2, <2>3 DEF CaughtUp
<1>18. ASSUME NEW i \in 1 .. L - 1, NEW g \in {open[i].fn}, NEW m \in {open[i].at}
       PROVE  /\ CaughtUp(g, m, m - 1)'
              /\ m # 0 /\ Consts(g)'[m] = Nested(open'[i + 1].fn)
  <2>1. i \in 1 .. L /\ i + 1 \in 1 .. L /\ i < L /\ i # L
    BY <1>4
  <2>2. /\ CaughtUp(g, m, m - 1) /\ m # 0 /\ Consts(g)[m] = Nested(open[i + 1].fn)
        /\ g < f
    BY <1>2, <1>4, <2>1 DEF Nest
  <2>3. g \in 1 .. Len(blocks) /\ g # f
    BY <1>4, <2>2 DEF CaughtUp
  <2> QED
    BY <1>1, <1>4, <1>9, <1>15, <2>1, <2>2, <2>3, SameSource, SameBlock
<1>19. Nest'
  <2>1. open'[1].fn = 1
    BY <1>2, <1>4, <1>15 DEF Nest
  <2>2. ASSUME NEW i \in 1 .. L, NEW g \in {open'[i].fn}, NEW m \in {open'[i].at}
        PROVE  CaughtUp(g, m, IF i = L THEN m ELSE m - 1)'
    BY <1>4, <1>14, <1>15, <1>17, <1>18
  <2>3. ASSUME NEW i \in 1 .. L - 1, NEW g \in {open'[i].fn}, NEW m \in {open'[i].at}
        PROVE  m # 0 /\ Consts(g)'[m] = Nested(open'[i + 1].fn)
    <3>1. i \in 1 .. L
      BY <1>4
    <3> QED
      BY <1>15, <1>18, <3>1
  <2>4. \A i, j \in 1 .. L : i < j => open'[i].fn < open'[j].fn
    BY <1>2, <1>4, <1>15 DEF Nest
  <2>5. \A g \in {Last(open').fn}, m \in {Last(open').at} : Len(blocks') = BegunAt(g, m)'
    BY <1>1, <1>4, <1>9, <1>12, <1>13, <1>15, <1>16, SameSource DEF Last
  <2> QED
    BY <1>12, <2>1, <2>2, <2>3, <2>4, <2>5 DEF Nest
<1>20. ASSUME NEW j \in 1 .. Len(blocks), \A i \in 1 .. L : open'[i].fn # j
       PROVE  Compiled(j)'
  <2>1. \A i \in 1 .. L : open[i].fn # j
    BY <1>15, <1>20
  <2>2. Compiled(j) /\ j # f
    BY <1>2, <1>4, <2>1 DEF Progress
  <2> QED
    BY <1>1, <1>9, <2>2, SameBlock
<1>21. Progress'
  BY <1>9, <1>12, <1>19, <1>20 DEF Progress
<1>22. GivenOK' /\ PhaseOK' /\ Written'
  BY <1>1, <1>4, <1>12, <1>21 DEF CompilerInv, GivenOK, PhaseOK, Written, Absent
<1> QED
  BY <1>9, <1>11, <1>22 DEF CompilerInv

LEMMA NewBlocksAre ==
  ASSUME src \in Sources, NEW j \in 1 .. Len(src), NEW b \in NewBlocks(j)
  PROVE  /\ DOMAIN b = BlockFields /\ IsCompiled(b)
         /\ b.k = <<>> /\ b.children = <<>>
<1>1. IsFunction(src[j], src)
  BY SourceIs
<1>2. ASSUME NEW n \in Nat \cup {Unset}, NEW d, d \subseteq Byte
      PROVE  Stored(n, d) \subseteq Byte
  BY <1>2 DEF Stored, Byte
<1>3. {0} \subseteq Byte /\ Garbage \subseteq Byte /\ {FileName, ""} \subseteq Strings
  <2>1. {0} \subseteq Byte
    BY DEF Byte
  <2> QED
    BY <2>1, AssemblyAssumption
<1>4. /\ src[j].regs \in Nat \cup {Unset} /\ src[j].globals \in Nat \cup {Unset}
      /\ src[j].params \in Nat \cup {Unset} /\ src[j].name \in Strings
      /\ src[j].code \in Seq(Instruction)
  BY <1>1 DEF IsFunction
<1>5. /\ Stored(src[j].regs, {0}) \subseteq Byte
      /\ Stored(src[j].globals, Garbage) \subseteq Byte
      /\ Stored(src[j].params, Garbage) \subseteq Byte
  BY <1>2, <1>3, <1>4
<1>6. /\ DOMAIN b = BlockFields
      /\ b.source \in {IF j = 1 THEN FileName ELSE ""} /\ b.name \in {src[j].name}
      /\ b.line \in Lines /\ b.lastline \in Lines
      /\ b.regs \in Stored(src[j].regs, {0}) /\ b.globals \in Stored(src[j].globals, Garbage)
      /\ b.params \in Stored(src[j].params, Garbage)
      /\ b.code \in {src[j].code} /\ b.k \in {<<>>} /\ b.children \in {<<>>}
  BY DEF NewBlocks, BlockFields
<1>7. b.k \in Seq(ConstValue \cup {Function(<<"block", i>>) : i \in 2 .. Len(src)})
  BY <1>6, EmptySeq
<1>8. b.children \in Seq(2 .. Len(src)) /\ Len(b.children) < CountSize
  <2>1. b.children = <<>>
    BY <1>6
  <2>2. CountSize \in Nat \ {0}
    BY AssemblyAssumption
  <2>3. Len(<<>>) < CountSize /\ <<>> \in Seq(2 .. Len(src))
    BY <2>2
  <2> QED
    BY <2>1, <2>3
<1>9. b.source \in Strings /\ b.name \in Strings /\ {b.regs, b.globals, b.params} \subseteq Byte
  BY <1>3, <1>4, <1>5, <1>6
<1> QED
  BY <1>4, <1>6, <1>7, <1>8, <1>9 DEF IsCompiled

\* A block joins the ones that have begun.
LEMMA BlockMore ==
  ASSUME CompilerInv, src' = src, src \in Sources, Len(blocks) \in Nat,
         Len(blocks) + 1 \in 1 .. Len(src), NEW b \in NewBlocks(Len(blocks) + 1),
         blocks' = Append(blocks, b)
  PROVE  /\ BlocksOK' /\ Chained' /\ Len(blocks') = Len(blocks) + 1
         /\ blocks'[Len(blocks) + 1] = b
         /\ \A j \in 1 .. Len(blocks) : blocks'[j] = blocks[j]
<1>1. /\ blocks' \in Seq(Range(blocks')) /\ Len(blocks') = Len(blocks) + 1
      /\ blocks'[Len(blocks) + 1] = b
      /\ \A j \in 1 .. Len(blocks) : blocks'[j] = blocks[j]
  <2>1. blocks \in Seq(Range(blocks)) /\ DOMAIN blocks = 1 .. Len(blocks)
    BY LenProperties DEF CompilerInv, BlocksOK
  <2> QED
    BY <2>1, Grown
<1>2. /\ DOMAIN b = BlockFields /\ IsCompiled(b) /\ b.children = <<>>
  BY NewBlocksAre
<1>3. \A j \in 1 .. Len(blocks') : j \in 1 .. Len(blocks) \/ j = Len(blocks) + 1
  BY <1>1
<1>4. ASSUME NEW j \in 1 .. Len(blocks')
      PROVE  DOMAIN blocks'[j] = BlockFields /\ IsCompiled(blocks[j])'
  <2>1. CASE j = Len(blocks) + 1
    BY <1>1, <1>2, <2>1 DEF IsCompiled
  <2>2. CASE j \in 1 .. Len(blocks)
    <3>1. DOMAIN blocks[j] = BlockFields /\ IsCompiled(blocks[j])
      BY <2>2 DEF CompilerInv, BlocksOK
    <3> QED
      BY <1>1, <2>2, <3>1 DEF IsCompiled
  <2> QED
    BY <1>3, <2>1, <2>2
<1>5. BlocksOK'
  BY <1>1, <1>4 DEF BlocksOK
<1>6. ASSUME NEW j \in 1 .. Len(blocks'), NEW c \in 1 .. Len(blocks'[j].children)
      PROVE  /\ blocks'[j].children[c] = Reach(j, c - 1)' + 1
             /\ blocks'[j].children[c] \in j + 1 .. Len(blocks')
  <2>1. CASE j = Len(blocks) + 1
    <3>1. Len(blocks'[j].children) = 0
      BY <1>1, <1>2, <2>1, EmptySeq
    <3> QED
      BY <3>1
  <2>2. CASE j \in 1 .. Len(blocks)
    <3>1. /\ blocks[j].children[c] = Reach(j, c - 1) + 1
          /\ blocks[j].children[c] \in j + 1 .. Len(blocks) /\ blocks'[j] = blocks[j]
      BY <1>1, <1>6, <2>2 DEF CompilerInv, Chained
    <3>2. Reach(j, c - 1)' = Reach(j, c - 1)
      BY <3>1, SameBlock
    <3>3. \A x \in j + 1 .. Len(blocks) : x \in j + 1 .. Len(blocks')
      BY <1>1
    <3> QED
      BY <3>1, <3>2, <3>3
  <2> QED
    BY <1>3, <2>1, <2>2
<1>7. Chained'
  BY <1>6 DEF Chained
<1> QED
  BY <1>1, <1>5, <1>7

\* A block that begins has caught up with its source.
LEMMA NewIsCaughtUp ==
  ASSUME src' = src, src \in Sources, NEW j \in 1 .. Len(src), j \in 1 .. Len(blocks'),
         blocks'[j].k = <<>>, blocks'[j].children = <<>>
  PROVE  CaughtUp(j, 0, 0)' /\ BegunAt(j, 0)' = j
<1>1. Len(Consts(j)) \in Nat /\ BegunAt(j, 0) = j
  BY EntryIs, BegunStep
<1>2. 0 \in 0 .. Len(Consts(j)')
  BY <1>1, SameSource
<1>3. Reach(j, Len(blocks[j].children))' = BegunAt(j, 0)' /\ BegunAt(j, 0)' = j
  <2>1. Len(<<>>) = 0
    OBVIOUS
  <2> QED
    BY <1>1, <2>1, SameSource DEF Reach
<1>4. Kept(j, 0)'
  BY SameSource DEF Kept, InPlace
<1> QED
  BY <1>2, <1>3, <1>4 DEF CaughtUp

\* Compilation begins with the main function.
LEMMA StartStep ==
  ASSUME CompilerInv, Start
  PROVE  CompilerInv'
<1>1. /\ phase = "start" /\ src' = src /\ options' = options /\ file' \in {Absent, <<>>}
      /\ open = <<>> /\ blocks = <<>> /\ file = Absent
  BY DEF CompilerInv, PhaseOK, Start, given
<1>2. CASE phase' = "failed" /\ UNCHANGED compiling
  <2>1. open' = open /\ blocks' = blocks
    BY <1>2 DEF compiling
  <2>2. GivenOK' /\ BlocksOK' /\ Written'
    BY <1>1, <1>2, <2>1 DEF CompilerInv, GivenOK, BlocksOK, IsCompiled, Written, Absent, Phases
  <2>3. Chained'
    BY <1>1, <2>1, SameBlock DEF CompilerInv, Chained
  <2>4. PhaseOK'
    BY <1>2 DEF PhaseOK
  <2> QED
    BY <2>2, <2>3, <2>4 DEF CompilerInv
<1>3. CASE phase' = "compiling" /\ open' = <<[fn |-> 1, at |-> 0]>>
           /\ \E b \in NewBlocks(1) : blocks' = <<b>>
  <2>1. src \in Sources /\ 1 \in 1 .. Len(src) /\ Len(blocks) = 0
    BY <1>1, SourceIs DEF CompilerInv, GivenOK
  <2>2. PICK b \in NewBlocks(1) : blocks' = Append(blocks, b)
    BY <1>1, <1>3
  <2>3. /\ BlocksOK' /\ Chained' /\ Len(blocks') = 1 /\ blocks'[1] = b
    BY <1>1, <2>1, <2>2, BlockMore
  <2>4. b.k = <<>> /\ b.children = <<>>
    BY <2>1, NewBlocksAre
  <2>5. CaughtUp(1, 0, 0)' /\ BegunAt(1, 0)' = 1
    BY <1>1, <2>1, <2>3, <2>4, NewIsCaughtUp
  <2>6. /\ open' # <<>> /\ Len(open') = 1 /\ open'[1].fn = 1 /\ open'[1].at = 0
        /\ Last(open') = open'[1]
        /\ open' \in Seq([fn : 1 .. Len(src), at : Nat])
    BY <1>3, <2>1 DEF Last
  <2>7. Nest'
    <3>1. ASSUME NEW i \in 1 .. Len(open'), NEW f \in {open'[i].fn}, NEW n \in {open'[i].at}
          PROVE  CaughtUp(f, n, IF i = Len(open) THEN n ELSE n - 1)'
      BY <2>5, <2>6
    <3>2. 1 .. Len(open') - 1 = {} /\ \A i, j \in 1 .. Len(open') : ~(i < j)
      BY <2>6
    <3>3. \A f \in {Last(open').fn}, n \in {Last(open').at} : Len(blocks') = BegunAt(f, n)'
      BY <2>3, <2>5, <2>6
    <3> QED
      BY <2>6, <3>1, <3>2, <3>3 DEF Nest
  <2>8. Progress'
    <3>1. \A j \in 1 .. Len(blocks') : j = 1 /\ 1 \in 1 .. Len(open')
      BY <2>3, <2>6
    <3> QED
      BY <2>6, <2>7, <3>1 DEF Progress
  <2>9. GivenOK' /\ PhaseOK' /\ Written'
    BY <1>1, <1>3, <2>1, <2>6, <2>8
       DEF CompilerInv, GivenOK, PhaseOK, Written, Absent, Phases
  <2> QED
    BY <2>3, <2>9 DEF CompilerInv
<1> QED
  BY <1>2, <1>3 DEF Start

\* A nested function begins.
LEMMA CompileNestedStep ==
  ASSUME CompilerInv, CompileNested
  PROVE  CompilerInv'
<1>1. /\ phase = "compiling" /\ phase' = phase /\ file' = file /\ src' = src
      /\ options' = options /\ ReadingConsts /\ IsNested(Entry)
  BY DEF CompileNested, ReadingConsts, given
<1>2. PICK f, n, L, g : f = Fn /\ n = Last(open).at /\ L = Len(open) /\ g = Entry[2]
  OBVIOUS
<1>3. PICK b \in NewBlocks(g) : blocks' = Append(blocks, b)
  BY <1>2 DEF CompileNested
<1>4. open' = Append(PastEntry, [fn |-> g, at |-> 0])
  BY <1>2 DEF CompileNested
<1>5. /\ f \in 1 .. Len(blocks) /\ f \in 1 .. Len(src) /\ L \in Nat /\ L \in 1 .. L
      /\ f = open[L].fn /\ n = open[L].at /\ n \in Nat /\ open[1].fn = 1
      /\ n + 1 \in 1 .. Len(Consts(f)) /\ Entry = Consts(f)[n + 1]
      /\ Len(Consts(f)) \in Nat /\ src \in Sources /\ file \in {Absent, <<>>}
      /\ Nest /\ Progress /\ Len(blocks) \in Nat /\ Len(src) \in Nat
  BY <1>1, <1>2, TopIs DEF Nest
<1>6. CaughtUp(f, n, n) /\ Len(blocks) = BegunAt(f, n)
  <2>1. Len(blocks) = BegunAt(f, n)
    BY <1>2, <1>5 DEF Nest, Fn
  <2>2. CaughtUp(f, n, IF L = Len(open) THEN n ELSE n - 1)
    BY <1>2, <1>5 DEF Nest
  <2> QED
    BY <1>2, <2>1, <2>2
<1>7. /\ Entry = Nested(g) /\ g = Len(blocks) + 1 /\ g \in 1 .. Len(src)
  <2>1. Entry = Nested(g) /\ g \in 2 .. Len(src)
    BY <1>1, <1>2, <1>5, EntryIs
  <2>2. Entry = Nested(BegunAt(f, (n + 1) - 1) + 1)
    BY <1>1, <1>5, NumbersAre
  <2>3. (n + 1) - 1 = n
    BY <1>5
  <2>4. g = BegunAt(f, n) + 1
    BY <2>1, <2>2, <2>3 DEF Nested
  <2> QED
    BY <1>5, <1>6, <2>1, <2>4
<1>8. /\ BlocksOK' /\ Chained' /\ Len(blocks') = g /\ blocks'[g] = b
      /\ \A j \in 1 .. Len(blocks) : blocks'[j] = blocks[j]
  BY <1>1, <1>3, <1>5, <1>7, BlockMore
<1>9. CaughtUp(g, 0, 0)' /\ BegunAt(g, 0)' = g
  <2>1. b.k = <<>> /\ b.children = <<>>
    BY <1>5, <1>7, NewBlocksAre
  <2>2. g \in 1 .. Len(blocks')
    BY <1>7, <1>8
  <2> QED
    BY <1>1, <1>5, <1>7, <1>8, <2>1, <2>2, NewIsCaughtUp
<1>10. /\ open' \in Seq([fn : 1 .. Len(src), at : Nat]) /\ open' # <<>>
       /\ Len(open') = L + 1 /\ open'[L + 1] = [fn |-> g, at |-> 0]
       /\ open'[L] = [fn |-> f, at |-> n + 1]
       /\ \A i \in 1 .. L - 1 : open'[i] = open[i]
  <2> DEFINE T == [fn : 1 .. Len(src), at : Nat]
  <2>1. [fn |-> g, at |-> 0] \in T
    BY <1>7
  <2>2. PastEntry \in Seq(T) /\ Len(PastEntry) = L
        /\ PastEntry[L] = [fn |-> f, at |-> n + 1]
        /\ \A i \in 1 .. L - 1 : PastEntry[i] = open[i]
    BY <1>1, <1>2, PastEntryIs
  <2> HIDE DEF T
  <2>3. /\ open' \in Seq(T) /\ Len(open') = L + 1 /\ open'[L + 1] = [fn |-> g, at |-> 0]
        /\ \A i \in 1 .. L : open'[i] = PastEntry[i]
    BY <1>4, <2>1, <2>2, AppendProperties
  <2>4. open' # <<>>
    BY <1>5, <2>3, EmptySeq
  <2>5. \A i \in 1 .. L - 1 : i \in 1 .. L
    BY <1>5
  <2> QED
    BY <1>5, <2>2, <2>3, <2>4, <2>5 DEF T
<1>11. /\ \A i \in 1 .. L + 1 : i = L + 1 \/ i = L \/ i \in 1 .. L - 1
       /\ \A i \in 1 .. L : i \in 1 .. L + 1 /\ i # L + 1
       /\ \A i \in 1 .. L - 1 : i \in 1 .. L /\ i + 1 \in 1 .. L
       /\ L + 1 \in 1 .. L + 1
  BY <1>5
<1>12. /\ open'[L + 1].fn = g /\ open'[L + 1].at = 0
       /\ \A i \in 1 .. L : open'[i].fn = open[i].fn
       /\ open'[L].at = n + 1 /\ \A i \in 1 .. L - 1 : open'[i].at = open[i].at
  <2>1. open'[L + 1].fn = g /\ open'[L + 1].at = 0
    BY <1>10
  <2>2. open'[L].fn = open[L].fn /\ open'[L].at = n + 1
    BY <1>5, <1>10
  <2>3. \A i \in 1 .. L - 1 : open'[i].fn = open[i].fn /\ open'[i].at = open[i].at
    BY <1>10
  <2>4. \A i \in 1 .. L : i = L \/ i \in 1 .. L - 1
    BY <1>5
  <2> QED
    BY <2>1, <2>2, <2>3, <2>4
<1>13. CaughtUp(f, n + 1, n)' /\ Consts(f)'[n + 1] = Nested(g)
  <2>1. CaughtUp(f, n, n)'
    BY <1>1, <1>5, <1>6, <1>7, <1>8, SameBlock
  <2>2. Kept(f, n + 1)'
    <3>1. n + 1 \notin Plain(f)
      BY <1>1, <1>5 DEF Plain
    <3>2. ~(1 .. n + 1 \subseteq Plain(f)) /\ \A x \in 1 .. n + 1 : x \in Plain(f) => x \in 1 .. n
      BY <1>5, <3>1
    <3>3. Kept(f, n)
      BY <1>6 DEF CaughtUp
    <3>4. Kept(f, n + 1)
      BY <3>2, <3>3 DEF Kept, InPlace
    <3> QED
      BY <1>1, <1>5, <1>8, <3>4, SameBlock
  <2>3. n + 1 \in 0 .. Len(Consts(f)')
    BY <1>1, <1>5, SameSource
  <2> QED
    BY <1>1, <1>5, <1>7, <2>1, <2>2, <2>3, SameSource DEF CaughtUp
<1>14. ASSUME NEW i \in 1 .. L - 1, NEW j \in {open[i].fn}, NEW m \in {open[i].at}
       PROVE  /\ CaughtUp(j, m, m - 1)'
              /\ m # 0 /\ Consts(j)'[m] = Nested(open'[i + 1].fn)
  <2>1. i \in 1 .. L /\ i + 1 \in 1 .. L /\ i # L
    BY <1>5, <1>11
  <2>2. /\ CaughtUp(j, m, m - 1) /\ m # 0 /\ Consts(j)[m] = Nested(open[i + 1].fn)
    BY <1>2, <1>5, <2>1 DEF Nest
  <2>3. j \in 1 .. Len(blocks)
    BY <2>2 DEF CaughtUp
  <2> QED
    <3>1. Len(blocks) <= Len(blocks') /\ Len(blocks') \in Nat
      BY <1>5, <1>7, <1>8
    <3>2. CaughtUp(j, m, m - 1)'
      BY <1>1, <1>5, <1>8, <2>2, <2>3, <3>1, SameBlock
    <3>3. Consts(j)' = Consts(j) /\ open'[i + 1].fn = open[i + 1].fn
      BY <1>1, <1>12, <2>1, SameSource
    <3> QED
      BY <2>2, <3>2, <3>3
<1>15. ASSUME NEW i \in 1 .. L, NEW j \in {open'[i].fn}, NEW m \in {open'[i].at}
       PROVE  /\ CaughtUp(j, m, m - 1)'
              /\ m # 0 /\ Consts(j)'[m] = Nested(open'[i + 1].fn)
  <2>1. CASE i = L
    <3>1. j = f /\ m = n + 1 /\ m - 1 = n /\ m # 0 /\ open'[i + 1].fn = g
      BY <1>5, <1>12, <2>1
    <3> QED
      BY <1>13, <3>1
  <2>2. CASE i \in 1 .. L - 1
    BY <1>12, <1>14, <2>2
  <2> QED
    BY <1>5, <2>1, <2>2
<1>16. Nest'
  <2>1. open'[1].fn = 1
    BY <1>5, <1>12
  <2>2. ASSUME NEW i \in 1 .. Len(open'), NEW j \in {open'[i].fn}, NEW m \in {open'[i].at}
        PROVE  CaughtUp(j, m, IF i = Len(open) THEN m ELSE m - 1)'
    <3>1. CASE i = L + 1
      BY <1>9, <1>10, <1>12, <3>1
    <3>2. CASE i \in 1 .. L
      BY <1>10, <1>11, <1>15, <3>2
    <3> QED
      BY <1>5, <1>10, <3>1, <3>2
  <2>3. ASSUME NEW i \in 1 .. Len(open') - 1, NEW j \in {open'[i].fn}, NEW m \in {open'[i].at}
        PROVE  m # 0 /\ Consts(j)'[m] = Nested(open'[i + 1].fn)
    <3>1. i \in 1 .. L
      BY <1>5, <1>10
    <3> QED
      BY <1>15, <3>1
  <2>4. ASSUME NEW i \in 1 .. Len(open'), NEW j \in 1 .. Len(open'), i < j
        PROVE  open'[i].fn < open'[j].fn
    <3>1. i \in 1 .. L
      BY <1>5, <1>10, <2>4
    <3>2. CASE j = L + 1
      <4>1. open[i].fn \in 1 .. Len(blocks)
        BY <1>1, <1>2, <3>1, TopIs
      <4>2. open'[i].fn = open[i].fn /\ open'[j].fn = Len(blocks) + 1
        BY <1>7, <1>12, <3>1, <3>2
      <4>3. \A x \in 1 .. Len(blocks) : x < Len(blocks) + 1
        BY <1>5
      <4> QED
        BY <4>1, <4>2, <4>3
    <3>3. CASE j \in 1 .. L
      BY <1>2, <1>5, <1>12, <2>4, <3>1, <3>3 DEF Nest
    <3> QED
      BY <1>5, <1>10, <3>2, <3>3
  <2>5. \A j \in {Last(open').fn}, m \in {Last(open').at} : Len(blocks') = BegunAt(j, m)'
    BY <1>8, <1>9, <1>10, <1>12 DEF Last
  <2> QED
    BY <1>10, <2>1, <2>2, <2>3, <2>4, <2>5 DEF Nest
<1>17. ASSUME NEW j \in 1 .. Len(blocks'), \A i \in 1 .. Len(open') : open'[i].fn # j
       PROVE  Compiled(j)'
  <2>1. \A i \in 1 .. L : open[i].fn # j
    BY <1>10, <1>11, <1>12, <1>17
  <2>2. j # g
    BY <1>10, <1>11, <1>12, <1>17
  <2>3. j \in 1 .. Len(blocks)
    BY <1>5, <1>7, <1>8, <2>2
  <2>4. Compiled(j)
    BY <1>2, <1>5, <2>1, <2>3 DEF Progress
  <2> QED
    BY <1>1, <1>8, <2>3, <2>4, SameBlock
<1>18. Progress'
  BY <1>16, <1>17 DEF Progress
<1>19. GivenOK' /\ PhaseOK' /\ Written'
  BY <1>1, <1>5, <1>10, <1>18 DEF CompilerInv, GivenOK, PhaseOK, Written, Absent
<1> QED
  BY <1>8, <1>19 DEF CompilerInv

\* A nested function ends, and becomes a child and a constant of its parent.
LEMMA EndNestedStep ==
  ASSUME CompilerInv, EndNested
  PROVE  CompilerInv'
<1>1. /\ phase = "compiling" /\ Len(open) > 1
  BY DEF EndNested
<1>2. PICK f, n, L, p, m : /\ f = Fn /\ n = Last(open).at /\ L = Len(open)
                           /\ p = open[L - 1].fn /\ m = open[L - 1].at
  OBVIOUS
<1> DEFINE fits(x) == (x + 1) % CountSize # 0 /\ x < ChildRoom
<1>3. CASE ~fits(Len(blocks[p].children))
  <2>1. End("wild") \/ End("crashed")
    BY <1>2, <1>3 DEF EndNested
  <2> QED
    BY <2>1, NothingCompiled DEF End, Phases, Ends
<1>4. CASE fits(Len(blocks[p].children))
  <2>1. /\ phase' = phase /\ file' = file /\ src' = src /\ options' = options
        /\ open' = Front(open)
    BY <1>2, <1>4 DEF EndNested, given
  <2>2. PICK k \in PushConst(blocks[p].k, Function(<<"block", f>>)) :
          blocks' = [blocks EXCEPT ![p].k = k, ![p].children = Append(@, f)]
    BY <1>2, <1>4 DEF EndNested
  <2>3. /\ f \in 1 .. Len(blocks) /\ f \in 1 .. Len(src) /\ L \in Nat /\ L \in 1 .. L
        /\ L - 1 \in 1 .. L /\ L - 1 \in 1 .. L - 1 /\ L - 1 < L /\ L - 1 # L
        /\ f = open[L].fn /\ n = open[L].at /\ n = Len(Consts(f)) /\ open[1].fn = 1
        /\ p \in 1 .. Len(blocks) /\ p \in 1 .. Len(src)
        /\ Len(Consts(p)) \in Nat /\ src \in Sources /\ file \in {Absent, <<>>}
        /\ Nest /\ Progress /\ Len(blocks) \in Nat /\ Len(src) \in Nat
        /\ DOMAIN blocks = 1 .. Len(blocks)
    <3>1. n = Len(Consts(f))
      BY <1>2 DEF EndNested, Consts
    <3>2. L \in Nat /\ L > 1
      BY <1>1, <1>2, TopIs
    <3>3. L - 1 \in 1 .. L /\ L - 1 \in 1 .. L - 1 /\ L - 1 < L /\ L - 1 # L
      BY <3>2
    <3>4. /\ p \in 1 .. Len(blocks) /\ p \in 1 .. Len(src)
      BY <1>1, <1>2, <3>3, TopIs
    <3> QED
      BY <1>1, <1>2, <3>1, <3>3, <3>4, TopIs DEF Nest
  <2>4. CaughtUp(f, n, n) /\ Len(blocks) = BegunAt(f, n)
    <3>1. Len(blocks) = BegunAt(f, n)
      BY <1>2, <2>3 DEF Nest, Fn
    <3>2. CaughtUp(f, n, IF L = Len(open) THEN n ELSE n - 1)
      BY <1>2, <2>3 DEF Nest
    <3> QED
      BY <1>2, <3>1, <3>2
  <2>5. CaughtUp(p, m, m - 1) /\ m # 0 /\ Consts(p)[m] = Nested(f) /\ p < f
    <3>1. CaughtUp(p, m, IF L - 1 = L THEN m ELSE m - 1)
      BY <1>2, <2>3 DEF Nest
    <3>2. open[(L - 1) + 1].fn = f
      BY <2>3
    <3>3. m # 0 /\ Consts(p)[m] = Nested(open[(L - 1) + 1].fn)
      BY <1>2, <2>3 DEF Nest
    <3>4. open[L - 1].fn < open[L].fn
      BY <1>2, <2>3 DEF Nest
    <3> QED
      BY <1>2, <2>3, <3>1, <3>2, <3>3, <3>4
  <2>6. m \in 1 .. Len(Consts(p)) /\ IsNested(Consts(p)[m])
    BY <2>3, <2>5 DEF CaughtUp, Nested, IsNested
  <2>7. /\ f = BegunAt(p, m - 1) + 1 /\ LastIn[f] = BegunAt(p, m)
        /\ LastIn[f] = BegunAt(f, n)
    <3>1. Consts(p)[m] = Nested(BegunAt(p, m - 1) + 1)
      BY <2>3, <2>6, NumbersAre
    <3>2. BegunAt(p, m) = LastIn[Consts(p)[m][2]]
      BY <2>3, <2>6, BegunStep
    <3> QED
      BY <2>3, <2>5, <3>1, <3>2, NumbersAre DEF Nested
  <2>8. f \in 2 .. Len(src) /\ f # p
    BY <2>3, <2>5
  <2>9. /\ DOMAIN blocks[p] = BlockFields /\ IsCompiled(blocks[p])
        /\ blocks[p].k \in Seq(TableValues) /\ blocks[p].children \in Seq(2 .. Len(src))
    BY <2>3 DEF CompilerInv, BlocksOK, IsCompiled, TableValues
  <2>10. PICK ch, C, e : /\ ch = blocks[p].children /\ C = Len(ch)
                         /\ e = [blocks[p] EXCEPT !.k = k, !.children = Append(ch, f)]
    OBVIOUS
  <2>11. /\ blocks' = [blocks EXCEPT ![p] = e] /\ DOMAIN e = BlockFields
         /\ e.k = k /\ e.children = Append(ch, f)
         /\ \A x \in BlockFields \ {"k", "children"} : e[x] = blocks[p][x]
    BY <2>2, <2>3, <2>9, <2>10 DEF BlockFields
  <2>12. /\ Append(ch, f) \in Seq(2 .. Len(src)) /\ Len(Append(ch, f)) = C + 1 /\ C \in Nat
         /\ Append(ch, f)[C + 1] = f
         /\ \A c \in 1 .. C : Append(ch, f)[c] = ch[c]
    BY <2>8, <2>9, <2>10, AppendProperties, LenProperties
  <2>13. /\ k \in Seq(TableValues) /\ Len(blocks[p].k) <= Len(k)
         /\ \A x \in 1 .. Len(blocks[p].k) : k[x] = blocks[p].k[x]
    <3>1. Function(<<"block", f>>) \in TableValues
      BY <2>8 DEF TableValues
    <3>2. TableValues \subseteq Constants
      BY <2>3, TableValuesAre
    <3>3. PICK q, v : q = blocks[p].k /\ v = Function(<<"block", f>>)
      OBVIOUS
    <3>4. q \in Seq(TableValues) /\ v \in TableValues /\ k \in PushConst(q, v)
      BY <2>2, <2>9, <3>1, <3>3
    <3>5. k \in Seq(TableValues) /\ Len(q) <= Len(k) /\ \A x \in 1 .. Len(q) : k[x] = q[x]
      BY <3>2, <3>4, PushConstIs
    <3> QED
      BY <3>3, <3>5
  <2>14. /\ BlocksOK' /\ Len(blocks') = Len(blocks) /\ blocks'[p] = e
         /\ \A j \in 1 .. Len(blocks) : j # p => blocks'[j] = blocks[j]
    <3>1. Len(Append(ch, f)) < CountSize
      <4>1. C < CountSize /\ CountSize \in Nat /\ C \in Nat
        BY <2>3, <2>10, <2>12, AssemblyAssumption DEF CompilerInv, BlocksOK, IsCompiled
      <4>2. (C + 1) % CountSize # 0
        BY <1>4, <2>10
      <4>3. \A c \in Nat : c # 0 => c % c = 0
        OBVIOUS
      <4>4. C + 1 # CountSize
        BY <4>1, <4>2, <4>3
      <4> QED
        BY <2>12, <4>1, <4>4
    <3> QED
      BY <2>1, <2>3, <2>11, <2>12, <2>13, <3>1, OneBlock
  <2>15. /\ \A c \in 0 .. C : Reach(p, c)' = Reach(p, c)
         /\ Reach(p, C + 1)' = LastIn[f]
    <3>1. ASSUME NEW c \in 0 .. C
          PROVE  Reach(p, c)' = Reach(p, c)
      <4>1. CASE c = 0
        BY <4>1 DEF Reach
      <4>2. CASE c # 0
        <5>1. c \in 1 .. C
          BY <2>12, <4>2
        <5>2. blocks'[p].children[c] = blocks[p].children[c]
          BY <2>10, <2>11, <2>12, <2>14, <5>1
        <5> QED
          BY <2>1, <5>2, SameSource DEF Reach
      <4> QED
        BY <4>1, <4>2
    <3>2. blocks'[p].children[C + 1] = f /\ C + 1 # 0
      BY <2>11, <2>12, <2>14
    <3>3. Reach(p, C + 1)' = LastIn'[f]
      BY <3>2 DEF Reach
    <3> QED
      BY <2>1, <3>1, <3>3, SameSource
  <2>16. Reach(p, C) = BegunAt(p, m - 1) /\ Kept(p, m) /\ m \in 0 .. Len(Consts(p))
    BY <2>5, <2>10 DEF CaughtUp
  <2>17. Chained'
    <3>1. ASSUME NEW j \in 1 .. Len(blocks), NEW c \in 1 .. Len(blocks'[j].children)
          PROVE  /\ blocks'[j].children[c] = Reach(j, c - 1)' + 1
                 /\ blocks'[j].children[c] \in j + 1 .. Len(blocks)
      <4>1. CASE j # p
        BY <2>1, <2>14, <3>1, <4>1, SameBlock DEF CompilerInv, Chained
      <4>2. CASE j = p /\ c = C + 1
        <5>1. blocks'[j].children[c] = f /\ (C + 1) - 1 = C /\ C \in 0 .. C
          BY <2>11, <2>12, <2>14, <4>2
        <5>2. Reach(j, c - 1)' = BegunAt(p, m - 1)
          BY <2>15, <2>16, <4>2, <5>1
        <5>3. f \in p + 1 .. Len(blocks)
          BY <2>3, <2>5
        <5> QED
          BY <2>7, <4>2, <5>1, <5>2, <5>3
      <4>3. CASE j = p /\ c \in 1 .. C
        <5>1. blocks'[j].children[c] = ch[c] /\ c - 1 \in 0 .. C
          <6>1. blocks'[j].children = Append(ch, f)
            BY <2>11, <2>14, <4>3
          <6>2. c - 1 \in 0 .. C
            BY <2>12, <4>3
          <6> QED
            BY <2>12, <4>3, <6>1, <6>2
        <5>2. ch[c] = Reach(p, c - 1) + 1 /\ ch[c] \in p + 1 .. Len(blocks)
          BY <2>3, <2>10, <4>3 DEF CompilerInv, Chained
        <5> QED
          BY <2>15, <4>3, <5>1, <5>2
      <4>4. j = p => c \in 1 .. C + 1
        BY <2>11, <2>12, <2>14
      <4>5. j = p => c = C + 1 \/ c \in 1 .. C
        BY <2>12, <4>4
      <4> QED
        BY <4>1, <4>2, <4>3, <4>5
    <3> QED
      BY <2>14, <3>1 DEF Chained
  <2>18. CaughtUp(p, m, m)' /\ BegunAt(p, m)' = Len(blocks)
    <3>1. Reach(p, Len(blocks[p].children))' = BegunAt(p, m)' /\ BegunAt(p, m)' = Len(blocks)
      <4>1. Len(blocks'[p].children) = C + 1
        BY <2>11, <2>12, <2>14
      <4>2. Reach(p, Len(blocks[p].children))' = LastIn[f]
        BY <2>15, <4>1
      <4> QED
        BY <2>1, <2>4, <2>7, <4>2, SameSource
    <3>2. Kept(p, m)'
      <4>1. m \notin Plain(p) /\ m \in 1 .. m
        BY <2>6 DEF Plain
      <4>2. Len(blocks[p].k) \in Nat /\ Len(k) \in Nat
        BY <2>9, <2>13, LenProperties
      <4>3. InPlace(blocks[p].k, Plain(p), Consts(p), m) => InPlace(k, Plain(p), Consts(p), m)
        <5> SUFFICES ASSUME InPlace(blocks[p].k, Plain(p), Consts(p), m)
                     PROVE  InPlace(k, Plain(p), Consts(p), m)
          OBVIOUS
        <5>1. ASSUME NEW x \in 1 .. m, x \in Plain(p)
              PROVE  x <= Len(k) /\ k[x] = Consts(p)[x]
          <6>1. x <= Len(blocks[p].k) /\ blocks[p].k[x] = Consts(p)[x]
            BY <5>1 DEF InPlace
          <6> QED
            BY <2>13, <4>2, <6>1
        <5> QED
          BY <4>1, <5>1 DEF InPlace
      <4> QED
        BY <2>1, <2>11, <2>14, <2>16, <4>3, SameSource DEF Kept
    <3> QED
      BY <2>1, <2>3, <2>14, <2>16, <3>1, <3>2, SameSource DEF CaughtUp
  <2>19. Compiled(f)'
    <3>1. Compiled(f)
      BY <2>3, <2>4, <2>7 DEF CaughtUp, Compiled
    <3> QED
      BY <2>1, <2>3, <2>8, <2>14, <3>1, SameBlock
  <2>20. /\ open' \in Seq([fn : 1 .. Len(src), at : Nat]) /\ Len(open') = L - 1 /\ open' # <<>>
         /\ \A i \in 1 .. L - 1 : open'[i] = open[i]
    <3> DEFINE T == [fn : 1 .. Len(src), at : Nat]
    <3>1. open \in Seq(T) /\ open' = SubSeq(open, 1, L - 1)
      BY <1>2, <2>1 DEF CompilerInv, GivenOK, Front
    <3> HIDE DEF T
    <3>2. \A i \in 1 .. L - 1 : open[i] \in T
      <4>1. \A i \in 1 .. L - 1 : i \in 1 .. Len(open)
        BY <1>2, <2>3
      <4> QED
        BY <3>1, <4>1, ElementOfSeq
    <3>3. /\ open' \in Seq(T) /\ Len(open') = L - 1
          /\ \A i \in 1 .. L - 1 : open'[i] = open[i]
      <4>1. L - 1 \in Int /\ 1 \in Int /\ 1 <= L - 1 /\ (L - 1) - 1 + 1 = L - 1
            /\ \A i \in 1 .. L - 1 : 1 + i - 1 = i
        BY <2>3
      <4> QED
        BY <3>1, <3>2, <4>1, SubSeqProperties
    <3> QED
      BY <2>3, <3>3, EmptySeq DEF T
  <2>21. \A i \in 1 .. L - 1 : i \in 1 .. L /\ (i = L - 1 \/ i \in 1 .. (L - 1) - 1)
    BY <2>3
  <2>22. ASSUME NEW i \in 1 .. (L - 1) - 1, NEW g \in {open[i].fn}, NEW y \in {open[i].at}
         PROVE  /\ CaughtUp(g, y, y - 1)'
                /\ y # 0 /\ Consts(g)'[y] = Nested(open'[i + 1].fn)
    <3>1. i \in 1 .. L /\ i \in 1 .. L - 1 /\ i + 1 \in 1 .. L - 1 /\ i < L - 1 /\ i # L
      BY <2>3
    <3>2. /\ CaughtUp(g, y, y - 1) /\ y # 0 /\ Consts(g)[y] = Nested(open[i + 1].fn)
          /\ g < p
      BY <1>2, <2>3, <3>1 DEF Nest
    <3>3. g \in 1 .. Len(blocks)
      BY <3>2 DEF CaughtUp
    <3>4. g # p
      BY <2>3, <3>2, <3>3
    <3>5. CaughtUp(g, y, y - 1)'
      BY <2>1, <2>3, <2>14, <3>2, <3>3, <3>4, SameBlock, SMTT(30)
    <3>6. Consts(g)' = Consts(g) /\ open'[i + 1] = open[i + 1]
      BY <2>1, <2>20, <3>1, SameSource
    <3> QED
      BY <3>2, <3>5, <3>6
  <2>23. Nest'
    <3>1. open'[1].fn = 1
      BY <2>3, <2>20
    <3>2. ASSUME NEW i \in 1 .. Len(open'), NEW g \in {open'[i].fn}, NEW y \in {open'[i].at}
          PROVE  CaughtUp(g, y, IF i = Len(open) THEN y ELSE y - 1)'
      <4>1. CASE i = L - 1
        <5>1. g = p /\ y = m
          BY <1>2, <2>3, <2>20, <4>1
        <5> QED
          BY <2>18, <2>20, <4>1, <5>1
      <4>2. CASE i \in 1 .. (L - 1) - 1
        <5>1. i # L - 1 /\ open'[i] = open[i]
          <6>1. i \in 1 .. L - 1 /\ i # L - 1
            BY <2>3, <4>2
          <6> QED
            BY <2>20, <6>1
        <5> QED
          BY <2>20, <2>22, <4>2, <5>1
      <4> QED
        BY <2>20, <2>21, <4>1, <4>2
    <3>3. ASSUME NEW i \in 1 .. Len(open') - 1, NEW g \in {open'[i].fn}, NEW y \in {open'[i].at}
          PROVE  y # 0 /\ Consts(g)'[y] = Nested(open'[i + 1].fn)
      <4>1. i \in 1 .. (L - 1) - 1 /\ i \in 1 .. L - 1
        BY <2>3, <2>20
      <4>2. open'[i] = open[i]
        BY <2>20, <4>1
      <4> QED
        BY <2>22, <4>1, <4>2
    <3>4. \A i, j \in 1 .. Len(open') : i < j => open'[i].fn < open'[j].fn
      BY <1>2, <2>3, <2>20, <2>21, ZenonT(30) DEF Nest
    <3>5. \A g \in {Last(open').fn}, y \in {Last(open').at} : Len(blocks') = BegunAt(g, y)'
      <4>1. Last(open').fn = p /\ Last(open').at = m
        BY <1>2, <2>3, <2>20 DEF Last
      <4> QED
        BY <2>14, <2>18, <4>1
    <3> QED
      BY <2>20, <3>1, <3>2, <3>3, <3>4, <3>5 DEF Nest
  <2>24. ASSUME NEW j \in 1 .. Len(blocks), \A i \in 1 .. Len(open') : open'[i].fn # j
         PROVE  Compiled(j)'
    <3>1. CASE j = f
      BY <2>19, <3>1
    <3>2. CASE j # f
      <4>1. \A i \in 1 .. L : i = L \/ i \in 1 .. L - 1
        BY <2>3
      <4>2. \A i \in 1 .. L : open[i].fn # j
        BY <2>3, <2>20, <2>24, <3>2, <4>1
      <4>3. Compiled(j) /\ j # p
        BY <1>2, <2>3, <4>2 DEF Progress
      <4> QED
        BY <2>1, <2>14, <4>3, SameBlock
    <3> QED
      BY <3>1, <3>2
  <2>25. Progress'
    BY <2>14, <2>23, <2>24 DEF Progress
  <2>26. GivenOK' /\ PhaseOK' /\ Written'
    BY <1>1, <2>1, <2>3, <2>20, <2>25 DEF CompilerInv, GivenOK, PhaseOK, Written, Absent
  <2> QED
    BY <2>14, <2>17, <2>26 DEF CompilerInv
<1> QED
  BY <1>3, <1>4

\* The main function ends.
LEMMA EndMainStep ==
  ASSUME CompilerInv, EndMain
  PROVE  CompilerInv'
<1>1. /\ phase = "compiling" /\ Len(open) = 1 /\ Last(open).at = Len(Consts(Fn))
      /\ phase' \in {"dumping", "compiled"} /\ UNCHANGED <<given, compiling, file>>
  BY DEF EndMain, End, Consts
<1>2. /\ src' = src /\ options' = options /\ open' = open /\ blocks' = blocks /\ file' = file
  BY <1>1 DEF given, compiling
<1>3. /\ Nest /\ Progress /\ src \in Sources /\ Len(blocks) \in Nat /\ Last(open) = open[1]
      /\ Fn = 1 /\ open[1].fn = 1 /\ open[1].at = Len(Consts(1)) /\ 1 \in 1 .. Len(src)
      /\ file \in {Absent, <<>>}
  BY <1>1, TopIs, SourceIs DEF Nest
<1>4. PICK n : n = Len(Consts(1))
  OBVIOUS
<1>5. CaughtUp(1, n, n) /\ Len(blocks) = BegunAt(1, n)
  <2>1. CaughtUp(1, n, IF 1 = Len(open) THEN n ELSE n - 1)
    BY <1>1, <1>3, <1>4 DEF Nest
  <2> QED
    BY <1>1, <1>3, <1>4, <2>1 DEF Nest
<1>6. LastIn[1] = Len(src) /\ LastIn[1] = BegunAt(1, n)
  BY <1>3, <1>4, NumbersAre
<1>7. Complete
  <2>1. Compiled(1)
    BY <1>4, <1>5, <1>6 DEF CaughtUp, Compiled
  <2>2. \A j \in 1 .. Len(blocks) : j # 1 => Compiled(j)
    <3>1. \A i \in 1 .. Len(open) : i = 1
      BY <1>1
    <3> QED
      BY <1>3, <3>1 DEF Progress
  <2> QED
    BY <1>5, <1>6, <2>1, <2>2 DEF Complete
<1>8. GivenOK' /\ BlocksOK' /\ Written'
  BY <1>1, <1>2, <1>3 DEF CompilerInv, GivenOK, BlocksOK, IsCompiled, Written, Absent, Phases
<1>9. Chained' /\ Complete'
  BY <1>2, <1>7, SameBlock DEF CompilerInv, Chained, Complete
<1>10. PhaseOK'
  BY <1>1, <1>9 DEF PhaseOK
<1> QED
  BY <1>8, <1>9, <1>10 DEF CompilerInv

LEMMA AllAreWritten ==
  ASSUME CompilerInv
  PROVE  /\ AllWritten /\ Bytecode \in Seq(ItemSet) /\ Len(Bytecode) \in Nat
         /\ DOMAIN Bytecode = 1 .. Len(Bytecode)
<1>1. Len(src) \in Nat /\ Len(blocks) \in Nat /\ DOMAIN blocks = 1 .. Len(blocks)
  BY SourceIs, LenProperties DEF CompilerInv, GivenOK, BlocksOK
<1>2. ASSUME NEW j \in 1 .. Len(blocks)
      PROVE  IsWritten(blocks[j])
  <2>1. IsCompiled(blocks[j])
    BY DEF CompilerInv, BlocksOK
  <2>2. blocks[j].k \in Seq(Constants)
    <3>1. blocks[j].k \in Seq(TableValues)
      BY <2>1 DEF IsCompiled, TableValues
    <3>2. TableValues \subseteq Constants
      BY <1>1, TableValuesAre
    <3> QED
      BY <3>1, <3>2, SeqMonotonic
  <2>3. blocks[j].children \in Seq(Nat)
    <3>1. blocks[j].children \in Seq(2 .. Len(src)) /\ 2 .. Len(src) \subseteq Nat
      BY <1>1, <2>1 DEF IsCompiled
    <3> QED
      BY <3>1, SeqMonotonic
  <2>4. blocks[j].line \in Int /\ blocks[j].lastline \in Int
    BY <2>1, AssemblyAssumption DEF IsCompiled
  <2> QED
    BY <2>1, <2>2, <2>3, <2>4 DEF IsCompiled, IsWritten
<1>3. AllWritten
  BY <1>1, <1>2 DEF AllWritten
<1> QED
  BY <1>3, BytecodeIs, LenProperties

\* The file is written, as far as it goes.
LEMMA DumpStep ==
  ASSUME CompilerInv, Dump
  PROVE  CompilerInv'
<1> DEFINE S == {Len(Bytecode) + 1} \cup Undecodable
<1>1. /\ src' = src /\ options' = options /\ open' = open /\ blocks' = blocks
      /\ phase' \in {"compiled", "failed"} /\ phase = "dumping"
  BY DEF Dump, given, compiling
<1>2. /\ Complete /\ Len(Bytecode) \in Nat
      /\ DOMAIN Bytecode = 1 .. Len(Bytecode)
  BY <1>1, AllAreWritten DEF CompilerInv, PhaseOK
<1>3. S \subseteq 1 .. Len(Bytecode) + 1 /\ S # {}
  BY <1>2 DEF Undecodable
<1>4. Min(S) - 1 \in 0 .. Len(Bytecode)
  <2> HIDE DEF S
  <2>1. \E x \in S : \A y \in S : ~(y < x)
    <3>1. S \subseteq Nat
      BY <1>2, <1>3
    <3> QED
      BY <1>3, <3>1, LeastElement
  <2>2. \E x \in S : \A y \in S : x <= y
    BY <1>2, <1>3, <2>1
  <2>3. Min(S) \in S
    BY <2>2, Zenon DEF Min
  <2>4. Min(S) \in 1 .. Len(Bytecode) + 1
    BY <1>3, <2>3
  <2> HIDE DEF Min
  <2> QED
    BY <1>2, <2>4
<1>5. \E n \in 0 .. Len(Bytecode) : file' = SubSeq(Bytecode, 1, n)
  <2>1. \/ file' = SubSeq(Bytecode, 1, Min(S) - 1)
        \/ \E n \in 0 .. Min(S) - 1 : file' = SubSeq(Bytecode, 1, n)
    BY DEF Dump
  <2>2. 0 .. Min(S) - 1 \subseteq 0 .. Len(Bytecode)
    BY <1>2, <1>4
  <2> HIDE DEF S
  <2> QED
    BY <1>4, <2>1, <2>2
<1>6. GivenOK' /\ BlocksOK'
  BY <1>1 DEF CompilerInv, GivenOK, BlocksOK, IsCompiled, Phases
<1>7. Chained' /\ Complete'
  BY <1>1, <1>2, SameBlock DEF CompilerInv, Chained, Complete
<1>8. Written'
  <2>1. Bytecode' = Bytecode
    BY <1>1 DEF Bytecode
  <2> QED
    BY <1>5, <1>7, <2>1 DEF Written
<1>9. PhaseOK'
  BY <1>1 DEF PhaseOK
<1> QED
  BY <1>6, <1>7, <1>8, <1>9 DEF CompilerInv

\* What the loader has of the file is what bijouc made of the source.
LEMMA FileIs ==
  ASSUME CompilerInv, file # Absent
  PROVE  /\ Len(file) \in Nat /\ DOMAIN file = 1 .. Len(file) /\ file \in Seq(ItemSet)
         /\ Len(file) # 0 => Complete
         /\ Len(file) <= Len(Bytecode)
         /\ \A x \in 1 .. Len(file) : file[x] = Bytecode[x]
         /\ Len(file) = Len(Bytecode) => file = Bytecode
<1>1. /\ Bytecode \in Seq(ItemSet) /\ Len(Bytecode) \in Nat
  BY AllAreWritten
<1>2. CASE file = <<>>
  <2>1. Len(file) = 0 /\ file \in Seq(ItemSet)
    BY <1>2, EmptySeq
  <2>2. Len(Bytecode) # 0
    BY AllAreWritten, BytecodeIs DEF AllWritten
  <2> QED
    BY <1>1, <2>1, <2>2, LenProperties
<1>3. CASE file # <<>>
  <2>1. Complete
    BY <1>3 DEF CompilerInv, Written
  <2>2. PICK n \in 0 .. Len(Bytecode) : file = SubSeq(Bytecode, 1, n)
    BY <1>3 DEF CompilerInv, Written
  <2>3. \A i \in 1 .. n : Bytecode[i] \in ItemSet
    <3>1. \A i \in 1 .. n : i \in 1 .. Len(Bytecode)
      BY <1>1
    <3> QED
      BY <1>1, <3>1, ElementOfSeq
  <2>4. /\ file \in Seq(ItemSet) /\ Len(file) = n
        /\ \A x \in 1 .. n : file[x] = Bytecode[x]
    <3>1. /\ n \in Int /\ 1 \in Int /\ (IF 1 <= n THEN n - 1 + 1 ELSE 0) = n
          /\ n - 1 + 1 = n /\ \A x \in 1 .. n : 1 + x - 1 = x
      OBVIOUS
    <3> HIDE DEF ItemSet
    <3> QED
      BY <2>2, <2>3, <3>1, SubSeqProperties
  <2>5. n = Len(Bytecode) => file = Bytecode
    BY <1>1, <2>2, SubSeqFull
  <2> QED
    BY <1>1, <2>1, <2>4, <2>5, LenProperties
<1> QED
  BY <1>2, <1>3

LEMMA CompilerInit == Init => CompilerInv
<1> SUFFICES ASSUME Init
             PROVE  CompilerInv
  OBVIOUS
<1>1. /\ src \in Sources /\ options \subseteq {"parse", "debug"} /\ phase = "start"
      /\ open = <<>> /\ blocks = <<>> /\ file = Absent
  BY DEF Init
<1>2. Len(blocks) = 0 /\ Len(src) \in Nat /\ blocks \in Seq(Range(blocks))
      /\ open \in Seq([fn : 1 .. Len(src), at : Nat])
  BY <1>1, SourceIs, EmptySeq
<1> QED
  BY <1>1, <1>2 DEF CompilerInv, GivenOK, BlocksOK, Chained, PhaseOK, Written, Phases

LEMMA CompilerNext == CompilerInv /\ [Next]_vars => CompilerInv'
<1> SUFFICES ASSUME CompilerInv, [Next]_vars
             PROVE  CompilerInv'
  OBVIOUS
<1> DEFINE Later == Phases \ {"start", "compiling", "dumping"}
           Needs == {"loading", "building", "ready"}
<1>1. CASE Start
  BY <1>1, StartStep
<1>2. CASE CompileConst
  BY <1>2, CompileConstStep
<1>3. CASE RefuseConst
  BY <1>3, NothingCompiled DEF RefuseConst, End, Phases
<1>4. CASE CompileNested
  BY <1>4, CompileNestedStep
<1>5. CASE EndNested
  BY <1>5, EndNestedStep
<1>6. CASE EndMain
  BY <1>6, EndMainStep
<1>7. CASE Killed
  BY <1>7, NothingCompiled DEF Killed, End, Phases
<1>8. CASE Dump
  BY <1>8, DumpStep
<1>9. CASE Run
  BY <1>9, NothingCompiled DEF Run, End, Phases, Ends
<1> DEFINE Loads == /\ phase \in Needs /\ phase' \in Later
                    /\ UNCHANGED <<given, compiling, file>>
<1>10. Loads => CompilerInv'
  BY NothingCompiled DEF CompilerInv, PhaseOK
<1>11. CASE LoadHeader
  <2>1. Loads
    BY <1>11 DEF LoadHeader, Loading, End, Phases, Ends
  <2> QED
    BY <1>10, <2>1
<1>12. CASE LoadField
  <2>1. Loads
    BY <1>12 DEF LoadField, Loading, Take, End, Phases, Ends
  <2> QED
    BY <1>10, <2>1
<1>13. CASE LoadConstant
  <2>1. Loads
    BY <1>13 DEF LoadConstant, TakeConst, Loading, Take, End, Phases, Ends
  <2> QED
    BY <1>10, <2>1
<1>14. CASE LoadNumChildren
  <2>1. Loads
    BY <1>14 DEF LoadNumChildren, Loading, Take, End, Phases, Ends
  <2> QED
    BY <1>10, <2>1
<1>15. CASE LoadChild
  <2>1. Loads
    BY <1>15 DEF LoadChild, Loading, Phases
  <2> QED
    BY <1>10, <2>1
<1>16. CASE LoadReturn
  <2>1. Loads
    BY <1>16 DEF LoadReturn, Loading, Phases
  <2> QED
    BY <1>10, <2>1
<1>17. CASE Build
  <2>1. Loads
    BY <1>17 DEF Build, End, Phases, Ends
  <2> QED
    BY <1>10, <2>1
<1>18. CASE UNCHANGED vars
  <2>1. /\ src' = src /\ options' = options /\ open' = open /\ blocks' = blocks
        /\ file' = file /\ phase' = phase
    BY <1>18 DEF vars, given, compiling
  <2>2. Len(blocks) \in Nat
    BY LenProperties DEF CompilerInv, BlocksOK
  <2>3. GivenOK' /\ BlocksOK'
    BY <2>1 DEF CompilerInv, GivenOK, BlocksOK, IsCompiled
  <2>4. Chained' /\ (Complete => Complete')
    BY <2>1, SameBlock DEF CompilerInv, Chained, Complete
  <2>5. Written'
    BY <2>1, <2>4 DEF CompilerInv, Written, Absent, Bytecode
  <2>6. Progress => Progress'
    <3>1. Nest => Nest'
      <4>1. ASSUME NEW f, NEW n, NEW m, CaughtUp(f, n, m)
            PROVE  CaughtUp(f, n, m)'
        <5>1. Len(blocks) <= Len(blocks') /\ Len(blocks') \in Nat /\ blocks'[f] = blocks[f]
          BY <2>1, <2>2
        <5> QED
          BY <2>1, <2>2, <4>1, <5>1, SameBlock
      <4>2. \A f, n : BegunAt(f, n)' = BegunAt(f, n) /\ Consts(f)' = Consts(f)
        BY <2>1, SameSource
      <4> QED
        BY <2>1, <4>1, <4>2 DEF Nest
    <3> QED
      BY <2>1, <3>1, SameBlock DEF Progress
  <2>7. PhaseOK'
    BY <2>1, <2>4, <2>6 DEF CompilerInv, PhaseOK, Absent
  <2> QED
    BY <2>3, <2>4, <2>5, <2>7 DEF CompilerInv
<1> QED
  <2>1. Step \/ UNCHANGED vars
    BY DEF Next, Ended
  <2> QED
    BY <1>1, <1>2, <1>3, <1>4, <1>5, <1>6, <1>7, <1>8, <1>9, <1>11, <1>12, <1>13, <1>14,
       <1>15, <1>16, <1>17, <1>18, <2>1 DEF Step

----------------------------------------------------------------------------
(* The theorem.                                                            *)

\* compile_function of compiler.c makes a block of every function, in the order
\* they begin and each a child of the one it is nested in, whatever the source;
\* the constants of a tidy function are where its code expects them; and what a
\* file holds is the beginning of what DumpFunction of dump.c writes of these
\* blocks.
THEOREM CompiledAsNested == Spec => []CompilerInv
BY CompilerInit, CompilerNext, PTL DEF Spec
=============================================================================
