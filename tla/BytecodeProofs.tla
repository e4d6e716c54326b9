--------------------------- MODULE BytecodeProofs ---------------------------
(***************************************************************************)
(* What the operators on sequences of Assembly yield, whatever the length, *)
(* and where each item of a program stands in its bytecode file.           *)
(*                                                                         *)
(* The induction of the library takes a predicate as its parameter.  The   *)
(* one below takes a set, and is had from the fact that no set of naturals *)
(* is without a least element.                                             *)
(***************************************************************************)
EXTENDS Assembly, TLAPS, SequenceTheorems, WellFoundedInduction

----------------------------------------------------------------------------
(* Induction.                                                              *)

LEMMA LeastElement ==
  ASSUME NEW T, T \subseteq Nat, T # {}
  PROVE  \E x \in T : \A y \in T : ~(y < x)
<1> DEFINE R == OpToRel(<, Nat)
<1>1. IsWellFoundedOn(R, Nat)
  BY NatLessThanWellFounded
<1>2. \A x, y \in Nat : y < x => <<y, x>> \in R
  BY DEF OpToRel
<1> HIDE DEF R
<1>3. \E x \in T : \A y \in T : ~(<<y, x>> \in R)
  BY <1>1, WFMin
<1> QED
  BY <1>2, <1>3

\* What holds of 0, and of n + 1 when it holds of n, holds of every number.
LEMMA Induction ==
  ASSUME NEW S, 0 \in S, \A n \in Nat : n \in S => n + 1 \in S
  PROVE  Nat \subseteq S
<1> SUFFICES ASSUME ~(Nat \subseteq S)
             PROVE  FALSE
  OBVIOUS
<1>1. PICK x \in Nat \ S : \A y \in Nat \ S : ~(y < x)
  BY LeastElement
<1>2. x # 0 /\ x \in Nat /\ x - 1 \in Nat /\ x - 1 < x /\ (x - 1) + 1 = x
  BY <1>1
<1>3. x - 1 \in S
  BY <1>1, <1>2
<1> QED
  BY <1>1, <1>2, <1>3

\* The same up to a bound.
LEMMA InductionUpTo ==
  ASSUME NEW N \in Nat, NEW S, 0 \in S, \A n \in 0 .. N - 1 : n \in S => n + 1 \in S
  PROVE  0 .. N \subseteq S
<1> DEFINE T == {n \in Nat : n <= N => n \in S}
<1>1. 0 \in T
  OBVIOUS
<1>2. ASSUME NEW n \in Nat, n \in T
      PROVE  n + 1 \in T
  <2>1. CASE n + 1 <= N
    <3>1. n \in 0 .. N - 1 /\ n <= N
      BY <2>1
    <3> QED
      BY <1>2, <3>1
  <2>2. CASE ~(n + 1 <= N)
    BY <2>2
  <2> QED
    BY <2>1, <2>2
<1>3. Nat \subseteq T
  <2> HIDE DEF T
  <2> QED
    BY <1>1, <1>2, Induction
<1> QED
  BY <1>3

----------------------------------------------------------------------------
(* ConcatTo.                                                               *)

\* The recursion of ConcatTo has a solution.
LEMMA ConcatToDef ==
  ASSUME NEW seqs, Len(seqs) \in Nat
  PROVE  ConcatTo(seqs) = [n \in 0 .. Len(seqs) |->
            IF n = 0 THEN <<>> ELSE ConcatTo(seqs)[n - 1] \o seqs[n]]
<1> DEFINE Solves(g, m) == g = [n \in 0 .. m |-> IF n = 0 THEN <<>> ELSE g[n - 1] \o seqs[n]]
           S == {m \in Nat : \E g : Solves(g, m)}
<1>1. 0 \in S
  <2> DEFINE g == [n \in 0 .. 0 |-> <<>>]
  <2>1. Solves(g, 0)
    OBVIOUS
  <2> QED
    BY <2>1
<1>2. ASSUME NEW m \in Nat, m \in S
      PROVE  m + 1 \in S
  <2>1. PICK g : Solves(g, m)
    BY <1>2
  <2> DEFINE h == [n \in 0 .. m + 1 |-> IF n = m + 1 THEN g[m] \o seqs[m + 1] ELSE g[n]]
  <2>2. \A n \in 0 .. m + 1 : h[n] = IF n = 0 THEN <<>> ELSE h[n - 1] \o seqs[n]
    <3> TAKE n \in 0 .. m + 1
    <3>1. CASE n = m + 1
      <4>1. n # 0 /\ n - 1 = m /\ m \in 0 .. m + 1 /\ m # m + 1
        BY <3>1
      <4> QED
        BY <4>1, <3>1
    <3>2. CASE n # m + 1 /\ n # 0
      <4>1. n \in 0 .. m /\ n - 1 \in 0 .. m + 1 /\ n - 1 # m + 1
        BY <3>2
      <4>2. g[n] = g[n - 1] \o seqs[n]
        BY <2>1, <4>1, <3>2
      <4> QED
        BY <4>1, <4>2, <3>2
    <3>3. CASE n = 0
      BY <2>1, <3>3
    <3> QED
      BY <3>1, <3>2, <3>3
  <2>3. Solves(h, m + 1)
    <3>1. h = [n \in 0 .. m + 1 |-> h[n]]
      OBVIOUS
    <3> HIDE DEF h
    <3> QED
      BY <2>2, <3>1
  <2> HIDE DEF Solves, h
  <2> QED
    BY <2>3
<1> HIDE DEF Solves
<1>3. PICK g : Solves(g, Len(seqs))
  <2> HIDE DEF S
  <2>1. Nat \subseteq S
    BY <1>1, <1>2, Induction
  <2> QED
    BY <2>1 DEF S
<1>4. ConcatTo(seqs) = CHOOSE f : Solves(f, Len(seqs))
  BY DEF ConcatTo, Solves
<1>5. Solves(ConcatTo(seqs), Len(seqs))
  BY <1>3, <1>4
<1> QED
  BY <1>5 DEF Solves

\* One sequence more.
LEMMA ConcatToStep ==
  ASSUME NEW S, NEW seqs \in Seq(Seq(S))
  PROVE  /\ ConcatTo(seqs)[0] = <<>>
         /\ \A n \in 1 .. Len(seqs) :
              ConcatTo(seqs)[n] = ConcatTo(seqs)[n - 1] \o seqs[n]
         /\ \A n \in 0 .. Len(seqs) : ConcatTo(seqs)[n] \in Seq(S)
<1> DEFINE c == ConcatTo(seqs)
           N == Len(seqs)
           T == {n \in 0 .. N : c[n] \in Seq(S)}
<1>1. N \in Nat
  BY LenProperties
<1>2. c = [n \in 0 .. N |-> IF n = 0 THEN <<>> ELSE c[n - 1] \o seqs[n]]
  BY <1>1, ConcatToDef
<1> HIDE DEF c, N
<1>3. c[0] = <<>> /\ \A n \in 1 .. N : c[n] = c[n - 1] \o seqs[n]
  <2>1. \A n \in 0 .. N : c[n] = IF n = 0 THEN <<>> ELSE c[n - 1] \o seqs[n]
    BY <1>2
  <2>2. 0 \in 0 .. N /\ \A n \in 1 .. N : n \in 0 .. N /\ n # 0
    BY <1>1
  <2> QED
    BY <2>1, <2>2
<1>4. 0 \in T
  <2>1. c[0] \in Seq(S)
    BY <1>3, EmptySeq
  <2> QED
    BY <1>1, <2>1
<1>5. ASSUME NEW n \in 0 .. N - 1, n \in T
      PROVE  n + 1 \in T
  <2>1. n + 1 \in 1 .. N /\ n + 1 \in 0 .. N /\ (n + 1) - 1 = n
    BY <1>1
  <2>2. seqs[n + 1] \in Seq(S)
    BY <2>1, ElementOfSeq DEF N
  <2>3. c[n + 1] = c[n] \o seqs[n + 1]
    BY <1>3, <2>1
  <2>4. c[n] \o seqs[n + 1] \in Seq(S)
    BY <1>5, <2>2, ConcatProperties
  <2> QED
    BY <2>1, <2>3, <2>4
<1>6. 0 .. N \subseteq T
  <2> HIDE DEF T
  <2> QED
    BY <1>1, <1>4, <1>5, InductionUpTo
<1> QED
  BY <1>3, <1>6 DEF c, N

\* What comes first stays where it is, however much comes after it.
LEMMA ConcatToGrows ==
  ASSUME NEW S, NEW seqs \in Seq(Seq(S)), NEW m \in 0 .. Len(seqs)
  PROVE  \A n \in m .. Len(seqs) :
           /\ Len(ConcatTo(seqs)[m]) <= Len(ConcatTo(seqs)[n])
           /\ \A i \in 1 .. Len(ConcatTo(seqs)[m]) :
                ConcatTo(seqs)[n][i] = ConcatTo(seqs)[m][i]
<1> DEFINE c == ConcatTo(seqs)
           N == Len(seqs)
           Keeps(n) == /\ Len(c[m]) <= Len(c[n])
                       /\ \A i \in 1 .. Len(c[m]) : c[n][i] = c[m][i]
           T == {k \in 0 .. N - m : Keeps(m + k)}
<1>1. N \in Nat /\ N - m \in Nat /\ m \in Nat
  BY LenProperties
<1>2. /\ \A n \in 1 .. N : c[n] = c[n - 1] \o seqs[n]
      /\ \A n \in 0 .. N : c[n] \in Seq(S)
  BY ConcatToStep
<1> HIDE DEF c, N
<1>3. 0 \in T
  <2>1. m + 0 = m /\ m \in 0 .. N
    BY <1>1 DEF N
  <2>2. Len(c[m]) \in Nat
    BY <1>2, <2>1, LenProperties
  <2> QED
    BY <1>1, <2>1, <2>2
<1>4. ASSUME NEW k \in 0 .. (N - m) - 1, k \in T
      PROVE  k + 1 \in T
  <2>1. /\ m + (k + 1) \in 1 .. N /\ (m + (k + 1)) - 1 = m + k /\ m + k \in 0 .. N
        /\ k + 1 \in 0 .. N - m /\ m \in 0 .. N
    BY <1>1
  <2>2. c[m + (k + 1)] = c[m + k] \o seqs[m + (k + 1)]
    BY <1>2, <2>1
  <2>3. c[m + k] \in Seq(S) /\ seqs[m + (k + 1)] \in Seq(S) /\ c[m] \in Seq(S)
    BY <1>2, <2>1, ElementOfSeq DEF N
  <2>4. /\ Len(c[m + (k + 1)]) = Len(c[m + k]) + Len(seqs[m + (k + 1)])
        /\ \A i \in 1 .. Len(c[m + k]) : c[m + (k + 1)][i] = c[m + k][i]
    <3> DEFINE s == c[m + k]
               t == seqs[m + (k + 1)]
    <3>1. s \in Seq(S) /\ t \in Seq(S) /\ Len(s) \in Nat /\ Len(t) \in Nat
      BY <2>3, LenProperties
    <3> HIDE DEF s, t
    <3>2. /\ Len(s \o t) = Len(s) + Len(t)
          /\ \A i \in 1 .. Len(s) : (s \o t)[i] = s[i]
      BY <3>1, ConcatProperties
    <3> QED
      BY <2>2, <3>2 DEF s, t
  <2>5. Len(c[m]) \in Nat /\ Len(c[m + k]) \in Nat /\ Len(seqs[m + (k + 1)]) \in Nat
    BY <2>3, LenProperties
  <2>6. Keeps(m + k)
    BY <1>4
  <2>7. Keeps(m + (k + 1))
    <3>1. Len(c[m]) <= Len(c[m + (k + 1)])
      <4>1. \A x, y, z \in Nat : x <= y => x <= y + z
        OBVIOUS
      <4>2. Len(c[m]) <= Len(c[m + k]) + Len(seqs[m + (k + 1)])
        BY <2>5, <2>6, <4>1
      <4> QED
        BY <2>4, <4>2
    <3>2. ASSUME NEW i \in 1 .. Len(c[m])
          PROVE  c[m + (k + 1)][i] = c[m][i]
      <4>1. i \in 1 .. Len(c[m + k])
        BY <2>5, <2>6
      <4> QED
        BY <2>4, <2>6, <4>1
    <3> QED
      BY <3>1, <3>2
  <2> QED
    BY <2>1, <2>7
<1>5. 0 .. N - m \subseteq T
  <2> HIDE DEF T
  <2> QED
    BY <1>1, <1>3, <1>4, InductionUpTo
<1>6. ASSUME NEW n \in m .. N
      PROVE  Keeps(n)
  <2>1. n - m \in 0 .. N - m /\ m + (n - m) = n
    BY <1>1
  <2> QED
    BY <1>5, <2>1
<1> QED
  BY <1>6 DEF c, N

\* Where the elements of the n-th sequence stand.
LEMMA ConcatElements ==
  ASSUME NEW S, NEW seqs \in Seq(Seq(S))
  PROVE  LET c == ConcatTo(seqs)
         IN  /\ Len(c[0]) = 0
             /\ \A n \in 0 .. Len(seqs) : Len(c[n]) \in Nat
             /\ \A n \in 1 .. Len(seqs) :
                  /\ Len(c[n]) = Len(c[n - 1]) + Len(seqs[n])
                  /\ Len(c[n]) <= Len(c[Len(seqs)])
                  /\ \A i \in 1 .. Len(seqs[n]) :
                       Concat(seqs)[Len(c[n - 1]) + i] = seqs[n][i]
             /\ Concat(seqs) \in Seq(S)
             /\ Len(Concat(seqs)) = Len(c[Len(seqs)])
<1> DEFINE c == ConcatTo(seqs)
           N == Len(seqs)
<1>1. N \in Nat /\ N \in 0 .. N /\ \A n \in 1 .. N : seqs[n] \in Seq(S)
  BY LenProperties, ElementOfSeq
<1>2. /\ c[0] = <<>>
      /\ \A n \in 1 .. N : c[n] = c[n - 1] \o seqs[n]
      /\ \A n \in 0 .. N : c[n] \in Seq(S)
  BY ConcatToStep
<1>3. \A n \in 1 .. N : /\ Len(c[n]) <= Len(c[N])
                       /\ \A i \in 1 .. Len(c[n]) : c[N][i] = c[n][i]
  <2> TAKE n \in 1 .. N
  <2>1. n \in 0 .. N /\ N \in n .. N
    BY <1>1
  <2> QED
    BY <2>1, ConcatToGrows
<1>4. Concat(seqs) = c[N]
  BY DEF Concat
<1> HIDE DEF c, N
<1>5. \A n \in 0 .. N : Len(c[n]) \in Nat
  BY <1>2, LenProperties
<1>6. ASSUME NEW n \in 1 .. N
      PROVE  /\ Len(c[n]) = Len(c[n - 1]) + Len(seqs[n])
             /\ \A i \in 1 .. Len(seqs[n]) : c[N][Len(c[n - 1]) + i] = seqs[n][i]
  <2> DEFINE u == c[n - 1]
             v == seqs[n]
  <2>1. u \in Seq(S) /\ v \in Seq(S) /\ Len(u) \in Nat /\ Len(v) \in Nat
    <3>1. n - 1 \in 0 .. N
      BY <1>1
    <3> QED
      BY <1>1, <1>2, <3>1, LenProperties
  <2>2. c[n] = u \o v
    BY <1>2
  <2> HIDE DEF u, v
  <2>3. /\ Len(u \o v) = Len(u) + Len(v)
        /\ \A i \in 1 .. Len(u) + Len(v) :
             (u \o v)[i] = IF i <= Len(u) THEN u[i] ELSE v[i - Len(u)]
    BY <2>1, ConcatProperties
  <2>4. ASSUME NEW i \in 1 .. Len(v)
        PROVE  c[N][Len(u) + i] = v[i]
    <3>1. /\ Len(u) + i \in 1 .. Len(u) + Len(v) /\ ~(Len(u) + i <= Len(u))
          /\ (Len(u) + i) - Len(u) = i
      BY <2>1
    <3>2. (u \o v)[Len(u) + i] = v[i]
      BY <2>3, <3>1
    <3>3. c[N][Len(u) + i] = c[n][Len(u) + i]
      BY <1>3, <2>2, <2>3, <3>1
    <3> QED
      BY <2>2, <3>2, <3>3
  <2> QED
    BY <2>2, <2>3, <2>4 DEF u, v
<1>7. Len(c[0]) = 0
  BY <1>2, EmptySeq
<1>8. c[N] \in Seq(S)
  BY <1>1, <1>2
<1> QED
  BY <1>3, <1>4, <1>5, <1>6, <1>7, <1>8 DEF c, N

----------------------------------------------------------------------------
(* Pushed.                                                                 *)

\* The recursion of Pushed has a solution.
LEMMA PushedDef ==
  ASSUME NEW values, Len(values) \in Nat
  PROVE  Pushed(values) = [n \in 0 .. Len(values) |->
            IF n = 0 THEN {<<>>}
                     ELSE UNION {PushConst(k, values[n]) : k \in Pushed(values)[n - 1]}]
<1> DEFINE After(g, n) == UNION {PushConst(k, values[n]) : k \in g[n - 1]}
           Solves(g, m) == g = [n \in 0 .. m |-> IF n = 0 THEN {<<>>} ELSE After(g, n)]
           S == {m \in Nat : \E g : Solves(g, m)}
<1>1. 0 \in S
  <2> DEFINE g == [n \in 0 .. 0 |-> {<<>>}]
  <2>1. Solves(g, 0)
    OBVIOUS
  <2> QED
    BY <2>1
<1>2. ASSUME NEW m \in Nat, m \in S
      PROVE  m + 1 \in S
  <2>1. PICK g : Solves(g, m)
    BY <1>2
  <2> DEFINE h == [n \in 0 .. m + 1 |-> IF n = m + 1 THEN After(g, m + 1) ELSE g[n]]
  <2>2. \A n \in 0 .. m + 1 : h[n] = IF n = 0 THEN {<<>>} ELSE After(h, n)
    <3> TAKE n \in 0 .. m + 1
    <3>1. CASE n = m + 1
      <4>1. n # 0 /\ n - 1 = m /\ m \in 0 .. m + 1 /\ m # m + 1 /\ m + 1 - 1 = m
        BY <3>1
      <4>2. h[m] = g[m] /\ h[n] = After(g, n)
        BY <3>1, <4>1
      <4>3. After(g, n) = After(h, n)
        BY <4>1, <4>2
      <4> QED
        BY <4>1, <4>2, <4>3
    <3>2. CASE n # m + 1 /\ n # 0
      <4>1. n \in 0 .. m /\ n - 1 \in 0 .. m + 1 /\ n - 1 # m + 1
        BY <3>2
      <4>2. g[n] = After(g, n) /\ h[n - 1] = g[n - 1] /\ h[n] = g[n]
        <5>1. \A i \in 0 .. m : g[i] = IF i = 0 THEN {<<>>} ELSE After(g, i)
          <6> HIDE DEF After
          <6> QED
            BY <2>1
        <5>2. n \in 0 .. m + 1
          OBVIOUS
        <5> QED
          BY <4>1, <5>1, <5>2, <3>2
      <4>3. After(g, n) = After(h, n)
        BY <4>2
      <4> QED
        BY <3>2, <4>2, <4>3
    <3>3. CASE n = 0
      BY <2>1, <3>3
    <3> QED
      BY <3>1, <3>2, <3>3
  <2>3. Solves(h, m + 1)
    <3>1. h = [n \in 0 .. m + 1 |-> h[n]]
      OBVIOUS
    <3> HIDE DEF h, After
    <3> QED
      BY <2>2, <3>1
  <2> HIDE DEF Solves, h
  <2> QED
    BY <2>3
<1> HIDE DEF Solves
<1>3. PICK g : Solves(g, Len(values))
  <2> HIDE DEF S
  <2>1. Nat \subseteq S
    BY <1>1, <1>2, Induction
  <2> QED
    BY <2>1 DEF S
<1>4. Pushed(values) = CHOOSE f : Solves(f, Len(values))
  BY DEF Pushed, Solves
<1>5. Solves(Pushed(values), Len(values))
  BY <1>3, <1>4
<1> QED
  BY <1>5 DEF Solves

\* One value more.
LEMMA PushedStep ==
  ASSUME NEW values, Len(values) \in Nat
  PROVE  /\ Pushed(values)[0] = {<<>>}
         /\ \A n \in 1 .. Len(values) : \A t \in Pushed(values)[n] :
              \E k \in Pushed(values)[n - 1] : t \in PushConst(k, values[n])
<1> DEFINE After(n) == UNION {PushConst(k, values[n]) : k \in Pushed(values)[n - 1]}
<1>1. Pushed(values) = [n \in 0 .. Len(values) |-> IF n = 0 THEN {<<>>} ELSE After(n)]
  BY PushedDef
<1>2. \A n \in 1 .. Len(values) : \A t \in After(n) :
        \E k \in Pushed(values)[n - 1] : t \in PushConst(k, values[n])
  OBVIOUS
<1> HIDE DEF After
<1>3. \A n \in 0 .. Len(values) : Pushed(values)[n] = IF n = 0 THEN {<<>>} ELSE After(n)
  BY <1>1
<1>4. 0 \in 0 .. Len(values) /\ \A n \in 1 .. Len(values) : n \in 0 .. Len(values) /\ n # 0
  OBVIOUS
<1> QED
  BY <1>2, <1>3, <1>4

----------------------------------------------------------------------------
(* The items of a constant.                                                *)

Payloads == Strings \cup {BadEscape} \cup Int \cup Seq(Instruction)
ItemSet  == {"header", "string", "int", "char", "number", "words"} \X Payloads

\* What a table of constants holds before it is written.
Constants == ConstValue \cup {Function(f) : f \in {"block"} \X Nat}

TypeByte(v) ==
  CASE Tag(v) = "null"     -> 0
    [] Tag(v) = "number"   -> 1
    [] Tag(v) = "boolean"  -> 2
    [] Tag(v) = "string"   -> 3
    [] Tag(v) = "function" -> 4

LEMMA ConstItemsAre ==
  ASSUME NEW v \in Constants
  PROVE  /\ ConstItems(v) \in Seq(ItemSet)
         /\ TypeByte(v) \in 0 .. 4
         /\ ConstItems(v)[1] = <<"char", TypeByte(v)>>
         /\ Len(ConstItems(v)) = IF TypeByte(v) \in 1 .. 3 THEN 2 ELSE 1
         /\ TypeByte(v) = 1 => /\ v \in {"number"} \X Nums
                               /\ ConstItems(v)[2] = <<"number", Payload(v)>>
         /\ TypeByte(v) = 2 => /\ v \in {"boolean"} \X BOOLEAN
                               /\ ConstItems(v)[2] =
                                    <<"char", IF Payload(v) THEN 1 ELSE 0>>
         /\ TypeByte(v) = 3 => /\ v \in {"string"} \X Strings
                               /\ ConstItems(v)[2] = <<"string", Unescape[Payload(v)]>>
         /\ TypeByte(v) = 0 => v = Null
         /\ TypeByte(v) = 4 => Tag(v) = "function"
<1> USE DEF ConstItems, TypeByte, Char, Text, Tag, Payload
<1>1. CASE v = Null
  BY <1>1 DEF Null, ItemSet, Payloads
<1>2. CASE v \in {"number"} \X Nums
  <2>1. v[1] = "number" /\ v[2] \in Nums /\ v[2] \in Int
    BY <1>2, NumsAssumption
  <2> QED
    BY <1>2, <2>1 DEF ItemSet, Payloads
<1>3. CASE v \in {"boolean"} \X BOOLEAN
  <2>1. v[1] = "boolean" /\ (IF v[2] THEN 1 ELSE 0) \in Int
    BY <1>3
  <2> QED
    BY <1>3, <2>1 DEF ItemSet, Payloads
<1>4. CASE v \in {"string"} \X Strings
  <2>1. v[1] = "string" /\ v[2] \in Strings /\ Unescape[v[2]] \in Strings \cup {BadEscape}
    BY <1>4, AssemblyAssumption
  <2> QED
    BY <1>4, <2>1 DEF ItemSet, Payloads
<1>5. CASE v \in {Function(f) : f \in {"block"} \X Nat}
  <2>1. v[1] = "function"
    BY <1>5 DEF Function
  <2> QED
    BY <2>1 DEF ItemSet, Payloads
<1> QED
  BY <1>1, <1>2, <1>3, <1>4, <1>5 DEF Constants, ConstValue

----------------------------------------------------------------------------
(* The items of a function.                                                *)

IsWritten(b) ==
  /\ b.source \in Strings /\ b.name \in Strings
  /\ b.line \in Int /\ b.lastline \in Int
  /\ b.regs \in Byte /\ b.globals \in Byte /\ b.params \in Byte
  /\ b.code \in Seq(Instruction)
  /\ b.k \in Seq(Constants)
  /\ b.children \in Seq(Nat)

\* What stands before the constants.
FieldItems(b) ==
  << Text(b.source), Text(b.name), Int32(b.line), Int32(b.lastline),
     Char(b.regs), Char(b.globals), Char(0), Char(b.params),
     Int32(Len(b.code)), <<"words", b.code>>, Int32(Len(b.k)) >>

ConstSeqs(b) == [x \in DOMAIN b.k |-> ConstItems(b.k[x])]

\* How many items the first x constants are.
ConstsTo(b, x) == Len(ConcatTo(ConstSeqs(b))[x])

LEMMA FieldItemsAre ==
  ASSUME NEW b, IsWritten(b)
  PROVE  /\ FieldItems(b) \in Seq(ItemSet) /\ Len(FieldItems(b)) = 11
         /\ \A i \in 1 .. 11 : FieldItems(b)[i][1] = Fields[i]
<1>1. /\ Text(b.source) \in ItemSet /\ Text(b.name) \in ItemSet
      /\ Text(b.source)[1] = "string" /\ Text(b.name)[1] = "string"
  BY AssemblyAssumption DEF IsWritten, Text, ItemSet, Payloads
<1>2. \A n \in Int : /\ Int32(n) \in ItemSet /\ Int32(n)[1] = "int"
                    /\ Char(n) \in ItemSet /\ Char(n)[1] = "char"
  BY DEF Int32, Char, ItemSet, Payloads
<1>3. /\ b.line \in Int /\ b.lastline \in Int /\ b.regs \in Int /\ b.globals \in Int
      /\ 0 \in Int /\ b.params \in Int /\ Len(b.code) \in Int /\ Len(b.k) \in Int
  <2>1. Len(b.code) \in Nat /\ Len(b.k) \in Nat
    BY LenProperties DEF IsWritten
  <2>2. \A n \in Byte : n \in Int
    BY DEF Byte
  <2> QED
    BY <2>1, <2>2 DEF IsWritten
<1>4. <<"words", b.code>> \in ItemSet
  BY DEF IsWritten, ItemSet, Payloads
<1> HIDE DEF ItemSet
<1>5. FieldItems(b) \in Seq(ItemSet) /\ Len(FieldItems(b)) = 11
  BY <1>1, <1>2, <1>3, <1>4 DEF FieldItems
<1>6. ASSUME NEW i \in 1 .. 11
      PROVE  FieldItems(b)[i][1] = Fields[i]
  <2>1. \/ i = 1 \/ i = 2 \/ i = 3 \/ i = 4 \/ i = 5 \/ i = 6 \/ i = 7 \/ i = 8
        \/ i = 9 \/ i = 10 \/ i = 11
    OBVIOUS
  <2>2. /\ FieldItems(b)[1] = Text(b.source) /\ FieldItems(b)[2] = Text(b.name)
        /\ FieldItems(b)[3] = Int32(b.line) /\ FieldItems(b)[4] = Int32(b.lastline)
        /\ FieldItems(b)[5] = Char(b.regs) /\ FieldItems(b)[6] = Char(b.globals)
        /\ FieldItems(b)[7] = Char(0) /\ FieldItems(b)[8] = Char(b.params)
        /\ FieldItems(b)[9] = Int32(Len(b.code)) /\ FieldItems(b)[10] = <<"words", b.code>>
        /\ FieldItems(b)[11] = Int32(Len(b.k))
    BY DEF FieldItems
  <2>3. /\ Fields[1] = "string" /\ Fields[2] = "string" /\ Fields[3] = "int"
        /\ Fields[4] = "int" /\ Fields[5] = "char" /\ Fields[6] = "char"
        /\ Fields[7] = "char" /\ Fields[8] = "char" /\ Fields[9] = "int"
        /\ Fields[10] = "words" /\ Fields[11] = "int"
    BY DEF Fields
  <2>4. <<"words", b.code>>[1] = "words"
    OBVIOUS
  <2>5. /\ FieldItems(b)[1][1] = "string" /\ FieldItems(b)[2][1] = "string"
        /\ FieldItems(b)[3][1] = "int" /\ FieldItems(b)[4][1] = "int"
        /\ FieldItems(b)[5][1] = "char" /\ FieldItems(b)[6][1] = "char"
        /\ FieldItems(b)[7][1] = "char" /\ FieldItems(b)[8][1] = "char"
        /\ FieldItems(b)[9][1] = "int" /\ FieldItems(b)[10][1] = "words"
        /\ FieldItems(b)[11][1] = "int"
    BY <1>1, <1>2, <1>3, <2>2, <2>4
  <2> HIDE DEF FieldItems
  <2> QED
    BY <2>1, <2>3, <2>5, Zenon
<1> QED
  BY <1>5, <1>6

LEMMA ConstSeqsAre ==
  ASSUME NEW b, IsWritten(b)
  PROVE  /\ ConstSeqs(b) \in Seq(Seq(ItemSet)) /\ Len(ConstSeqs(b)) = Len(b.k)
         /\ Len(b.k) \in Nat /\ DOMAIN b.k = 1 .. Len(b.k)
         /\ \A x \in 1 .. Len(b.k) : /\ b.k[x] \in Constants
                                    /\ ConstSeqs(b)[x] = ConstItems(b.k[x])
<1>1. b.k \in Seq(Constants)
  BY DEF IsWritten
<1>2. /\ Len(b.k) \in Nat /\ DOMAIN b.k = 1 .. Len(b.k)
      /\ \A x \in 1 .. Len(b.k) : b.k[x] \in Constants
  BY <1>1, LenProperties, ElementOfSeq
<1>3. \A x \in 1 .. Len(b.k) : ConstItems(b.k[x]) \in Seq(ItemSet)
  BY <1>2, ConstItemsAre
<1>4. ConstSeqs(b) = [x \in 1 .. Len(b.k) |-> ConstItems(b.k[x])]
  BY <1>2 DEF ConstSeqs
<1>5. ConstSeqs(b) \in [1 .. Len(b.k) -> Seq(ItemSet)]
  BY <1>3, <1>4
<1>6. ConstSeqs(b) \in Seq(Seq(ItemSet)) /\ Len(ConstSeqs(b)) = Len(b.k)
  BY <1>2, <1>5
<1> QED
  BY <1>2, <1>4, <1>6

\* How far the constants reach, one after the other.
LEMMA ConstsToAre ==
  ASSUME NEW b, IsWritten(b)
  PROVE  /\ ConstsTo(b, 0) = 0
         /\ \A x \in 0 .. Len(b.k) : ConstsTo(b, x) \in Nat
         /\ \A x \in 1 .. Len(b.k) :
              /\ ConstsTo(b, x) = ConstsTo(b, x - 1) + Len(ConstItems(b.k[x]))
              /\ ConstsTo(b, x) <= ConstsTo(b, Len(b.k))
              /\ \A i \in 1 .. Len(ConstItems(b.k[x])) :
                   Concat(ConstSeqs(b))[ConstsTo(b, x - 1) + i] = ConstItems(b.k[x])[i]
         /\ Concat(ConstSeqs(b)) \in Seq(ItemSet)
         /\ Len(Concat(ConstSeqs(b))) = ConstsTo(b, Len(b.k))
<1>1. /\ ConstSeqs(b) \in Seq(Seq(ItemSet)) /\ Len(ConstSeqs(b)) = Len(b.k)
      /\ \A x \in 1 .. Len(b.k) : ConstSeqs(b)[x] = ConstItems(b.k[x])
  BY ConstSeqsAre
<1> DEFINE s == ConstSeqs(b)
           c == ConcatTo(s)
<1>2. /\ Len(c[0]) = 0
      /\ \A n \in 0 .. Len(s) : Len(c[n]) \in Nat
      /\ \A n \in 1 .. Len(s) :
           /\ Len(c[n]) = Len(c[n - 1]) + Len(s[n])
           /\ Len(c[n]) <= Len(c[Len(s)])
           /\ \A i \in 1 .. Len(s[n]) : Concat(s)[Len(c[n - 1]) + i] = s[n][i]
      /\ Concat(s) \in Seq(ItemSet)
      /\ Len(Concat(s)) = Len(c[Len(s)])
  <2> HIDE DEF s
  <2> QED
    BY <1>1, ConcatElements DEF s
<1>3. \A x : ConstsTo(b, x) = Len(c[x])
  BY DEF ConstsTo
<1>4. Len(b.k) = Len(s) /\ \A x \in 1 .. Len(s) : s[x] = ConstItems(b.k[x])
  BY <1>1
<1> HIDE DEF c, s
<1>5. \A x \in 1 .. Len(b.k) :
        /\ ConstsTo(b, x) = ConstsTo(b, x - 1) + Len(ConstItems(b.k[x]))
        /\ ConstsTo(b, x) <= ConstsTo(b, Len(b.k))
        /\ \A i \in 1 .. Len(ConstItems(b.k[x])) :
             Concat(s)[ConstsTo(b, x - 1) + i] = ConstItems(b.k[x])[i]
  <2> TAKE x \in 1 .. Len(b.k)
  <2>1. s[x] = ConstItems(b.k[x]) /\ x \in 1 .. Len(s)
    BY <1>4
  <2>2. /\ Len(c[x]) = Len(c[x - 1]) + Len(s[x])
        /\ Len(c[x]) <= Len(c[Len(s)])
        /\ \A i \in 1 .. Len(s[x]) : Concat(s)[Len(c[x - 1]) + i] = s[x][i]
    BY <1>2, <2>1
  <2>3. ConstsTo(b, Len(b.k)) = Len(c[Len(s)])
    BY <1>3, <1>4
  <2> QED
    BY <1>3, <2>1, <2>2, <2>3
<1> QED
  BY <1>2, <1>3, <1>4, <1>5 DEF s

\* Where each item of a function stands.
LEMMA FunctionItemsAre ==
  ASSUME NEW b, IsWritten(b)
  PROVE  /\ FunctionItems(b) \in Seq(ItemSet)
         /\ Len(FunctionItems(b)) = 12 + ConstsTo(b, Len(b.k))
         /\ \A i \in 1 .. 11 : FunctionItems(b)[i] = FieldItems(b)[i]
         /\ \A x \in 1 .. Len(b.k) : \A i \in 1 .. Len(ConstItems(b.k[x])) :
              FunctionItems(b)[11 + ConstsTo(b, x - 1) + i] = ConstItems(b.k[x])[i]
         /\ FunctionItems(b)[12 + ConstsTo(b, Len(b.k))] = <<"int", Len(b.children)>>
<1> DEFINE f == FieldItems(b)
           k == Concat(ConstSeqs(b))
           e == << Int32(Len(b.children)) >>
           K == Len(k)
<1>1. f \in Seq(ItemSet) /\ Len(f) = 11
  BY FieldItemsAre
<1>2. k \in Seq(ItemSet) /\ K = ConstsTo(b, Len(b.k)) /\ K \in Nat
  BY ConstsToAre, LenProperties
<1>3. e \in Seq(ItemSet) /\ Len(e) = 1 /\ e[1] = <<"int", Len(b.children)>>
  <2>1. Len(b.children) \in Nat
    BY LenProperties DEF IsWritten
  <2> QED
    BY <2>1 DEF Int32, ItemSet, Payloads
<1>4. FunctionItems(b) = (f \o k) \o e
  BY DEF FunctionItems, FieldItems, ConstSeqs
<1> HIDE DEF f, k, e, K
<1>5. /\ f \o k \in Seq(ItemSet) /\ Len(f \o k) = 11 + K
      /\ \A i \in 1 .. 11 + K : (f \o k)[i] = IF i <= 11 THEN f[i] ELSE k[i - 11]
  <2>1. Len(k) = K /\ Len(f) + Len(k) = 11 + K
    BY <1>1 DEF K
  <2>2. /\ f \o k \in Seq(ItemSet) /\ Len(f \o k) = Len(f) + Len(k)
        /\ \A i \in 1 .. Len(f) + Len(k) :
             (f \o k)[i] = IF i <= Len(f) THEN f[i] ELSE k[i - Len(f)]
    BY <1>1, <1>2, ConcatProperties
  <2> QED
    BY <1>1, <2>1, <2>2
<1>6. /\ (f \o k) \o e \in Seq(ItemSet) /\ Len((f \o k) \o e) = 12 + K
      /\ \A i \in 1 .. 12 + K :
           ((f \o k) \o e)[i] = IF i <= 11 + K THEN (f \o k)[i] ELSE e[i - (11 + K)]
  <2> DEFINE u == f \o k
  <2> HIDE DEF u
  <2>1. /\ u \o e \in Seq(ItemSet) /\ Len(u \o e) = Len(u) + Len(e)
        /\ \A i \in 1 .. Len(u) + Len(e) :
             (u \o e)[i] = IF i <= Len(u) THEN u[i] ELSE e[i - Len(u)]
    <3>1. u \in Seq(ItemSet) /\ e \in Seq(ItemSet)
      BY <1>3, <1>5 DEF u
    <3> QED
      BY <3>1, ConcatProperties
  <2>2. Len(u) = 11 + K /\ Len(u) + Len(e) = 12 + K
    BY <1>2, <1>3, <1>5 DEF u
  <2> QED
    BY <2>1, <2>2 DEF u
<1>7. \A i \in 1 .. 11 : FunctionItems(b)[i] = f[i]
  <2>1. \A i \in 1 .. 11 : i \in 1 .. 11 + K /\ i \in 1 .. 12 + K /\ i <= 11 /\ i <= 11 + K
    BY <1>2
  <2>2. \A i \in 1 .. 11 : (f \o k)[i] = f[i]
    BY <1>5, <2>1
  <2>3. \A i \in 1 .. 11 : ((f \o k) \o e)[i] = (f \o k)[i]
    BY <1>6, <2>1
  <2> QED
    BY <1>4, <2>2, <2>3
<1>8. \A i \in 1 .. K : FunctionItems(b)[11 + i] = k[i]
  <2>1. \A i \in 1 .. K : /\ 11 + i \in 1 .. 11 + K /\ 11 + i \in 1 .. 12 + K
                         /\ ~(11 + i <= 11) /\ 11 + i <= 11 + K /\ (11 + i) - 11 = i
    BY <1>2
  <2> QED
    BY <1>4, <1>5, <1>6, <2>1
<1>9. FunctionItems(b)[12 + K] = e[1]
  <2>1. 12 + K \in 1 .. 12 + K /\ ~(12 + K <= 11 + K) /\ (12 + K) - (11 + K) = 1
    BY <1>2
  <2> QED
    BY <1>4, <1>6, <2>1
<1>10. ASSUME NEW x \in 1 .. Len(b.k), NEW i \in 1 .. Len(ConstItems(b.k[x]))
       PROVE  FunctionItems(b)[11 + ConstsTo(b, x - 1) + i] = ConstItems(b.k[x])[i]
  <2> DEFINE o == ConstsTo(b, x - 1)
             l == Len(ConstItems(b.k[x]))
  <2>1. k[o + i] = ConstItems(b.k[x])[i]
    BY ConstsToAre DEF k
  <2>2. o \in Nat /\ l \in Nat /\ o + l <= K
    <3>1. Len(b.k) \in Nat /\ x - 1 \in 0 .. Len(b.k)
      BY ConstSeqsAre
    <3>2. ConstItems(b.k[x]) \in Seq(ItemSet)
      BY ConstSeqsAre, ConstItemsAre
    <3> QED
      BY <1>2, <3>1, <3>2, ConstsToAre, LenProperties
  <2> HIDE DEF o
  <2>3. o + i \in 1 .. K /\ 11 + (o + i) = 11 + o + i
    <3> HIDE DEF l
    <3>1. i \in 1 .. l
      BY DEF l
    <3> QED
      BY <1>2, <2>2, <3>1
  <2> QED
    BY <1>8, <2>1, <2>3 DEF o
<1> QED
  BY <1>1, <1>2, <1>3, <1>4, <1>6, <1>7, <1>9, <1>10 DEF f

----------------------------------------------------------------------------
(* The items of the file.                                                  *)

AllWritten ==
  /\ Len(blocks) \in Nat /\ DOMAIN blocks = 1 .. Len(blocks)
  /\ \A j \in 1 .. Len(blocks) : IsWritten(blocks[j])

FunctionSeqs == [j \in DOMAIN blocks |-> FunctionItems(blocks[j])]

\* How many items the first n functions are; the header stands before them.
FunctionsTo(n) == Len(ConcatTo(FunctionSeqs)[n])

LEMMA BytecodeIs ==
  ASSUME AllWritten
  PROVE  /\ FunctionsTo(0) = 0
         /\ \A n \in 0 .. Len(blocks) : FunctionsTo(n) \in Nat
         /\ \A j \in 1 .. Len(blocks) :
              /\ FunctionsTo(j) = FunctionsTo(j - 1) + Len(FunctionItems(blocks[j]))
              /\ FunctionsTo(j) <= FunctionsTo(Len(blocks))
              /\ \A i \in 1 .. Len(FunctionItems(blocks[j])) :
                   Bytecode[1 + (FunctionsTo(j - 1) + i)] = FunctionItems(blocks[j])[i]
         /\ Bytecode \in Seq(ItemSet)
         /\ Bytecode[1] = <<"header", 0>>
         /\ Len(Bytecode) = 1 + FunctionsTo(Len(blocks))
<1> DEFINE s == FunctionSeqs
           c == ConcatTo(s)
           h == << <<"header", 0>> >>
           B == Concat(s)
<1>1. /\ s \in Seq(Seq(ItemSet)) /\ Len(s) = Len(blocks)
      /\ \A j \in 1 .. Len(blocks) : /\ s[j] = FunctionItems(blocks[j])
                                    /\ s[j] \in Seq(ItemSet)
  <2>1. \A j \in 1 .. Len(blocks) : FunctionItems(blocks[j]) \in Seq(ItemSet)
    BY FunctionItemsAre DEF AllWritten
  <2>2. s = [j \in 1 .. Len(blocks) |-> FunctionItems(blocks[j])]
    BY DEF AllWritten, FunctionSeqs
  <2>3. s \in [1 .. Len(blocks) -> Seq(ItemSet)]
    BY <2>1, <2>2
  <2>4. s \in Seq(Seq(ItemSet)) /\ Len(s) = Len(blocks)
    BY <2>3 DEF AllWritten
  <2> QED
    BY <2>1, <2>2, <2>4
<1>2. /\ Len(c[0]) = 0
      /\ \A n \in 0 .. Len(s) : Len(c[n]) \in Nat
      /\ \A n \in 1 .. Len(s) :
           /\ Len(c[n]) = Len(c[n - 1]) + Len(s[n])
           /\ Len(c[n]) <= Len(c[Len(s)])
           /\ \A i \in 1 .. Len(s[n]) : B[Len(c[n - 1]) + i] = s[n][i]
      /\ B \in Seq(ItemSet)
      /\ Len(B) = Len(c[Len(s)])
  <2> HIDE DEF s
  <2> QED
    BY <1>1, ConcatElements DEF s
<1>3. \A n : FunctionsTo(n) = Len(c[n])
  BY DEF FunctionsTo
<1>4. Bytecode = h \o B
  BY DEF Bytecode, FunctionSeqs
<1>5. h \in Seq(ItemSet) /\ Len(h) = 1 /\ h[1] = <<"header", 0>>
  BY DEF ItemSet, Payloads
<1> HIDE DEF c, s, h, B
<1>6. /\ h \o B \in Seq(ItemSet) /\ Len(h \o B) = Len(h) + Len(B)
      /\ \A i \in 1 .. Len(h) + Len(B) :
           (h \o B)[i] = IF i <= Len(h) THEN h[i] ELSE B[i - Len(h)]
  <2> HIDE DEF ItemSet
  <2>1. h \in Seq(ItemSet) /\ B \in Seq(ItemSet)
    BY <1>2, <1>5
  <2> QED
    BY <2>1, ConcatProperties
<1>7. Len(B) \in Nat
  BY <1>2, LenProperties
<1>8. Bytecode[1] = <<"header", 0>> /\ \A i \in 1 .. Len(B) : Bytecode[1 + i] = B[i]
  <2>1. \A i \in 1 .. Len(B) : 1 + i \in 1 .. 1 + Len(B) /\ ~(1 + i <= 1) /\ (1 + i) - 1 = i
    BY <1>7
  <2>2. 1 \in 1 .. 1 + Len(B)
    BY <1>7
  <2> QED
    BY <1>4, <1>5, <1>6, <2>1, <2>2
<1>9. ASSUME NEW j \in 1 .. Len(blocks)
      PROVE  /\ FunctionsTo(j) = FunctionsTo(j - 1) + Len(FunctionItems(blocks[j]))
             /\ FunctionsTo(j) <= FunctionsTo(Len(blocks))
             /\ \A i \in 1 .. Len(FunctionItems(blocks[j])) :
                  Bytecode[1 + (FunctionsTo(j - 1) + i)] = FunctionItems(blocks[j])[i]
  <2> DEFINE f == FunctionItems(blocks[j])
  <2>1. s[j] = f /\ f \in Seq(ItemSet) /\ Len(f) \in Nat /\ j \in 1 .. Len(s)
        /\ j - 1 \in 0 .. Len(s)
    BY <1>1, LenProperties DEF AllWritten
  <2> HIDE DEF f
  <2>2. /\ Len(c[j]) = Len(c[j - 1]) + Len(f)
        /\ Len(c[j]) <= Len(B)
        /\ \A i \in 1 .. Len(f) : B[Len(c[j - 1]) + i] = f[i]
    BY <1>2, <2>1
  <2>3. \A i \in 1 .. Len(f) : Len(c[j - 1]) + i \in 1 .. Len(B)
    <3>1. Len(c[j - 1]) \in Nat
      BY <1>2, <2>1
    <3> QED
      BY <1>7, <2>1, <2>2, <3>1
  <2>4. \A i \in 1 .. Len(f) : Bytecode[1 + (Len(c[j - 1]) + i)] = f[i]
    BY <1>8, <2>2, <2>3
  <2> QED
    BY <1>1, <1>2, <1>3, <2>2, <2>4 DEF f
<1> QED
  BY <1>1, <1>2, <1>3, <1>4, <1>5, <1>6, <1>8, <1>9

\* What the loader finds when it reads function j where that begins: its fields,
\* its constants, the number of its children.
LEMMA ItemsOfFunction ==
  ASSUME AllWritten, NEW j \in 1 .. Len(blocks)
  PROVE  LET b == blocks[j]
             o == FunctionsTo(j - 1)
         IN  /\ o \in Nat /\ ConstsTo(b, Len(b.k)) \in Nat
             /\ FunctionsTo(j) = o + 12 + ConstsTo(b, Len(b.k))
             /\ FunctionsTo(j) < Len(Bytecode)
             /\ \A i \in 1 .. 11 : Bytecode[1 + o + i] = FieldItems(b)[i]
             /\ \A x \in 1 .. Len(b.k) :
                  /\ ConstsTo(b, x - 1) \in Nat
                  /\ ConstsTo(b, x) = ConstsTo(b, x - 1) + Len(ConstItems(b.k[x]))
                  /\ ConstsTo(b, x) <= ConstsTo(b, Len(b.k))
                  /\ \A i \in 1 .. Len(ConstItems(b.k[x])) :
                       Bytecode[12 + o + ConstsTo(b, x - 1) + i] = ConstItems(b.k[x])[i]
             /\ Bytecode[13 + o + ConstsTo(b, Len(b.k))] = <<"int", Len(b.children)>>
<1> DEFINE b == blocks[j]
           o == FunctionsTo(j - 1)
           f == FunctionItems(b)
           K == ConstsTo(b, Len(b.k))
<1>1. IsWritten(b) /\ j - 1 \in 0 .. Len(blocks)
  BY DEF AllWritten
<1>2. o \in Nat /\ FunctionsTo(j) = o + Len(f) /\ FunctionsTo(j) < Len(Bytecode)
      /\ \A i \in 1 .. Len(f) : Bytecode[1 + (o + i)] = f[i]
  <2>1. /\ FunctionsTo(j) = o + Len(f)
        /\ FunctionsTo(j) <= FunctionsTo(Len(blocks))
        /\ \A i \in 1 .. Len(f) : Bytecode[1 + (o + i)] = f[i]
        /\ o \in Nat /\ FunctionsTo(j) \in Nat /\ FunctionsTo(Len(blocks)) \in Nat
        /\ Len(Bytecode) = 1 + FunctionsTo(Len(blocks))
    <3>1. j \in 0 .. Len(blocks) /\ Len(blocks) \in 0 .. Len(blocks)
      BY DEF AllWritten
    <3> QED
      BY <1>1, <3>1, BytecodeIs
  <2> QED
    BY <2>1
<1>3. /\ Len(f) = 12 + K
      /\ \A i \in 1 .. 11 : f[i] = FieldItems(b)[i]
      /\ \A x \in 1 .. Len(b.k) : \A i \in 1 .. Len(ConstItems(b.k[x])) :
           f[11 + ConstsTo(b, x - 1) + i] = ConstItems(b.k[x])[i]
      /\ f[12 + K] = <<"int", Len(b.children)>>
  BY <1>1, FunctionItemsAre
<1>4. /\ K \in Nat
      /\ \A x \in 1 .. Len(b.k) :
           /\ ConstsTo(b, x - 1) \in Nat
           /\ ConstsTo(b, x) = ConstsTo(b, x - 1) + Len(ConstItems(b.k[x]))
           /\ ConstsTo(b, x) <= K
           /\ Len(ConstItems(b.k[x])) \in Nat
  <2>1. /\ Len(b.k) \in Nat /\ Len(b.k) \in 0 .. Len(b.k)
        /\ \A x \in 1 .. Len(b.k) : x - 1 \in 0 .. Len(b.k) /\ b.k[x] \in Constants
    BY <1>1, ConstSeqsAre
  <2>2. \A x \in 1 .. Len(b.k) : Len(ConstItems(b.k[x])) \in Nat
    BY <2>1, ConstItemsAre, LenProperties
  <2> QED
    BY <1>1, <2>1, <2>2, ConstsToAre
<1> HIDE DEF b, o, f, K
<1>5. \A i \in 1 .. 11 : Bytecode[1 + o + i] = FieldItems(b)[i]
  <2> TAKE i \in 1 .. 11
  <2>1. o \in Nat /\ K \in Nat /\ Len(f) = 12 + K
    BY <1>2, <1>3, <1>4
  <2>2. i \in 1 .. 12 + K /\ 1 + (o + i) = 1 + o + i
    BY <2>1
  <2> QED
    BY <1>2, <1>3, <2>1, <2>2
<1>6. Bytecode[13 + o + K] = <<"int", Len(b.children)>>
  <2>1. 12 + K \in 1 .. Len(f) /\ 1 + (o + (12 + K)) = 13 + o + K
    BY <1>2, <1>3, <1>4
  <2> QED
    BY <1>2, <1>3, <2>1
<1>7. ASSUME NEW x \in 1 .. Len(b.k), NEW i \in 1 .. Len(ConstItems(b.k[x]))
      PROVE  Bytecode[12 + o + ConstsTo(b, x - 1) + i] = ConstItems(b.k[x])[i]
  <2> DEFINE d == ConstsTo(b, x - 1)
             l == Len(ConstItems(b.k[x]))
  <2>1. d \in Nat /\ l \in Nat /\ d + l <= K /\ i \in 1 .. l
    BY <1>4
  <2>2. f[11 + d + i] = ConstItems(b.k[x])[i]
    BY <1>3
  <2> HIDE DEF d, l
  <2>3. 11 + d + i \in 1 .. Len(f) /\ 1 + (o + (11 + d + i)) = 12 + o + d + i
    BY <1>2, <1>3, <1>4, <2>1
  <2> QED
    BY <1>2, <2>2, <2>3 DEF d
<1>8. FunctionsTo(j) = o + 12 + K
  <2>1. o \in Nat /\ K \in Nat /\ Len(f) = 12 + K /\ FunctionsTo(j) = o + Len(f)
    BY <1>2, <1>3, <1>4
  <2> QED
    BY <2>1
<1>9. \A x \in 1 .. Len(b.k) :
        /\ ConstsTo(b, x - 1) \in Nat
        /\ ConstsTo(b, x) = ConstsTo(b, x - 1) + Len(ConstItems(b.k[x]))
        /\ ConstsTo(b, x) <= K
        /\ \A i \in 1 .. Len(ConstItems(b.k[x])) :
             Bytecode[12 + o + ConstsTo(b, x - 1) + i] = ConstItems(b.k[x])[i]
  BY <1>4, <1>7
<1>10. o \in Nat /\ K \in Nat /\ FunctionsTo(j) < Len(Bytecode)
  BY <1>2, <1>4
<1> QED
  BY <1>5, <1>6, <1>8, <1>9, <1>10 DEF b, o, K
=============================================================================
