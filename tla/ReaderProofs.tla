---------------------------- MODULE ReaderProofs ----------------------------
(***************************************************************************)
(* Theorems about Reader, for every text and whatever its words mean: the  *)
(* functions that are handed over are numbered in the order they begin.    *)
(*                                                                         *)
(* The functions being read are a path through the nesting, from the main  *)
(* function inwards.  Each of them is the last entry of the one around it, *)
(* so that every function that has begun lies inside all of them, and the  *)
(* next one gets its number from their count alone.                        *)
(*                                                                         *)
(* And about WholeText: what is found in a text is found at the same place *)
(* of the whole text it was cut from.                                      *)
(***************************************************************************)
EXTENDS WholeText, TLAPS, SequenceTheorems, WellFoundedInduction

Consts(j) == functions[j].consts

\* What every step keeps of the functions, whatever the words mean.
IsRecord(f) ==
  f = [regs |-> f.regs, globals |-> f.globals, params |-> f.params,
       name |-> f.name, code |-> f.code, consts |-> f.consts]

Formed ==
  /\ Len(functions) \in Nat \ {0}
  /\ functions = [j \in 1 .. Len(functions) |-> functions[j]]
  /\ \A j \in 1 .. Len(functions) :
       IsRecord(functions[j]) /\ Consts(j) \in Seq(Range(Consts(j)))
  /\ open \in Seq(1 .. Len(functions)) /\ (open = <<>> <=> status = "done")

\* The functions being read, each the last entry of the one around it.
PathInwards ==
  /\ open # <<>> => open[1] = 1
  /\ \A d, e \in 1 .. Len(open) : d < e => open[d] < open[e]
  /\ \A d \in 1 .. Len(open) - 1 :
       Consts(open[d]) # <<>> /\ Last(Consts(open[d])) = Nested(open[d + 1])

\* A function that is being read is an entry of nothing else.
OnceIn(fs, path) ==
  \A j \in 1 .. Len(fs) : \A x \in 1 .. Len(fs[j].consts) :
    IsNested(fs[j].consts[x]) =>
      /\ fs[j].consts[x] = Nested(fs[j].consts[x][2]) /\ fs[j].consts[x][2] \in 2 .. Len(fs)
      /\ \A e \in 2 .. Len(path) :
           fs[j].consts[x][2] = path[e] => j = path[e - 1] /\ x = Len(fs[j].consts)

NestedOnce == OnceIn(functions, open)

\* They are in order at every step, and what is being read is not past its end.
Numbered ==
  \E last \in [1 .. Len(functions) -> 1 .. Len(functions)] :
    /\ Numbers(functions, last)
    /\ \A d \in 1 .. Len(open) : last[open[d]] = Len(functions)

OrderInv == Formed /\ PathInwards /\ NestedOnce /\ Numbered

----------------------------------------------------------------------------
(* Numbers.                                                                *)

LEMMA LeastElement ==
  ASSUME NEW T, T \subseteq Nat, T # {}
  PROVE  \E x \in T : \A y \in T : ~(y < x)
<1> DEFINE R == OpToRel(<, Nat)
<1>1. IsWellFoundedOn(R, Nat)
  BY NatLessThanWellFounded
<1>2. \A x, y \in Nat : y < x => <<y, x>> \in R
  BY DEF OpToRel
<1> HIDE DEF R
<1>3. \E x \in T : \A y \in T : ~(<<y, x>> \in R)
  BY <1>1, WFMin
<1> QED
  BY <1>2, <1>3

\* What holds of 0, and of each number up to a bound when it holds of the one before.
LEMMA InductionUpTo ==
  ASSUME NEW N \in Nat, NEW S, 0 \in S, \A n \in 1 .. N : n - 1 \in S => n \in S
  PROVE  0 .. N \subseteq S
<1> DEFINE T == (0 .. N) \ S
<1> SUFFICES ASSUME T # {}
             PROVE  FALSE
  OBVIOUS
<1>1. T \subseteq Nat
  OBVIOUS
<1>2. PICK x \in T : \A y \in T : ~(y < x)
  <2> HIDE DEF T
  <2> QED
    BY <1>1, LeastElement
<1>3. x \in 1 .. N /\ x - 1 \in 0 .. N /\ x - 1 < x
  <2>1. x \in 0 .. N /\ x # 0
    OBVIOUS
  <2> QED
    BY <2>1
<1>4. x - 1 \in S
  BY <1>2, <1>3
<1> QED
  BY <1>3, <1>4

----------------------------------------------------------------------------
(* What has begun.                                                         *)

LEMMA BegunStep ==
  ASSUME NEW s, NEW last, NEW j, NEW z \in Nat \ {0}
  PROVE  Begun(s, last, j, z) =
           IF IsNested(s[j].consts[z]) THEN last[s[j].consts[z][2]]
                                       ELSE Begun(s, last, j, z - 1)
<1> DEFINE N(x) == NestedIn(s[j], x)
<1>1. \A x : Begun(s, last, j, x) = IF N(x) = {} THEN j ELSE last[s[j].consts[Max(N(x))][2]]
  BY DEF Begun
<1>2. ASSUME NEW x \in Nat \ {0}, IsNested(s[j].consts[x])
      PROVE  N(x) # {} /\ Max(N(x)) = x
  <2>1. x \in N(x) /\ \A y \in N(x) : y \in Int /\ x >= y
    BY <1>2 DEF NestedIn
  <2> HIDE DEF N
  <2>2. \E u \in N(x) : \A y \in N(x) : u >= y
    BY <2>1
  <2>3. Max(N(x)) \in N(x) /\ \A y \in N(x) : Max(N(x)) >= y
    BY <2>2, Zenon DEF Max
  <2>4. Max(N(x)) >= x /\ x >= Max(N(x)) /\ Max(N(x)) \in Int /\ x \in Int
    BY <2>1, <2>3
  <2>5. \A y, u \in Int : y >= u /\ u >= y => y = u
    OBVIOUS
  <2> QED
    BY <2>1, <2>4, <2>5
<1>3. ASSUME NEW x \in Nat \ {0}, ~IsNested(s[j].consts[x])
      PROVE  N(x) = N(x - 1)
  <2>1. \A y : y \in 1 .. x <=> y \in 1 .. x - 1 \/ y = x
    OBVIOUS
  <2> QED
    BY <1>3, <2>1 DEF NestedIn
<1> HIDE DEF N
<1> QED
  BY <1>1, <1>2, <1>3

\* The first m entries of a function are the same, and the functions in them end
\* at the same place.
SameUpTo(s, t, last, last2, j, m) ==
  \A x \in 1 .. m :
    /\ t[j].consts[x] = s[j].consts[x]
    /\ IsNested(s[j].consts[x]) => last2[s[j].consts[x][2]] = last[s[j].consts[x][2]]

LEMMA BegunSame ==
  ASSUME NEW s, NEW t, NEW last, NEW last2, NEW j, NEW m \in Nat,
         SameUpTo(s, t, last, last2, j, m), NEW y \in 0 .. m
  PROVE  Begun(t, last2, j, y) = Begun(s, last, j, y)
<1> DEFINE S == {x \in 0 .. m : Begun(t, last2, j, x) = Begun(s, last, j, x)}
<1>1. 0 \in S
  <2>1. Begun(t, last2, j, 0) = j /\ Begun(s, last, j, 0) = j
    <3>1. NestedIn(t[j], 0) = {} /\ NestedIn(s[j], 0) = {}
      BY DEF NestedIn
    <3> QED
      BY <3>1 DEF Begun
  <2> QED
    BY <2>1
<1>2. ASSUME NEW x \in 1 .. m, x - 1 \in S
      PROVE  x \in S
  <2>1. x \in Nat \ {0}
    OBVIOUS
  <2>2. Begun(t, last2, j, x) =
          IF IsNested(t[j].consts[x]) THEN last2[t[j].consts[x][2]] ELSE Begun(t, last2, j, x - 1)
    BY <2>1, BegunStep
  <2>3. Begun(s, last, j, x) =
          IF IsNested(s[j].consts[x]) THEN last[s[j].consts[x][2]] ELSE Begun(s, last, j, x - 1)
    BY <2>1, BegunStep
  <2> QED
    BY <1>2, <2>2, <2>3 DEF SameUpTo
<1>3. 0 .. m \subseteq S
  <2> HIDE DEF S
  <2> QED
    BY <1>1, <1>2, InductionUpTo
<1> QED
  BY <1>3

----------------------------------------------------------------------------
(* The functions.                                                          *)

LEMMA FormedIs ==
  ASSUME Formed
  PROVE  /\ functions \in Seq(Range(functions)) /\ DOMAIN functions = 1 .. Len(functions)
         /\ Len(functions) \in Nat \ {0} /\ Len(open) \in Nat
         /\ \A j \in 1 .. Len(functions) :
              /\ IsRecord(functions[j])
              /\ Consts(j) \in Seq(Range(Consts(j))) /\ Len(Consts(j)) \in Nat
         /\ \A d \in 1 .. Len(open) : open[d] \in 1 .. Len(functions)
         /\ open # <<>> => Len(open) \in 1 .. Len(open) /\ Fn = open[Len(open)]
<1>1. DOMAIN functions = 1 .. Len(functions) /\ Len(functions) \in Nat
  BY DEF Formed
<1>2. functions \in Seq(Range(functions))
  <2>1. \A j \in 1 .. Len(functions) : functions[j] \in Range(functions)
    BY <1>1 DEF Range
  <2>2. functions \in [1 .. Len(functions) -> Range(functions)]
    BY <2>1 DEF Formed
  <2> QED
    BY <1>1, <2>2
<1>3. Len(open) \in Nat /\ \A d \in 1 .. Len(open) : open[d] \in 1 .. Len(functions)
  BY LenProperties, ElementOfSeq DEF Formed
<1>4. open # <<>> => Len(open) \in 1 .. Len(open) /\ Fn = open[Len(open)]
  <2>1. open # <<>> => Len(open) # 0
    BY EmptySeq DEF Formed
  <2> QED
    BY <1>3, <2>1 DEF Fn, Last
<1>5. ASSUME NEW j \in 1 .. Len(functions)
      PROVE  Consts(j) \in Seq(Range(Consts(j))) /\ Len(Consts(j)) \in Nat
  BY LenProperties DEF Formed
<1> QED
  BY <1>1, <1>2, <1>3, <1>4, <1>5 DEF Formed

\* A function is told more of.
LEMMA Changed ==
  ASSUME Formed, NEW f \in 1 .. Len(functions), NEW g, NEW fs,
         DOMAIN fs = 1 .. Len(functions), fs = [j \in DOMAIN fs |-> fs[j]]
  PROVE  Len(fs) = Len(functions) /\ fs = [j \in 1 .. Len(fs) |-> fs[j]]
<1>1. PICK n \in Nat : n = Len(functions)
  BY FormedIs
<1>2. fs = [j \in 1 .. n |-> fs[j]]
  BY <1>1
<1>3. Len(fs) = n
  BY <1>2
<1> QED
  BY <1>1, <1>2, <1>3

LEMMA OtherConsts ==
  ASSUME NEW r, IsRecord(r), NEW c
  PROVE  LET g == [r EXCEPT !.consts = c] IN IsRecord(g) /\ g.consts = c
BY DEF IsRecord

\* A table has one entry more.
LEMMA OneMore ==
  ASSUME NEW s, s \in Seq(Range(s)), NEW e
  PROVE  /\ Append(s, e) \in Seq(Range(Append(s, e))) /\ Len(Append(s, e)) = Len(s) + 1
         /\ Append(s, e)[Len(s) + 1] = e
         /\ \A x \in 1 .. Len(s) : Append(s, e)[x] = s[x]
<1> DEFINE c == Append(s, e)
           T == Range(s) \cup {e}
<1>2. s \in Seq(T) /\ e \in T
  OBVIOUS
<1>3. /\ c \in Seq(T) /\ Len(c) = Len(s) + 1 /\ c[Len(s) + 1] = e
      /\ \A x \in 1 .. Len(s) : c[x] = s[x]
  <2> HIDE DEF T
  <2> QED
    BY <1>2, AppendProperties
<1>4. c \in Seq(Range(c))
  BY <1>3, SeqOfRange
<1> QED
  BY <1>3, <1>4

----------------------------------------------------------------------------
(* The steps.                                                              *)

\* No function gets an entry: a setting, an instruction, the end of the reading.
LEMMA SameEntries ==
  ASSUME OrderInv,
         Len(functions') = Len(functions),
         functions' = [j \in 1 .. Len(functions) |-> functions'[j]],
         \A j \in 1 .. Len(functions) : IsRecord(functions'[j]) /\ Consts(j)' = Consts(j),
         open' = open, open' = <<>> <=> status' = "done"
  PROVE  OrderInv'
<1> DEFINE n == Len(functions)
<1>1. Formed'
  BY FormedIs DEF OrderInv, Formed
<1>2. PathInwards' /\ NestedOnce'
  <2>1. \A d \in 1 .. Len(open) : open[d] \in 1 .. n
    BY FormedIs DEF OrderInv
  <2>2. Len(open) \in Nat
    BY FormedIs DEF OrderInv
  <2>3. \A d \in 1 .. Len(open) - 1 : Consts(open[d])' = Consts(open[d])
    BY <2>1, <2>2
  <2>4. PathInwards'
    BY <2>3 DEF OrderInv, PathInwards
  <2>5. PICK fs : fs = functions'
    OBVIOUS
  <2>6. Len(fs) = n /\ \A j \in 1 .. n : fs[j].consts = functions[j].consts
    BY <2>5 DEF Consts
  <2>7. OnceIn(fs, open)
    BY <2>6 DEF OrderInv, NestedOnce, OnceIn
  <2> QED
    BY <2>4, <2>5, <2>7 DEF NestedOnce
<1>3. Numbered'
  <2>1. PICK last \in [1 .. n -> 1 .. n] :
          Numbers(functions, last) /\ \A d \in 1 .. Len(open) : last[open[d]] = n
    BY DEF OrderInv, Numbered
  <2>2. PICK fs : fs = functions'
    OBVIOUS
  <2>3. Len(fs) = n /\ \A j \in 1 .. n : fs[j].consts = functions[j].consts
    BY <2>2 DEF Consts
  <2>4. \A j \in 1 .. n : \A x :
          /\ NestedIn(fs[j], x) = NestedIn(functions[j], x)
          /\ Begun(fs, last, j, x) = Begun(functions, last, j, x)
    BY <2>3 DEF Begun, NestedIn
  <2>5. Numbers(fs, last)
    <3>1. last[1] = Len(fs)
      BY <2>1, <2>3 DEF Numbers
    <3>2. ASSUME NEW j \in 1 .. n
          PROVE  last[j] = Begun(fs, last, j, Len(fs[j].consts))
      BY <2>1, <2>3, <2>4 DEF Numbers
    <3>3. ASSUME NEW j \in 1 .. n, NEW x \in NestedIn(fs[j], Len(fs[j].consts))
          PROVE  fs[j].consts[x] = Nested(Begun(fs, last, j, x - 1) + 1)
      <4>1. x \in NestedIn(functions[j], Len(functions[j].consts))
        BY <2>3, <2>4, <3>3
      <4>2. functions[j].consts[x] = Nested(Begun(functions, last, j, x - 1) + 1)
        BY <2>1, <4>1 DEF Numbers
      <4> QED
        BY <2>3, <2>4, <4>2
    <3> QED
      BY <2>3, <3>1, <3>2, <3>3 DEF Numbers
  <2> QED
    BY <2>1, <2>2, <2>5 DEF Numbered
<1> QED
  BY <1>1, <1>2, <1>3 DEF OrderInv

\* The function that is read gets an entry that is no function.
LEMMA EntryStep ==
  ASSUME OrderInv, open # <<>>, NEW e, ~IsNested(e),
         functions' = [functions EXCEPT ![Fn].consts = Append(@, e)],
         open' = open, status' = status
  PROVE  OrderInv'
<1> DEFINE n == Len(functions)
           m == Len(open)
<1>1. PICK f \in 1 .. n : f = Fn
  BY FormedIs DEF OrderInv
<1>2. m \in 1 .. m /\ f = open[m] /\ m \in Nat
  BY <1>1, FormedIs DEF OrderInv
<1> DEFINE C == Len(Consts(f))
<1>3. PICK g : /\ g = [functions[f] EXCEPT !.consts = Append(@, e)]
               /\ functions' = [functions EXCEPT ![f] = g]
  BY <1>1
<1>4. /\ IsRecord(g) /\ g.consts \in Seq(Range(g.consts)) /\ Len(g.consts) = C + 1
      /\ g.consts[C + 1] = e
      /\ \A x \in 1 .. C : g.consts[x] = Consts(f)[x]
  <2>1. PICK r, c : r = functions[f] /\ c = Append(Consts(f), e)
    OBVIOUS
  <2>2. IsRecord(r) /\ g = [r EXCEPT !.consts = c]
    BY <1>3, <2>1, FormedIs DEF OrderInv, Consts
  <2>3. IsRecord(g) /\ g.consts = c
    BY <2>2, OtherConsts
  <2>4. PICK k : k = Consts(f) /\ k \in Seq(Range(k))
    BY FormedIs DEF OrderInv
  <2>5. /\ c \in Seq(Range(c)) /\ Len(c) = Len(k) + 1 /\ c[Len(k) + 1] = e
        /\ \A x \in 1 .. Len(k) : c[x] = k[x]
    BY <2>1, <2>4, OneMore
  <2> QED
    BY <2>3, <2>4, <2>5
<1>5. C \in Nat
  BY FormedIs DEF OrderInv
<1>6. /\ Len(functions') = n /\ functions' = [j \in 1 .. n |-> functions'[j]]
      /\ functions'[f] = g
      /\ \A j \in 1 .. n : j # f => functions'[j] = functions[j]
  <2>1. PICK fs : fs = functions'
    OBVIOUS
  <2>2. /\ DOMAIN fs = 1 .. n /\ fs = [j \in DOMAIN fs |-> fs[j]]
        /\ fs[f] = g
        /\ \A j \in 1 .. n : j # f => fs[j] = functions[j]
    BY <1>3, <2>1, FormedIs DEF OrderInv
  <2>3. Len(fs) = n /\ fs = [j \in 1 .. Len(fs) |-> fs[j]]
    BY <2>2, Changed DEF OrderInv
  <2> QED
    BY <2>1, <2>2, <2>3
<1>7. \A j \in 1 .. n : j # f => Consts(j)' = Consts(j)
  BY <1>6 DEF Consts
<1>8. Consts(f)' = g.consts
  BY <1>6 DEF Consts
<1>9. \A d \in 1 .. m : open[d] \in 1 .. n
  BY FormedIs DEF OrderInv
<1>10. \A d \in 1 .. m - 1 : open[d] \in 1 .. n /\ open[d] # f
  <2> SUFFICES ASSUME NEW d \in 1 .. m - 1
               PROVE  open[d] \in 1 .. n /\ open[d] # f
    OBVIOUS
  <2>1. d \in 1 .. m /\ d < m
    BY <1>2
  <2>2. open[d] < open[m]
    BY <1>2, <2>1 DEF OrderInv, PathInwards
  <2>3. open[d] \in 1 .. n
    BY <1>9, <2>1
  <2>4. \A y \in 1 .. n : y < f => y # f
    OBVIOUS
  <2> QED
    BY <1>2, <2>2, <2>3, <2>4
<1>11. Formed'
  <2>1. \A j \in 1 .. n : IsRecord(functions'[j]) /\ Consts(j)' \in Seq(Range(Consts(j)'))
    <3> SUFFICES ASSUME NEW j \in 1 .. n
                 PROVE  IsRecord(functions'[j]) /\ Consts(j)' \in Seq(Range(Consts(j)'))
      OBVIOUS
    <3>1. CASE j = f
      BY <1>4, <1>6, <1>8, <3>1
    <3>2. CASE j # f
      BY <1>6, <1>7, <3>2, FormedIs DEF OrderInv
    <3> QED
      BY <3>1, <3>2
  <2> QED
    BY <1>6, <2>1 DEF OrderInv, Formed
<1>12. PathInwards'
  <2>1. \A d \in 1 .. m - 1 : Consts(open[d])' = Consts(open[d])
    BY <1>7, <1>10
  <2> QED
    BY <2>1 DEF OrderInv, PathInwards
<1>13. NestedOnce'
  <2> SUFFICES ASSUME NEW j \in 1 .. n, NEW x \in 1 .. Len(Consts(j)'), IsNested(Consts(j)'[x])
               PROVE  /\ Consts(j)'[x] = Nested(Consts(j)'[x][2])
                      /\ Consts(j)'[x][2] \in 2 .. n
                      /\ \A d \in 2 .. m : Consts(j)'[x][2] = open[d] =>
                           j = open[d - 1] /\ x = Len(Consts(j)')
    BY <1>6, SMTT(30) DEF NestedOnce, OnceIn, Consts
  <2>1. CASE j # f
    <3>1. Consts(j)' = Consts(j)
      BY <1>7, <2>1
    <3>2. x \in 1 .. Len(Consts(j)) /\ IsNested(Consts(j)[x])
      BY <3>1
    <3>3. /\ Consts(j)[x] = Nested(Consts(j)[x][2]) /\ Consts(j)[x][2] \in 2 .. n
          /\ \A d \in 2 .. m : Consts(j)[x][2] = open[d] =>
               j = open[d - 1] /\ x = Len(Consts(j))
      BY <3>2 DEF OrderInv, NestedOnce, OnceIn, Consts
    <3> QED
      BY <3>1, <3>3
  <2>2. CASE j = f
    <3>1. x \in 1 .. C
      <4>1. x \in 1 .. C + 1 /\ x # C + 1
        BY <1>4, <1>8, <2>2
      <4> QED
        BY <1>5, <4>1
    <3>2. Consts(j)'[x] = Consts(f)[x]
      BY <1>4, <1>8, <2>2, <3>1
    <3>3. /\ Consts(f)[x] = Nested(Consts(f)[x][2]) /\ Consts(f)[x][2] \in 2 .. n
          /\ \A d \in 2 .. m : Consts(f)[x][2] = open[d] => f = open[d - 1]
      BY <3>1, <3>2 DEF OrderInv, NestedOnce, OnceIn, Consts
    <3>4. \A d \in 2 .. m : f # open[d - 1]
      <4>1. \A d \in 2 .. m : d - 1 \in 1 .. m - 1
        BY <1>2
      <4> QED
        BY <1>10, <4>1
    <3> QED
      BY <3>2, <3>3, <3>4
  <2> QED
    BY <2>1, <2>2
<1>14. Numbered'
  <2>1. PICK last \in [1 .. n -> 1 .. n] :
          Numbers(functions, last) /\ \A d \in 1 .. m : last[open[d]] = n
    BY DEF OrderInv, Numbered
  <2>2. ASSUME NEW j \in 1 .. n
        PROVE  \A x \in 0 .. Len(Consts(j)) :
                 Begun(functions', last, j, x) = Begun(functions, last, j, x)
    <3>1. \A x \in 1 .. Len(Consts(j)) : functions'[j].consts[x] = functions[j].consts[x]
      BY <1>4, <1>6 DEF Consts
    <3>2. PICK l \in Nat : l = Len(Consts(j))
      BY FormedIs DEF OrderInv
    <3>3. PICK t : t = functions'
      OBVIOUS
    <3>4. SameUpTo(functions, t, last, last, j, l)
      BY <3>1, <3>2, <3>3 DEF SameUpTo
    <3>5. \A x \in 0 .. l : Begun(t, last, j, x) = Begun(functions, last, j, x)
      BY <3>4, BegunSame
    <3> QED
      BY <3>2, <3>3, <3>5
  <2>3. C + 1 \in Nat \ {0} /\ (C + 1) - 1 = C /\ C \in 0 .. C
    BY <1>5
  <2>4. Begun(functions', last, f, C + 1) = Begun(functions, last, f, C)
    <3>1. PICK z \in Nat \ {0} : z = C + 1
      BY <2>3
    <3>2. ~IsNested(functions'[f].consts[z])
      BY <1>4, <1>6, <3>1
    <3>3. PICK t : t = functions'
      OBVIOUS
    <3>4. Begun(t, last, f, z) = IF IsNested(t[f].consts[z]) THEN last[t[f].consts[z][2]]
                                                             ELSE Begun(t, last, f, z - 1)
      BY BegunStep
    <3> QED
      BY <2>2, <2>3, <3>1, <3>2, <3>3, <3>4
  <2>5. Numbers(functions', last)
    <3>1. last[1] = n
      BY <2>1 DEF Numbers
    <3>2. ASSUME NEW j \in 1 .. n
          PROVE  last[j] = Begun(functions', last, j, Len(Consts(j)'))
      <4>1. last[j] = Begun(functions, last, j, Len(Consts(j)))
        BY <2>1 DEF Numbers, Consts
      <4>2. CASE j = f
        BY <1>4, <1>8, <2>4, <4>1, <4>2
      <4>3. CASE j # f
        <5>1. Len(Consts(j)) \in 0 .. Len(Consts(j))
          BY FormedIs DEF OrderInv
        <5> QED
          BY <1>7, <2>2, <4>1, <4>3, <5>1
      <4> QED
        BY <4>2, <4>3
    <3>3. ASSUME NEW j \in 1 .. n, NEW x \in 1 .. Len(Consts(j)'), IsNested(Consts(j)'[x])
          PROVE  Consts(j)'[x] = Nested(Begun(functions', last, j, x - 1) + 1)
      <4>1. x \in 1 .. Len(Consts(j)) /\ Consts(j)'[x] = Consts(j)[x]
        <5>1. CASE j = f
          <6>1. x \in 1 .. C + 1 /\ x # C + 1
            BY <1>4, <1>8, <3>3, <5>1
          <6>2. x \in 1 .. C
            BY <1>5, <6>1
          <6> QED
            BY <1>4, <1>8, <5>1, <6>2
        <5>2. CASE j # f
          BY <1>7, <5>2
        <5> QED
          BY <5>1, <5>2
      <4>2. Consts(j)[x] = Nested(Begun(functions, last, j, x - 1) + 1)
        BY <2>1, <3>3, <4>1 DEF Numbers, NestedIn, Consts
      <4>3. x - 1 \in 0 .. Len(Consts(j))
        BY <4>1, FormedIs DEF OrderInv
      <4> QED
        BY <2>2, <4>1, <4>2, <4>3
    <3> QED
      BY <1>6, <3>1, <3>2, <3>3 DEF Numbers, NestedIn, Consts
  <2>6. /\ last \in [1 .. Len(functions') -> 1 .. Len(functions')]
        /\ \A d \in 1 .. Len(open') : last[open'[d]] = Len(functions')
    BY <1>6, <2>1
  <2> QED
    BY <2>5, <2>6 DEF Numbered
<1> QED
  BY <1>11, <1>12, <1>13, <1>14 DEF OrderInv

\* The constants of a function end, and with them the function.
LEMMA EndOfFunction ==
  ASSUME OrderInv, open # <<>>, open' = Front(open), functions' = functions,
         open' = <<>> <=> status' = "done"
  PROVE  OrderInv'
<1> DEFINE n == Len(functions)
           m == Len(open)
<1>1. m \in Nat \ {0} /\ \A d \in 1 .. m : open[d] \in 1 .. n
  BY FormedIs DEF OrderInv
<1>2. PICK path : path = open'
  OBVIOUS
<1>3. /\ path \in Seq(1 .. n) /\ Len(path) = m - 1
      /\ \A d \in 1 .. m - 1 : path[d] = open[d]
  <2>1. Front(open) = [d \in 1 .. m - 1 |-> open[d]]
    BY DEF Front
  <2> QED
    BY <1>1, <1>2, <2>1
<1>4. /\ \A d \in 1 .. m - 1 : d \in 1 .. m
      /\ \A j : Consts(j)' = Consts(j)
  BY <1>1 DEF Consts
<1>5. Formed'
  BY <1>2, <1>3 DEF OrderInv, Formed, Consts
<1>6. PathInwards'
  <2>1. path # <<>> => path[1] = 1
    <3> SUFFICES ASSUME path # <<>>
                 PROVE  path[1] = 1
      OBVIOUS
    <3>1. m - 1 # 0
      BY <1>3, EmptySeq
    <3>2. 1 \in 1 .. m - 1
      <4>1. \A l \in Nat \ {0} : l - 1 # 0 => 1 \in 1 .. l - 1
        OBVIOUS
      <4> QED
        BY <1>1, <3>1, <4>1
    <3> QED
      BY <1>3, <3>2 DEF OrderInv, PathInwards
  <2>2. \A d, e \in 1 .. m - 1 : d < e => path[d] < path[e]
    BY <1>3, <1>4 DEF OrderInv, PathInwards
  <2>3. ASSUME NEW d \in 1 .. (m - 1) - 1
        PROVE  Consts(path[d]) # <<>> /\ Last(Consts(path[d])) = Nested(path[d + 1])
    <3>1. d \in 1 .. m - 1 /\ d + 1 \in 1 .. m - 1
      BY <1>1
    <3>2. Consts(open[d]) # <<>> /\ Last(Consts(open[d])) = Nested(open[d + 1])
      BY <3>1 DEF OrderInv, PathInwards
    <3> QED
      BY <1>3, <3>1, <3>2
  <2> QED
    BY <1>2, <1>3, <1>4, <2>1, <2>2, <2>3 DEF PathInwards
<1>7. NestedOnce'
  <2> SUFFICES ASSUME NEW j \in 1 .. n, NEW x \in 1 .. Len(Consts(j)), IsNested(Consts(j)[x])
               PROVE  /\ Consts(j)[x] = Nested(Consts(j)[x][2]) /\ Consts(j)[x][2] \in 2 .. n
                      /\ \A d \in 2 .. m - 1 : Consts(j)[x][2] = path[d] =>
                           j = path[d - 1] /\ x = Len(Consts(j))
    BY <1>2, <1>3, <1>4 DEF NestedOnce, OnceIn, Consts
  <2>1. /\ Consts(j)[x] = Nested(Consts(j)[x][2]) /\ Consts(j)[x][2] \in 2 .. n
        /\ \A d \in 2 .. m : Consts(j)[x][2] = open[d] =>
             j = open[d - 1] /\ x = Len(Consts(j))
    BY DEF OrderInv, NestedOnce, OnceIn, Consts
  <2>2. \A d \in 2 .. m - 1 : d \in 2 .. m /\ d \in 1 .. m - 1 /\ d - 1 \in 1 .. m - 1
    BY <1>1
  <2> QED
    BY <1>3, <2>1, <2>2
<1>8. Numbered'
  <2>1. PICK last \in [1 .. n -> 1 .. n] :
          Numbers(functions, last) /\ \A d \in 1 .. m : last[open[d]] = n
    BY DEF OrderInv, Numbered
  <2>2. \A d \in 1 .. m - 1 : last[path[d]] = n
    BY <1>3, <1>4, <2>1
  <2>3. \A d \in 1 .. Len(path) : last[path[d]] = n
    BY <1>3, <2>2
  <2> QED
    BY <1>2, <2>1, <2>3, Zenon DEF Numbered
<1> QED
  BY <1>5, <1>6, <1>7, <1>8 DEF OrderInv

\* The function that is read gets a function as its last entry, which is read now.
LEMMA NestedStep ==
  ASSUME OrderInv, open # <<>>, NEW new, IsRecord(new), new.consts = <<>>,
         functions' = Append([functions EXCEPT ![Fn].consts = Append(@, Nested(Len(functions) + 1))],
                             new),
         open' = Append(open, Len(functions) + 1), status' = status
  PROVE  OrderInv'
<1>1. PICK n \in Nat \ {0} : n = Len(functions)
  BY FormedIs DEF OrderInv
<1>2. PICK m \in Nat \ {0} : m = Len(open)
  BY FormedIs DEF OrderInv
<1>3. PICK f \in 1 .. n : f = Fn /\ f = open[m]
  BY <1>1, <1>2, FormedIs DEF OrderInv
<1>4. PICK C \in Nat : C = Len(Consts(f))
  BY <1>1, FormedIs DEF OrderInv
<1>5. PICK g : g = [functions[f] EXCEPT !.consts = Append(@, Nested(n + 1))]
  OBVIOUS
<1>6. /\ IsRecord(g) /\ g.consts \in Seq(Range(g.consts)) /\ Len(g.consts) = C + 1
      /\ g.consts[C + 1] = Nested(n + 1)
      /\ \A x \in 1 .. C : g.consts[x] = Consts(f)[x]
  <2>1. PICK r, c, e : r = functions[f] /\ c = Append(Consts(f), e) /\ e = Nested(n + 1)
    OBVIOUS
  <2>2. IsRecord(r) /\ g = [r EXCEPT !.consts = c]
    BY <1>1, <1>5, <2>1, FormedIs DEF OrderInv, Consts
  <2>3. IsRecord(g) /\ g.consts = c
    BY <2>2, OtherConsts
  <2>4. PICK k : k = Consts(f) /\ k \in Seq(Range(k))
    BY <1>1, FormedIs DEF OrderInv
  <2>5. /\ c \in Seq(Range(c)) /\ Len(c) = Len(k) + 1 /\ c[Len(k) + 1] = e
        /\ \A x \in 1 .. Len(k) : c[x] = k[x]
    BY <2>1, <2>4, OneMore
  <2> QED
    BY <1>4, <2>1, <2>3, <2>4, <2>5
<1>7. PICK fs : fs = [functions EXCEPT ![f] = g]
  OBVIOUS
<1>8. /\ fs \in Seq(Range(functions) \cup {g}) /\ Len(fs) = n
      /\ fs[f] = g
      /\ \A j \in 1 .. n : j # f => fs[j] = functions[j]
  <2>1. functions \in Seq(Range(functions) \cup {g}) /\ DOMAIN functions = 1 .. n
    BY <1>1, FormedIs DEF OrderInv
  <2>2. fs \in Seq(Range(functions) \cup {g}) /\ Len(fs) = n
    BY <1>1, <1>7, <2>1, ExceptSeq
  <2> QED
    BY <1>7, <2>1, <2>2
<1>9. PICK gs : gs = functions'
  OBVIOUS
<1>10. /\ Len(gs) = n + 1 /\ gs = [j \in 1 .. n + 1 |-> gs[j]]
       /\ gs[f] = g /\ gs[n + 1] = new
       /\ \A j \in 1 .. n : j # f => gs[j] = functions[j]
  <2>1. gs = Append(fs, new)
    BY <1>1, <1>3, <1>5, <1>7, <1>9
  <2> DEFINE T == Range(functions) \cup {g, new}
  <2>2. fs \in Seq(T) /\ new \in T
    BY <1>8
  <2>3. gs \in Seq(T) /\ Len(gs) = n + 1 /\ gs[n + 1] = new /\ \A j \in 1 .. n : gs[j] = fs[j]
    <3> HIDE DEF T
    <3>1. /\ Append(fs, new) \in Seq(T) /\ Len(Append(fs, new)) = Len(fs) + 1
          /\ Append(fs, new)[Len(fs) + 1] = new
          /\ \A j \in 1 .. Len(fs) : Append(fs, new)[j] = fs[j]
      BY <2>2, AppendProperties
    <3> QED
      BY <1>8, <2>1, <3>1
  <2> QED
    BY <1>8, <2>3
<1>11. PICK path : path = open'
  OBVIOUS
<1>12. /\ path \in Seq(1 .. n + 1) /\ Len(path) = m + 1 /\ path[m + 1] = n + 1
       /\ \A d \in 1 .. m : path[d] = open[d] /\ open[d] \in 1 .. n
  <2>1. open \in Seq(1 .. n + 1) /\ n + 1 \in 1 .. n + 1
    BY <1>1 DEF OrderInv, Formed
  <2>2. \A d \in 1 .. m : open[d] \in 1 .. n
    BY <1>1, <1>2, FormedIs DEF OrderInv
  <2> QED
    BY <1>1, <1>2, <1>11, <2>1, <2>2, AppendProperties
<1>13. /\ \A j \in 1 .. n : j # f => gs[j].consts = Consts(j)
       /\ gs[f].consts = g.consts
       /\ gs[n + 1].consts = <<>>
  BY <1>10 DEF Consts
<1>14. /\ \A d \in 1 .. m - 1 : open[d] # f
       /\ open[1] = 1
  <2>1. ASSUME NEW d \in 1 .. m - 1
        PROVE  open[d] # f
    <3>1. d \in 1 .. m /\ m \in 1 .. m /\ d < m
      OBVIOUS
    <3>2. open[d] < open[m]
      BY <1>2, <3>1 DEF OrderInv, PathInwards
    <3>3. open[d] \in 1 .. n
      BY <1>12, <3>1
    <3>4. \A y \in 1 .. n : y < f => y # f
      OBVIOUS
    <3> QED
      BY <1>3, <3>2, <3>3, <3>4
  <2> QED
    BY <2>1 DEF OrderInv, PathInwards
<1>15. Formed'
  <2>1. \A j \in 1 .. n + 1 : IsRecord(gs[j]) /\ gs[j].consts \in Seq(Range(gs[j].consts))
    <3> SUFFICES ASSUME NEW j \in 1 .. n + 1
                 PROVE  IsRecord(gs[j]) /\ gs[j].consts \in Seq(Range(gs[j].consts))
      OBVIOUS
    <3>1. CASE j = f
      BY <1>6, <1>10, <3>1
    <3>2. CASE j = n + 1
      <4>1. gs[j].consts = <<>> /\ IsRecord(gs[j])
        BY <1>10, <3>2
      <4> QED
        BY <4>1, EmptySeq
    <3>3. CASE j # f /\ j # n + 1
      <4>1. j \in 1 .. n
        BY <3>3
      <4> QED
        BY <1>1, <1>10, <3>3, <4>1, FormedIs DEF OrderInv, Consts
    <3> QED
      BY <3>1, <3>2, <3>3
  <2>2. path # <<>>
    BY <1>12, EmptySeq
  <2>3. status' # "done"
    BY DEF OrderInv, Formed
  <2>4. /\ Len(gs) \in Nat \ {0} /\ gs = [j \in 1 .. Len(gs) |-> gs[j]]
        /\ \A j \in 1 .. Len(gs) : IsRecord(gs[j]) /\ gs[j].consts \in Seq(Range(gs[j].consts))
        /\ path \in Seq(1 .. Len(gs))
    BY <1>10, <1>12, <2>1
  <2> QED
    BY <1>9, <1>11, <2>2, <2>3, <2>4 DEF Formed, Consts
<1>16. PathInwards'
  <2>1. path[1] = 1
    BY <1>12, <1>14
  <2>2. ASSUME NEW d \in 1 .. m + 1, NEW e \in 1 .. m + 1, d < e
        PROVE  path[d] < path[e]
    <3>1. d \in 1 .. m
      BY <2>2
    <3>2. CASE e = m + 1
      <4>1. \A y \in 1 .. n : y < n + 1
        OBVIOUS
      <4> QED
        BY <1>12, <3>1, <3>2, <4>1
    <3>3. CASE e # m + 1
      <4>1. e \in 1 .. m
        BY <3>3
      <4> QED
        BY <1>2, <1>12, <2>2, <3>1, <4>1 DEF OrderInv, PathInwards
    <3> QED
      BY <3>2, <3>3
  <2>3. ASSUME NEW d \in 1 .. m
        PROVE  gs[path[d]].consts # <<>> /\ Last(gs[path[d]].consts) = Nested(path[d + 1])
    <3>1. CASE d = m
      <4>1. /\ gs[path[d]].consts = g.consts /\ path[d + 1] = n + 1
        BY <1>3, <1>12, <1>13, <3>1
      <4>2. g.consts # <<>>
        <5>1. Len(g.consts) # 0
          BY <1>6
        <5> QED
          BY <5>1, EmptySeq
      <4>3. Last(g.consts) = Nested(n + 1)
        BY <1>6 DEF Last
      <4> QED
        BY <4>1, <4>2, <4>3
    <3>2. CASE d # m
      <4>1. d \in 1 .. m - 1 /\ d \in 1 .. m /\ d + 1 \in 1 .. m
        BY <3>2
      <4>2. gs[path[d]].consts = Consts(open[d]) /\ path[d + 1] = open[d + 1]
        BY <1>12, <1>13, <1>14, <4>1
      <4> QED
        BY <1>2, <4>1, <4>2 DEF OrderInv, PathInwards
    <3> QED
      BY <3>1, <3>2
  <2>4. Len(path) - 1 = m
    BY <1>12
  <2> QED
    BY <1>9, <1>11, <1>12, <2>1, <2>2, <2>3, <2>4 DEF PathInwards, Consts
\* The functions read before are not the new one, and the old ones are in their place.
<1>17. ASSUME NEW j \in 1 .. n, NEW x \in 1 .. Len(Consts(j)), IsNested(Consts(j)[x])
       PROVE  /\ Consts(j)[x] = Nested(Consts(j)[x][2]) /\ Consts(j)[x][2] \in 2 .. n
              /\ \A d \in 2 .. m : Consts(j)[x][2] = open[d] =>
                   j = open[d - 1] /\ x = Len(Consts(j)) /\ j # f
  <2>1. /\ Consts(j)[x] = Nested(Consts(j)[x][2]) /\ Consts(j)[x][2] \in 2 .. n
        /\ \A d \in 2 .. m : Consts(j)[x][2] = open[d] =>
             j = open[d - 1] /\ x = Len(Consts(j))
    BY <1>1, <1>2, <1>17 DEF OrderInv, NestedOnce, OnceIn, Consts
  <2>2. \A d \in 2 .. m : d - 1 \in 1 .. m - 1
    OBVIOUS
  <2> QED
    BY <1>14, <2>1, <2>2
<1>18. NestedOnce'
  <2>1. ASSUME NEW j \in 1 .. n + 1, NEW x \in 1 .. Len(gs[j].consts), IsNested(gs[j].consts[x])
        PROVE  /\ gs[j].consts[x] = Nested(gs[j].consts[x][2])
               /\ gs[j].consts[x][2] \in 2 .. n + 1
               /\ \A d \in 2 .. m + 1 : gs[j].consts[x][2] = path[d] =>
                    j = path[d - 1] /\ x = Len(gs[j].consts)
    <3>1. j # n + 1
      <4>1. \A l : l = 0 => ~(x \in 1 .. l)
        OBVIOUS
      <4> QED
        BY <1>13, <2>1, <4>1, EmptySeq
    <3>2. j \in 1 .. n
      BY <3>1
    <3>3. CASE j = f /\ x = C + 1
      <4>1. gs[j].consts[x] = Nested(n + 1) /\ x = Len(gs[j].consts)
        BY <1>6, <1>13, <3>3
      <4>2. Nested(n + 1)[2] = n + 1 /\ n + 1 \in 2 .. n + 1
        BY DEF Nested
      <4>3. \A d \in 2 .. m + 1 : n + 1 = path[d] => d = m + 1
        <5> SUFFICES ASSUME NEW d \in 2 .. m + 1, d # m + 1
                     PROVE  n + 1 # path[d]
          OBVIOUS
        <5>1. d \in 1 .. m
          OBVIOUS
        <5>2. path[d] \in 1 .. n
          BY <1>12, <5>1
        <5> QED
          BY <5>2
      <4>4. (m + 1) - 1 = m /\ path[m] = f
        BY <1>3, <1>12
      <4> QED
        BY <3>3, <4>1, <4>2, <4>3, <4>4
    <3>4. CASE ~(j = f /\ x = C + 1)
      <4>1. x \in 1 .. Len(Consts(j)) /\ gs[j].consts[x] = Consts(j)[x]
        <5>1. CASE j = f
          <6>1. x \in 1 .. C + 1 /\ x # C + 1
            BY <1>6, <1>13, <3>4, <5>1
          <6>2. x \in 1 .. C
            BY <6>1
          <6> QED
            BY <1>4, <1>6, <1>13, <5>1, <6>2
        <5>2. CASE j # f
          BY <1>13, <3>2, <5>2
        <5> QED
          BY <5>1, <5>2
      <4>2. IsNested(Consts(j)[x])
        BY <2>1, <4>1
      <4>3. PICK k \in 2 .. n : k = Consts(j)[x][2]
        BY <1>17, <3>2, <4>1, <4>2
      <4>4. /\ Consts(j)[x] = Nested(k)
            /\ \A d \in 2 .. m : k = open[d] =>
                 j = open[d - 1] /\ x = Len(Consts(j)) /\ j # f
        BY <1>17, <3>2, <4>1, <4>2, <4>3
      <4>5. ASSUME NEW d \in 2 .. m + 1, k = path[d]
            PROVE  j = path[d - 1] /\ x = Len(gs[j].consts)
        <5>1. d # m + 1 /\ k \in 2 .. n + 1
          <6>1. path[m + 1] = n + 1 /\ k # n + 1 /\ k \in 2 .. n + 1
            BY <1>12
          <6> QED
            BY <4>5, <6>1
        <5>2. d \in 2 .. m /\ d \in 1 .. m /\ d - 1 \in 1 .. m
          BY <5>1
        <5>3. j = open[d - 1] /\ x = Len(Consts(j)) /\ j # f
          BY <1>12, <4>4, <4>5, <5>2
        <5> QED
          BY <1>12, <1>13, <3>2, <5>2, <5>3
      <4>6. k \in 2 .. n + 1
        OBVIOUS
      <4> QED
        BY <4>1, <4>3, <4>4, <4>5, <4>6
    <3> QED
      BY <3>3, <3>4
  <2>2. OnceIn(gs, path)
    <3>1. Len(gs) = n + 1 /\ Len(path) = m + 1
      BY <1>10, <1>12
    <3> QED
      BY <2>1, <3>1, Zenon DEF OnceIn
  <2> QED
    BY <1>9, <1>11, <2>2 DEF NestedOnce
<1>19. Numbered'
  <2>1. PICK last \in [1 .. n -> 1 .. n] :
          Numbers(functions, last) /\ \A d \in 1 .. m : last[open[d]] = n
    BY <1>1, <1>2 DEF OrderInv, Numbered
  <2> DEFINE IsOpen(j) == \E d \in 1 .. m : open[d] = j
  <2>2. PICK last2 :
          last2 = [j \in 1 .. n + 1 |-> IF j = n + 1 \/ IsOpen(j) THEN n + 1 ELSE last[j]]
    OBVIOUS
  <2>3. /\ last2 \in [1 .. n + 1 -> 1 .. n + 1]
        /\ last2[n + 1] = n + 1
        /\ \A j \in 1 .. n : last2[j] = IF IsOpen(j) THEN n + 1 ELSE last[j]
    BY <2>2
  <2>4. /\ \A d \in 1 .. m + 1 : last2[path[d]] = n + 1
        /\ last2[f] = n + 1
    <3>1. \A d \in 1 .. m : path[d] \in 1 .. n /\ IsOpen(path[d])
      BY <1>12
    <3>2. \A d \in 1 .. m : last2[path[d]] = n + 1
      BY <2>3, <3>1
    <3>3. last2[path[m + 1]] = n + 1
      BY <1>12, <2>3
    <3>4. \A d \in 1 .. m + 1 : d \in 1 .. m \/ d = m + 1
      OBVIOUS
    <3>5. m \in 1 .. m /\ path[m] = f
      BY <1>3, <1>12
    <3> QED
      BY <3>2, <3>3, <3>4, <3>5
  <2> HIDE DEF IsOpen
  \* Up to an entry that is not being read, nothing has moved.
  <2>5. ASSUME NEW j \in 1 .. n, NEW l \in 0 .. Len(Consts(j)),
               l # Len(Consts(j)) \/ j = f \/ ~IsOpen(j)
        PROVE  Begun(gs, last2, j, l) = Begun(functions, last, j, l)
    <3>1. Len(Consts(j)) \in Nat /\ l \in Nat /\ l \in 0 .. l
      BY <1>1, FormedIs DEF OrderInv
    <3>2. \A x \in 1 .. l : x \in 1 .. Len(Consts(j))
      BY <3>1
    <3>3. \A x \in 1 .. l : gs[j].consts[x] = functions[j].consts[x]
      BY <1>4, <1>6, <1>13, <3>2 DEF Consts
    <3>4. ASSUME NEW x \in 1 .. l, IsNested(Consts(j)[x])
          PROVE  last2[Consts(j)[x][2]] = last[Consts(j)[x][2]]
      <4>1. PICK k \in 2 .. n : k = Consts(j)[x][2]
        BY <1>17, <3>2, <3>4
      <4>2. ASSUME NEW d \in 1 .. m, open[d] = k
            PROVE  FALSE
        <5>1. d # 1
          <6>1. k # 1
            OBVIOUS
          <6> QED
            BY <1>14, <4>2, <6>1
        <5>2. d \in 2 .. m /\ d - 1 \in 1 .. m
          BY <5>1
        <5>3. j = open[d - 1] /\ x = Len(Consts(j)) /\ j # f
          BY <1>17, <3>2, <3>4, <4>1, <4>2, <5>2
        <5>4. IsOpen(j)
          BY <5>2, <5>3 DEF IsOpen
        <5>5. l = Len(Consts(j))
          BY <3>1, <5>3
        <5> QED
          BY <2>5, <5>3, <5>4, <5>5
      <4>3. ~IsOpen(k)
        BY <4>2 DEF IsOpen
      <4>4. k \in 1 .. n
        OBVIOUS
      <4> QED
        BY <2>3, <4>1, <4>3, <4>4
    <3>5. SameUpTo(functions, gs, last, last2, j, l)
      BY <3>3, <3>4 DEF SameUpTo, Consts
    <3> QED
      BY <3>1, <3>5, BegunSame
  <2>6. last[f] = Begun(functions, last, f, C) /\ last[f] = n
    BY <1>1, <1>3, <1>4, <2>1 DEF Numbers, Consts
  \* Where the functions end.
  <2>7. ASSUME NEW j \in 1 .. n + 1
        PROVE  last2[j] = Begun(gs, last2, j, Len(gs[j].consts))
    <3>1. CASE j = n + 1
      <4>1. Len(gs[j].consts) = 0 /\ NestedIn(gs[j], 0) = {}
        BY <1>13, <3>1 DEF NestedIn
      <4> QED
        BY <2>3, <3>1, <4>1 DEF Begun
    <3>2. CASE j # n + 1 /\ ~IsOpen(j)
      <4>1. j \in 1 .. n /\ j # f
        BY <1>3, <3>2 DEF IsOpen
      <4>2. Len(Consts(j)) \in 0 .. Len(Consts(j))
        BY <1>1, <4>1, FormedIs DEF OrderInv
      <4>3. last[j] = Begun(functions, last, j, Len(Consts(j)))
        BY <1>1, <2>1, <4>1 DEF Numbers, Consts
      <4> QED
        BY <1>13, <2>3, <2>5, <3>2, <4>1, <4>2, <4>3
    <3>3. CASE j # n + 1 /\ IsOpen(j)
      <4>1. PICK d \in 1 .. m : path[d] = j
        BY <1>12, <3>3 DEF IsOpen
      <4>2. d \in 1 .. m + 1 /\ d + 1 \in 1 .. m + 1
        OBVIOUS
      <4>3. PICK z : z = Len(gs[j].consts)
        OBVIOUS
      <4>4. z \in Nat \ {0} /\ gs[j].consts[z] = Nested(path[d + 1])
        <5>1. /\ gs[j].consts \in Seq(Range(gs[j].consts))
              /\ gs[j].consts # <<>> /\ Last(gs[j].consts) = Nested(path[d + 1])
          <6>1. Len(path) - 1 = m
            BY <1>12
          <6>2. Formed' /\ PathInwards'
            BY <1>15, <1>16
          <6> QED
            BY <1>9, <1>10, <1>11, <4>1, <6>1, <6>2 DEF Formed, PathInwards, Consts
        <5>2. Len(gs[j].consts) \in Nat
          BY <5>1, LenProperties
        <5>3. Len(gs[j].consts) # 0
          BY <5>1, EmptySeq
        <5> QED
          BY <4>3, <5>1, <5>2, <5>3 DEF Last
      <4>5. IsNested(gs[j].consts[z]) /\ gs[j].consts[z][2] = path[d + 1]
        BY <4>4 DEF IsNested, Nested
      <4>6. Begun(gs, last2, j, z) = last2[path[d + 1]]
        BY <4>4, <4>5, BegunStep
      <4> QED
        BY <2>4, <4>1, <4>2, <4>3, <4>6
    <3> QED
      BY <3>1, <3>2, <3>3
  \* The numbers of the entries.
  <2>8. ASSUME NEW j \in 1 .. n + 1, NEW x \in 1 .. Len(gs[j].consts), IsNested(gs[j].consts[x])
        PROVE  gs[j].consts[x] = Nested(Begun(gs, last2, j, x - 1) + 1)
    <3>1. j # n + 1
      <4>1. \A l : l = 0 => ~(x \in 1 .. l)
        OBVIOUS
      <4> QED
        BY <1>13, <2>8, <4>1, EmptySeq
    <3>2. j \in 1 .. n
      BY <3>1
    <3>3. CASE j = f /\ x = C + 1
      <4>1. x - 1 = C /\ C \in 0 .. C
        BY <3>3
      <4>2. Begun(gs, last2, f, C) = n
        BY <1>4, <2>5, <2>6, <4>1
      <4> QED
        BY <1>6, <1>13, <3>3, <4>1, <4>2
    <3>4. CASE ~(j = f /\ x = C + 1)
      <4>1. x \in 1 .. Len(Consts(j)) /\ gs[j].consts[x] = Consts(j)[x]
        <5>1. CASE j = f
          <6>1. x \in 1 .. C + 1 /\ x # C + 1
            BY <1>6, <1>13, <3>4, <5>1
          <6>2. x \in 1 .. C
            BY <6>1
          <6> QED
            BY <1>4, <1>6, <1>13, <5>1, <6>2
        <5>2. CASE j # f
          BY <1>13, <3>2, <5>2
        <5> QED
          BY <5>1, <5>2
      <4>2. Consts(j)[x] = Nested(Begun(functions, last, j, x - 1) + 1)
        BY <1>1, <2>1, <2>8, <3>2, <4>1 DEF Numbers, NestedIn, Consts
      <4>3. x - 1 \in 0 .. Len(Consts(j)) /\ x - 1 # Len(Consts(j))
        <5>1. Len(Consts(j)) \in Nat
          BY <1>1, <3>2, FormedIs DEF OrderInv
        <5>2. \A l \in Nat : \A y \in 1 .. l : y - 1 \in 0 .. l /\ y - 1 # l
          OBVIOUS
        <5> QED
          BY <4>1, <5>1, <5>2
      <4>4. Begun(gs, last2, j, x - 1) = Begun(functions, last, j, x - 1)
        BY <2>5, <3>2, <4>3
      <4> QED
        BY <4>1, <4>2, <4>4
    <3> QED
      BY <3>3, <3>4
  <2>9. last2[1] = n + 1
    <3>1. 1 \in 1 .. m + 1 /\ 1 \in 1 .. m
      OBVIOUS
    <3> QED
      BY <1>12, <1>14, <2>4, <3>1
  <2>10. Numbers(gs, last2)
    BY <1>10, <2>7, <2>8, <2>9 DEF Numbers, NestedIn
  <2>11. /\ last2 \in [1 .. Len(gs) -> 1 .. Len(gs)]
         /\ \A d \in 1 .. Len(path) : last2[path[d]] = Len(gs)
    BY <1>10, <1>12, <2>3, <2>4
  <2> QED
    BY <1>9, <1>11, <2>10, <2>11 DEF Numbered
<1> QED
  BY <1>15, <1>16, <1>18, <1>19 DEF OrderInv

\* A function changes, but for its entries.
LEMMA ChangeStep ==
  ASSUME OrderInv, NEW f \in 1 .. Len(functions), NEW g, IsRecord(g), g.consts = Consts(f),
         functions' = [functions EXCEPT ![f] = g], open' = open, status' = status
  PROVE  OrderInv'
<1>1. PICK fs : fs = functions'
  OBVIOUS
<1>2. /\ DOMAIN fs = 1 .. Len(functions) /\ fs = [j \in DOMAIN fs |-> fs[j]]
      /\ fs[f] = g
      /\ \A j \in 1 .. Len(functions) : j # f => fs[j] = functions[j]
  BY <1>1, FormedIs DEF OrderInv
<1>3. Len(fs) = Len(functions) /\ fs = [j \in 1 .. Len(functions) |-> fs[j]]
  BY <1>2, Changed DEF OrderInv
<1>4. ASSUME NEW j \in 1 .. Len(functions)
      PROVE  IsRecord(fs[j]) /\ fs[j].consts = Consts(j)
  <2>1. CASE j = f
    BY <1>2, <2>1
  <2>2. CASE j # f
    BY <1>2, <2>2, FormedIs DEF OrderInv, Consts
  <2> QED
    BY <2>1, <2>2
<1>5. \A j \in 1 .. Len(functions) : IsRecord(functions'[j]) /\ Consts(j)' = Consts(j)
  BY <1>1, <1>4 DEF Consts
<1> QED
  BY <1>1, <1>3, <1>5, SameEntries DEF OrderInv, Formed

\* The reading goes on, or ends early.
LEMMA NothingRead ==
  ASSUME OrderInv, status = "reading", functions' = functions, open' = open, status' # "done"
  PROVE  OrderInv'
<1>1. open # <<>>
  BY DEF OrderInv, Formed
<1>2. \A j \in 1 .. Len(functions) : IsRecord(functions'[j]) /\ Consts(j)' = Consts(j)
  BY FormedIs DEF OrderInv, Consts
<1> QED
  BY <1>1, <1>2, SameEntries DEF OrderInv, Formed

\* No word and no line that is read makes a program of what is not finished.
LEMMA ReadsAre ==
  ASSUME NEW p
  PROVE  /\ ReadNext(p).how # "done"
         /\ ReadLine(p).how # "done"
<1>1. \A a, b, c : Word(a, b, c).how = "reading"
  BY DEF Word
<1>2. \A how : Stuck(how).how = how /\ NoLine(how).how = how
  BY DEF Stuck, NoLine
<1>3. \A a, b : Line(a, b).how = "reading"
  BY DEF Line
<1>4. ReadNext(p).how # "done"
  BY <1>1, <1>2 DEF ReadNext
<1>5. ReadLine(p).how # "done"
  BY <1>2, <1>3 DEF ReadLine
<1> QED
  BY <1>4, <1>5

LEMMA ReadingIs ==
  ASSUME OrderInv, status = "reading"
  PROVE  open # <<>> /\ Fn \in 1 .. Len(functions)
BY FormedIs DEF OrderInv, Formed

LEMMA ExpectStep ==
  ASSUME OrderInv, Expect
  PROVE  OrderInv'
<1>1. status = "reading" /\ functions' = functions /\ open' = open /\ status' # "done"
  BY DEF Expect, Reading, GoOn, End
<1> QED
  BY <1>1, NothingRead

LEMMA ReadSettingStep ==
  ASSUME OrderInv, ReadSetting
  PROVE  OrderInv'
<1>1. PICK s, v :
        /\ status = "reading" /\ s = ReadNext(pos) /\ v = ReadNext(s.next)
        /\ \/ s.how # "reading" /\ End(s.how)
           \/ GoOn(s.next, ">CODE", functions)
           \/ s.word \in Settings /\ v.how # "reading" /\ End(v.how)
           \/ /\ s.word \in Settings
              /\ GoOn(v.next, wanted, [functions EXCEPT ![Fn] = Set(@, s.word, v)])
           \/ End("exit1")
  BY DEF ReadSetting, Reading
<1>2. s.how # "done" /\ v.how # "done"
  BY <1>1, ReadsAre
<1>3. PICK f \in 1 .. Len(functions) : f = Fn
  BY <1>1, ReadingIs
<1>4. CASE s.word \in Settings
           /\ GoOn(v.next, wanted, [functions EXCEPT ![Fn] = Set(@, s.word, v)])
  <2>1. PICK g : g = Set(functions[f], s.word, v)
    OBVIOUS
  <2>2. IsRecord(g) /\ g.consts = Consts(f)
    <3>1. IsRecord(functions[f])
      BY FormedIs DEF OrderInv
    <3> QED
      BY <1>4, <2>1, <3>1 DEF Set, Settings, IsRecord, Consts
  <2>3. functions' = [functions EXCEPT ![f] = g] /\ open' = open /\ status' = status
    BY <1>3, <1>4, <2>1 DEF GoOn
  <2> QED
    BY <2>2, <2>3, ChangeStep
<1>5. CASE \/ s.how # "reading" /\ End(s.how)
           \/ GoOn(s.next, ">CODE", functions)
           \/ s.word \in Settings /\ v.how # "reading" /\ End(v.how)
           \/ End("exit1")
  <2>1. functions' = functions /\ open' = open /\ status' # "done"
    BY <1>1, <1>2, <1>5 DEF End, GoOn
  <2> QED
    BY <1>1, <2>1, NothingRead
<1> QED
  BY <1>1, <1>4, <1>5

LEMMA ReadOpcodeStep ==
  ASSUME OrderInv, ReadOpcode
  PROVE  OrderInv'
<1>1. PICK s, v : status = "reading" /\ s = ReadNext(pos) /\ v = ReadNext(s.next)
                  /\ (functions' = functions /\ open' = open)
                  /\ status' \in {status, s.how, v.how, "exit1"}
  BY DEF ReadOpcode, Reading, End, GoOn
<1>2. status' # "done"
  BY <1>1, ReadsAre
<1> QED
  BY <1>1, <1>2, NothingRead

\* An instruction is code.
LEMMA PushStep ==
  ASSUME OrderInv, status = "reading", NEW args, NEW next, Push(args, next)
  PROVE  OrderInv'
<1>1. PICK f \in 1 .. Len(functions) : f = Fn
  BY ReadingIs
<1>2. PICK g : g = [functions[f] EXCEPT !.code = Append(@, Compiled(inst.op, args))]
  OBVIOUS
<1>3. IsRecord(g) /\ g.consts = Consts(f)
  <2>1. IsRecord(functions[f])
    BY FormedIs DEF OrderInv
  <2> QED
    BY <1>2, <2>1 DEF IsRecord, Consts
<1>4. functions' = [functions EXCEPT ![f] = g] /\ open' = open /\ status' = status
  BY <1>1, <1>2 DEF Push
<1> QED
  BY <1>3, <1>4, ChangeStep

LEMMA ReadOperandStep ==
  ASSUME OrderInv, ReadOperand
  PROVE  OrderInv'
<1>1. status = "reading"
  BY DEF ReadOperand, Reading
<1>2. \/ \E args, next : Push(args, next)
      \/ \E how \in {"exit1", "exhausted", "hangs"} : End(how)
      \/ UNCHANGED <<functions, open, status>>
  BY DEF ReadOperand
<1>3. CASE \E args, next : Push(args, next)
  BY <1>1, <1>3, PushStep
<1>4. CASE \E how \in {"exit1", "exhausted", "hangs"} : End(how)
  <2>1. functions' = functions /\ open' = open /\ status' # "done"
    BY <1>4 DEF End
  <2> QED
    BY <1>1, <2>1, NothingRead
<1>5. CASE UNCHANGED <<functions, open, status>>
  BY <1>1, <1>5, NothingRead
<1> QED
  BY <1>2, <1>3, <1>4, <1>5

\* An entry that is no function, and is not refused.
LEMMA SaysIs ==
  ASSUME NEW line
  PROVE  Says(line) \in WordEntry
<1>1. Null \in WordEntry /\ Refused \in WordEntry
  BY DEF WordEntry
<1>2. \A w \in Words : EntryOf[w] \in WordEntry
  BY ReaderAssumption
<1> QED
  BY <1>1, <1>2, Zenon DEF Says

\* The members of WordEntry by their tags.
LEMMA WordEntryTags ==
  ASSUME NEW e \in WordEntry
  PROVE  /\ e # FunctionLine => ~IsNested(e)
         /\ Tag(e) = "string" => Payload(e) \in Words \cup {""}
<1> DEFINE left == Words \cup {""}
<1>1. WordEntry =
        {Null, Refused, TextLine, NumberLine, BooleanLine, FunctionLine}
        \cup ({"number"} \X Nums) \cup ({"boolean"} \X BOOLEAN) \cup ({"string"} \X left)
  BY Zenon DEF WordEntry
<1> HIDE DEF left
<1>2. e # FunctionLine => ~IsNested(e)
  BY <1>1 DEF IsNested, Null, Refused, TextLine, NumberLine, BooleanLine
<1>3. Tag(e) = "string" => Payload(e) \in left
  BY <1>1 DEF Tag, Payload, Null, Refused, TextLine, NumberLine, BooleanLine,
              FunctionLine, Nested
<1> QED
  BY <1>2, <1>3, Zenon DEF left

\* What the entries of a line are, by what it says.
LEMMA EntriesCases ==
  ASSUME NEW line, NEW entry \in Entries(line)
  PROVE  \/ entry \in {Null, Refused}
         \/ \E n : entry = Number(NumberIn(n))
         \/ \E b \in BOOLEAN : entry = Boolean(b)
         \/ \E t : entry = String(t)
         \/ /\ entry = Says(line) /\ Tag(entry) # "string"
            /\ entry \notin {TextLine, NumberLine, BooleanLine}
<1>1. PICK says, rest : says = Says(line) /\ rest = Tail(line)
  OBVIOUS
<1>2. CASE line = <<>>
  BY <1>2 DEF Entries
<1>3. CASE line # <<>>
  <2>1. \/ says = NumberLine /\ entry = Number(NumberIn(rest))
        \/ says = BooleanLine /\ entry = Boolean(NumberIn(rest) # 0)
        \/ says = TextLine /\ \E t : entry = String(t)
        \/ Tag(says) = "string" /\ \E t : entry = String(t)
        \/ /\ entry = says /\ Tag(entry) # "string"
           /\ entry \notin {TextLine, NumberLine, BooleanLine}
    BY <1>1, <1>3 DEF Entries
  <2> QED
    BY <1>1, <2>1
<1> QED
  BY <1>2, <1>3

LEMMA EntriesAre ==
  ASSUME NEW line, NEW entry \in Entries(line), entry # FunctionLine
  PROVE  ~IsNested(entry)
<1>1. ~IsNested(Null) /\ ~IsNested(Refused)
  BY DEF IsNested, Null, Refused
<1>2. \A x : ~IsNested(String(x)) /\ ~IsNested(Number(x)) /\ ~IsNested(Boolean(x))
  BY DEF IsNested, String, Number, Boolean
<1>3. CASE entry = Says(line)
  <2>1. entry \in WordEntry
    BY <1>3, SaysIs
  <2> QED
    BY <2>1, WordEntryTags
<1> QED
  BY <1>1, <1>2, <1>3, EntriesCases

LEMMA ReadConstantStep ==
  ASSUME OrderInv, ReadConstant
  PROVE  OrderInv'
<1>1. PICK s :
        /\ status = "reading" /\ s = ReadLine(pos)
        /\ \/ End(s.how)
           \/ EndConstants(s.next)
           \/ GoOn(s.next, wanted, functions)
           \/ \E entry \in Entries(s.line) : ReadEntry(entry, s.next)
  BY DEF ReadConstant, Reading
<1>2. open # <<>> /\ Fn \in 1 .. Len(functions)
  BY <1>1, ReadingIs
<1>3. CASE End(s.how) \/ GoOn(s.next, wanted, functions)
  <2>1. s.how # "done"
    BY <1>1, ReadsAre
  <2>2. functions' = functions /\ open' = open /\ status' # "done"
    BY <1>1, <1>3, <2>1 DEF End, GoOn
  <2> QED
    BY <1>1, <2>2, NothingRead
<1>4. CASE EndConstants(s.next)
  <2>1. functions' = functions /\ open' = Front(open)
        /\ status' = IF Len(open) = 1 THEN "done" ELSE "reading"
    BY <1>1, <1>4 DEF EndConstants
  <2>2. Front(open) = <<>> <=> Len(open) = 1
    <3>1. PICK m \in Nat \ {0} : m = Len(open)
      BY <1>2, FormedIs DEF OrderInv
    <3>2. Front(open) = [d \in 1 .. m - 1 |-> open[d]]
      BY <3>1 DEF Front
    <3>3. Len(Front(open)) = m - 1 /\ Front(open) \in Seq(Range(open))
      <4>1. \A d \in 1 .. m - 1 : open[d] \in Range(open)
        <5>1. DOMAIN open = 1 .. m
          BY <3>1, LenProperties DEF OrderInv, Formed
        <5> QED
          BY <5>1 DEF Range
      <4> QED
        BY <3>2, <4>1
    <3> QED
      BY <3>1, <3>3, EmptySeq
  <2> QED
    BY <1>2, <2>1, <2>2, EndOfFunction
<1>5. ASSUME NEW entry \in Entries(s.line), ReadEntry(entry, s.next)
      PROVE  OrderInv'
  <2>1. CASE entry = FunctionLine /\ ReadNested(s.next)
    <3>1. PICK new : new = NewFunction("")
      OBVIOUS
    <3>2. IsRecord(new) /\ new.consts = <<>>
      BY <3>1 DEF NewFunction, IsRecord
    <3> QED
      BY <1>2, <2>1, <3>1, <3>2, NestedStep DEF ReadNested
  <2>2. CASE /\ entry # FunctionLine
             /\ GoOn(s.next, wanted, [functions EXCEPT ![Fn].consts = Append(@, entry)])
    <3>1. ~IsNested(entry)
      BY <2>2, EntriesAre
    <3> QED
      BY <1>2, <2>2, <3>1, EntryStep DEF GoOn
  <2>3. CASE End("exit1")
    BY <1>1, <2>3, NothingRead DEF End
  <2> QED
    BY <1>5, <2>1, <2>2, <2>3 DEF ReadEntry
<1> QED
  BY <1>1, <1>3, <1>4, <1>5

LEMMA OrderInit == Init => OrderInv
<1> SUFFICES ASSUME Init
             PROVE  OrderInv
  OBVIOUS
<1>1. /\ Len(functions) = 1 /\ functions[1] = NewFunction("main")
      /\ Len(open) = 1 /\ open[1] = 1 /\ open \in Seq(1 .. 1) /\ open # <<>>
      /\ status = "reading"
  BY DEF Init
<1>2. IsRecord(NewFunction("main")) /\ NewFunction("main").consts = <<>>
  BY DEF NewFunction, IsRecord
<1>3. \A j \in 1 .. 1 : Consts(j) = <<>> /\ IsRecord(functions[j]) /\ j = 1
  BY <1>1, <1>2 DEF Consts
<1>4. Formed
  <2>1. functions = [j \in 1 .. 1 |-> functions[j]]
    BY DEF Init
  <2> QED
    BY <1>1, <1>3, <2>1, EmptySeq DEF Formed
<1>5. PathInwards /\ NestedOnce
  <2>1. \A j \in 1 .. 1 : Len(Consts(j)) = 0
    BY <1>3, EmptySeq
  <2> QED
    BY <1>1, <2>1 DEF PathInwards, NestedOnce, OnceIn, Consts
<1>6. Numbered
  <2>1. PICK last : last = [j \in 1 .. 1 |-> 1]
    OBVIOUS
  <2>2. \A j \in 1 .. 1 : Len(functions[j].consts) = 0 /\ NestedIn(functions[j], 0) = {}
    BY <1>3, EmptySeq DEF Consts, NestedIn
  <2>3. Numbers(functions, last)
    BY <1>1, <2>1, <2>2 DEF Numbers, Begun
  <2> QED
    BY <1>1, <2>1, <2>3 DEF Numbered
<1> QED
  BY <1>4, <1>5, <1>6 DEF OrderInv

LEMMA OrderNext == OrderInv /\ [Next]_vars => OrderInv'
<1> SUFFICES ASSUME OrderInv, [Next]_vars
             PROVE  OrderInv'
  OBVIOUS
<1>1. CASE Step
  BY <1>1, ExpectStep, ReadSettingStep, ReadOpcodeStep, ReadOperandStep, ReadConstantStep DEF Step
<1>2. CASE UNCHANGED vars
  <2>1. \A j \in 1 .. Len(functions) : IsRecord(functions'[j]) /\ Consts(j)' = Consts(j)
    BY <1>2, FormedIs DEF vars, OrderInv, Consts
  <2> QED
    BY <1>2, <2>1, SameEntries DEF vars, OrderInv, Formed
<1> QED
  BY <1>1, <1>2 DEF Next, Ended

\* Whatever the text, each function that is handed over has the number its parent
\* knows it by: the reader keeps what module Assembly assumes of a source
\* (compiler.c:248-254).
THEOREM ReaderNumbers == Spec => []HandsOverInOrder
<1>1. OrderInv => HandsOverInOrder
  BY DEF OrderInv, Numbered, HandsOverInOrder, InOrder
<1> QED
  BY <1>1, OrderInit, OrderNext, PTL DEF Spec, Safe

----------------------------------------------------------------------------
(* The types, for any set of strings that has all that words can make up.  *)

Pieces == Words \cup {" ", "\n", ";", "\"", ""}

JoinsAreStrings == \A pieces \in Seq(Pieces) : Join(pieces) \in Strings

IsInst(i) ==
  /\ i = [op |-> i.op, args |-> i.args, arg |-> i.arg]
  /\ i.op \in Opcode /\ i.args \in Seq(Int) /\ Len(i.args) < 3

TypesInv == writing \in Writings /\ IsInst(inst) /\ TypeOK

LEMMA SeqWider ==
  ASSUME NEW S, NEW T, S \subseteq T, NEW s \in Seq(S)
  PROVE  s \in Seq(T)
OBVIOUS

LEMMA TextIs ==
  ASSUME writing \in Writings
  PROVE  /\ text \in Seq(Pieces) /\ Len(text) \in Nat
         /\ \A x \in 1 .. Len(text) : text[x] \in Pieces
<1>1. text \in Seq(Words \cup {" ", "\n", ";", "\""})
  BY ReaderAssumption DEF text
<1>2. text \in Seq(Pieces)
  BY <1>1, SeqWider DEF Pieces
<1> QED
  BY <1>2, LenProperties, ElementOfSeq

\* Of the places that are looked for, one is the first.
LEMMA LeastFrom ==
  ASSUME NEW p \in Nat, NEW S, S # {}, \A q \in S : q \in Nat /\ p <= q
  PROVE  \E q \in S : \A r \in p .. q - 1 : r \notin S
<1>1. PICK q \in S : \A r \in S : ~(r < q)
  <2>1. S \subseteq Nat
    OBVIOUS
  <2> QED
    BY <2>1, LeastElement
<1>2. \A r \in p .. q - 1 : r < q
  BY <1>1
<1> QED
  BY <1>1, <1>2

LEMMA NewlineFirst ==
  ASSUME Len(text) \in Nat, NEW p \in Nat, NEW f, f = Newline(p)
  PROVE  /\ \/ f \in From(p) /\ text[f] = "\n"
            \/ f = Eof
         /\ \A r \in p .. f - 1 : ~(text[r] = "\n")
<1> DEFINE P(q) == text[q] = "\n"
           S == {q \in From(p) : P(q)}
<1> HIDE DEF P
<1>1. CASE S = {}
  <2>1. f = Eof
    BY <1>1 DEF Newline, First, P
  <2>2. \A r \in p .. f - 1 : r \in From(p)
    BY <2>1 DEF From, Eof
  <2> QED
    BY <1>1, <2>1, <2>2 DEF P
<1>2. CASE S # {}
  <2>1. \A q \in S : q \in Nat /\ p <= q
    BY DEF From
  <2>2. p \in Nat
    OBVIOUS
  <2> HIDE DEF S
  <2>3. PICK q \in S : \A r \in p .. q - 1 : r \notin S
    BY <1>2, <2>1, <2>2, LeastFrom
  <2>4. \E q1 \in From(p) : P(q1) /\ \A r \in p .. q1 - 1 : ~P(r)
    BY <2>2, <2>3 DEF From, S
  <2>5. f \in From(p) /\ P(f) /\ \A r \in p .. f - 1 : ~P(r)
    BY <2>4, Zenon DEF Newline, First, P
  <2> QED
    BY <2>5 DEF P
<1> QED
  BY <1>1, <1>2

LEMMA NewlineIs ==
  ASSUME Len(text) \in Nat, NEW p \in Nat
  PROVE  Newline(p) \in From(p) \cup {Eof}
BY NewlineFirst

LEMMA SolidFirst ==
  ASSUME Len(text) \in Nat, NEW p \in Nat, NEW f, f = Solid(p)
  PROVE  /\ \/ f \in From(p) /\ text[f] \notin Space \cup {";"} /\ ~Commented(p, f)
            \/ f = Eof
         /\ \A r \in p .. f - 1 : ~(text[r] \notin Space \cup {";"} /\ ~Commented(p, r))
<1> DEFINE P(q) == text[q] \notin Space \cup {";"} /\ ~Commented(p, q)
           S == {q \in From(p) : P(q)}
<1> HIDE DEF P
<1>1. CASE S = {}
  <2>1. f = Eof
    BY <1>1 DEF Solid, First, P
  <2>2. \A r \in p .. f - 1 : r \in From(p)
    BY <2>1 DEF From, Eof
  <2> QED
    BY <1>1, <2>1, <2>2 DEF P
<1>2. CASE S # {}
  <2>1. \A q \in S : q \in Nat /\ p <= q
    BY DEF From
  <2>2. p \in Nat
    OBVIOUS
  <2> HIDE DEF S
  <2>3. PICK q \in S : \A r \in p .. q - 1 : r \notin S
    BY <1>2, <2>1, <2>2, LeastFrom
  <2>4. \E q1 \in From(p) : P(q1) /\ \A r \in p .. q1 - 1 : ~P(r)
    BY <2>2, <2>3 DEF From, S
  <2>5. f \in From(p) /\ P(f) /\ \A r \in p .. f - 1 : ~P(r)
    BY <2>4, Zenon DEF Solid, First, P
  <2> QED
    BY <2>5 DEF P
<1> QED
  BY <1>1, <1>2

LEMMA SolidIs ==
  ASSUME Len(text) \in Nat, NEW p \in Nat
  PROVE  Solid(p) \in From(p) \cup {Eof}
BY SolidFirst

LEMMA WordEndFirst ==
  ASSUME Len(text) \in Nat, NEW s \in Nat, NEW f, f = WordEnd(s)
  PROVE  /\ \/ f \in From(s + 1) /\ text[f] \in Space /\ ~Odd(Quotes(s + 1, f - 1))
            \/ f = Eof
         /\ \A r \in s + 1 .. f - 1 : ~(text[r] \in Space /\ ~Odd(Quotes(s + 1, r - 1)))
<1> DEFINE P(q) == text[q] \in Space /\ ~Odd(Quotes(s + 1, q - 1))
           S == {q \in From(s + 1) : P(q)}
<1> HIDE DEF P
<1>1. CASE S = {}
  <2>1. f = Eof
    BY <1>1 DEF WordEnd, First, P
  <2>2. \A r \in s + 1 .. f - 1 : r \in From(s + 1)
    BY <2>1 DEF From, Eof
  <2> QED
    BY <1>1, <2>1, <2>2 DEF P
<1>2. CASE S # {}
  <2>1. \A q \in S : q \in Nat /\ s + 1 <= q
    BY DEF From
  <2>2. s + 1 \in Nat
    OBVIOUS
  <2> HIDE DEF S
  <2>3. PICK q \in S : \A r \in s + 1 .. q - 1 : r \notin S
    BY <1>2, <2>1, <2>2, LeastFrom
  <2>4. \E q1 \in From(s + 1) : P(q1) /\ \A r \in s + 1 .. q1 - 1 : ~P(r)
    BY <2>2, <2>3 DEF From, S
  <2>5. f \in From(s + 1) /\ P(f) /\ \A r \in s + 1 .. f - 1 : ~P(r)
    BY <2>4, Zenon DEF WordEnd, First, P
  <2> QED
    BY <2>5 DEF P
<1> QED
  BY <1>1, <1>2

LEMMA WordEndIs ==
  ASSUME Len(text) \in Nat, NEW s \in Nat
  PROVE  WordEnd(s) \in From(s + 1) \cup {Eof}
BY WordEndFirst

LEMMA LineStartFirst ==
  ASSUME Len(text) \in Nat, NEW p \in Nat, NEW f, f = LineStart(p)
  PROVE  /\ \/ f \in From(p) /\ text[f] \notin Space
            \/ f = Eof
         /\ \A r \in p .. f - 1 : ~(text[r] \notin Space)
<1> DEFINE P(q) == text[q] \notin Space
           S == {q \in From(p) : P(q)}
<1> HIDE DEF P
<1>1. CASE S = {}
  <2>1. f = Eof
    BY <1>1 DEF LineStart, First, P
  <2>2. \A r \in p .. f - 1 : r \in From(p)
    BY <2>1 DEF From, Eof
  <2> QED
    BY <1>1, <2>1, <2>2 DEF P
<1>2. CASE S # {}
  <2>1. \A q \in S : q \in Nat /\ p <= q
    BY DEF From
  <2>2. p \in Nat
    OBVIOUS
  <2> HIDE DEF S
  <2>3. PICK q \in S : \A r \in p .. q - 1 : r \notin S
    BY <1>2, <2>1, <2>2, LeastFrom
  <2>4. \E q1 \in From(p) : P(q1) /\ \A r \in p .. q1 - 1 : ~P(r)
    BY <2>2, <2>3 DEF From, S
  <2>5. f \in From(p) /\ P(f) /\ \A r \in p .. f - 1 : ~P(r)
    BY <2>4, Zenon DEF LineStart, First, P
  <2> QED
    BY <2>5 DEF P
<1> QED
  BY <1>1, <1>2

LEMMA LineStartIs ==
  ASSUME Len(text) \in Nat, NEW p \in Nat
  PROVE  LineStart(p) \in From(p) \cup {Eof}
BY LineStartFirst

LEMMA LineEndFirst ==
  ASSUME Len(text) \in Nat, NEW s \in Nat, NEW f, f = LineEnd(s)
  PROVE  /\ \/ f \in From(s + 1) /\ text[f] \in {"\n", ";"} /\ ~Odd(Quotes(s + 1, f - 1))
            \/ f = Eof
         /\ \A r \in s + 1 .. f - 1 : ~(text[r] \in {"\n", ";"} /\ ~Odd(Quotes(s + 1, r - 1)))
<1> DEFINE P(q) == text[q] \in {"\n", ";"} /\ ~Odd(Quotes(s + 1, q - 1))
           S == {q \in From(s + 1) : P(q)}
<1> HIDE DEF P
<1>1. CASE S = {}
  <2>1. f = Eof
    BY <1>1 DEF LineEnd, First, P
  <2>2. \A r \in s + 1 .. f - 1 : r \in From(s + 1)
    BY <2>1 DEF From, Eof
  <2> QED
    BY <1>1, <2>1, <2>2 DEF P
<1>2. CASE S # {}
  <2>1. \A q \in S : q \in Nat /\ s + 1 <= q
    BY DEF From
  <2>2. s + 1 \in Nat
    OBVIOUS
  <2> HIDE DEF S
  <2>3. PICK q \in S : \A r \in s + 1 .. q - 1 : r \notin S
    BY <1>2, <2>1, <2>2, LeastFrom
  <2>4. \E q1 \in From(s + 1) : P(q1) /\ \A r \in s + 1 .. q1 - 1 : ~P(r)
    BY <2>2, <2>3 DEF From, S
  <2>5. f \in From(s + 1) /\ P(f) /\ \A r \in s + 1 .. f - 1 : ~P(r)
    BY <2>4, Zenon DEF LineEnd, First, P
  <2> QED
    BY <2>5 DEF P
<1> QED
  BY <1>1, <1>2

LEMMA LineEndIs ==
  ASSUME Len(text) \in Nat, NEW s \in Nat
  PROVE  LineEnd(s) \in From(s + 1) \cup {Eof}
BY LineEndFirst

LEMMA BrokenAtFirst ==
  ASSUME Len(text) \in Nat, NEW s \in Nat, NEW f, f = BrokenAt(s)
  PROVE  /\ \/ f \in From(s + 1) /\ text[f] = "\n" /\ Odd(Quotes(s + 1, f - 1))
            \/ f = Eof
         /\ \A r \in s + 1 .. f - 1 : ~(text[r] = "\n" /\ Odd(Quotes(s + 1, r - 1)))
<1> DEFINE P(q) == text[q] = "\n" /\ Odd(Quotes(s + 1, q - 1))
           S == {q \in From(s + 1) : P(q)}
<1> HIDE DEF P
<1>1. CASE S = {}
  <2>1. f = Eof
    BY <1>1 DEF BrokenAt, First, P
  <2>2. \A r \in s + 1 .. f - 1 : r \in From(s + 1)
    BY <2>1 DEF From, Eof
  <2> QED
    BY <1>1, <2>1, <2>2 DEF P
<1>2. CASE S # {}
  <2>1. \A q \in S : q \in Nat /\ s + 1 <= q
    BY DEF From
  <2>2. s + 1 \in Nat
    OBVIOUS
  <2> HIDE DEF S
  <2>3. PICK q \in S : \A r \in s + 1 .. q - 1 : r \notin S
    BY <1>2, <2>1, <2>2, LeastFrom
  <2>4. \E q1 \in From(s + 1) : P(q1) /\ \A r \in s + 1 .. q1 - 1 : ~P(r)
    BY <2>2, <2>3 DEF From, S
  <2>5. f \in From(s + 1) /\ P(f) /\ \A r \in s + 1 .. f - 1 : ~P(r)
    BY <2>4, Zenon DEF BrokenAt, First, P
  <2> QED
    BY <2>5 DEF P
<1> QED
  BY <1>1, <1>2

LEMMA BrokenAtIs ==
  ASSUME Len(text) \in Nat, NEW s \in Nat
  PROVE  BrokenAt(s) \in From(s + 1) \cup {Eof}
BY BrokenAtFirst

LEMMA OperandStartFirst ==
  ASSUME Len(text) \in Nat, NEW p \in Nat, NEW f, f = OperandStart(p)
  PROVE  /\ \/ f \in From(p) /\ text[f] # " "
            \/ f = Eof
         /\ \A r \in p .. f - 1 : ~(text[r] # " ")
<1> DEFINE P(q) == text[q] # " "
           S == {q \in From(p) : P(q)}
<1> HIDE DEF P
<1>1. CASE S = {}
  <2>1. f = Eof
    BY <1>1 DEF OperandStart, First, P
  <2>2. \A r \in p .. f - 1 : r \in From(p)
    BY <2>1 DEF From, Eof
  <2> QED
    BY <1>1, <2>1, <2>2 DEF P
<1>2. CASE S # {}
  <2>1. \A q \in S : q \in Nat /\ p <= q
    BY DEF From
  <2>2. p \in Nat
    OBVIOUS
  <2> HIDE DEF S
  <2>3. PICK q \in S : \A r \in p .. q - 1 : r \notin S
    BY <1>2, <2>1, <2>2, LeastFrom
  <2>4. \E q1 \in From(p) : P(q1) /\ \A r \in p .. q1 - 1 : ~P(r)
    BY <2>2, <2>3 DEF From, S
  <2>5. f \in From(p) /\ P(f) /\ \A r \in p .. f - 1 : ~P(r)
    BY <2>4, Zenon DEF OperandStart, First, P
  <2> QED
    BY <2>5 DEF P
<1> QED
  BY <1>1, <1>2

LEMMA OperandStartIs ==
  ASSUME Len(text) \in Nat, NEW p \in Nat
  PROVE  OperandStart(p) \in From(p) \cup {Eof}
BY OperandStartFirst

LEMMA OperandEndFirst ==
  ASSUME Len(text) \in Nat, NEW p \in Nat, NEW f, f = OperandEnd(p)
  PROVE  /\ \/ f \in From(p) /\ text[f] \in Space \cup {";"}
            \/ f = Eof
         /\ \A r \in p .. f - 1 : ~(text[r] \in Space \cup {";"})
<1> DEFINE P(q) == text[q] \in Space \cup {";"}
           S == {q \in From(p) : P(q)}
<1> HIDE DEF P
<1>1. CASE S = {}
  <2>1. f = Eof
    BY <1>1 DEF OperandEnd, First, P
  <2>2. \A r \in p .. f - 1 : r \in From(p)
    BY <2>1 DEF From, Eof
  <2> QED
    BY <1>1, <2>1, <2>2 DEF P
<1>2. CASE S # {}
  <2>1. \A q \in S : q \in Nat /\ p <= q
    BY DEF From
  <2>2. p \in Nat
    OBVIOUS
  <2> HIDE DEF S
  <2>3. PICK q \in S : \A r \in p .. q - 1 : r \notin S
    BY <1>2, <2>1, <2>2, LeastFrom
  <2>4. \E q1 \in From(p) : P(q1) /\ \A r \in p .. q1 - 1 : ~P(r)
    BY <2>2, <2>3 DEF From, S
  <2>5. f \in From(p) /\ P(f) /\ \A r \in p .. f - 1 : ~P(r)
    BY <2>4, Zenon DEF OperandEnd, First, P
  <2> QED
    BY <2>5 DEF P
<1> QED
  BY <1>1, <1>2

LEMMA OperandEndIs ==
  ASSUME Len(text) \in Nat, NEW p \in Nat
  PROVE  OperandEnd(p) \in From(p) \cup {Eof}
BY OperandEndFirst

\* A place from p on, and what comes after it.
LEMMA PlacesAre ==
  ASSUME Len(text) \in Nat, NEW p \in 1 .. Eof + 1
  PROVE  /\ p \in Nat /\ p + 1 \in Nat /\ Eof \in 1 .. Eof + 1
         /\ \A q \in From(p) : q \in 1 .. Len(text) /\ q + 1 \in 1 .. Eof + 1 /\ p <= q
         /\ From(Eof + 1) = {} /\ Eof \notin 1 .. Len(text)
<1>1. PICK l \in Nat : l = Len(text)
  OBVIOUS
<1>2. Eof = l + 1
  BY <1>1 DEF Eof
<1>3. \A q : q \in From(p) <=> q \in p .. l
  BY <1>1 DEF From
<1>4. p \in 1 .. l + 2
  BY <1>2
<1>5. From(Eof + 1) = (l + 2) .. l
  BY <1>1, <1>2 DEF From
<1> QED
  BY <1>1, <1>2, <1>3, <1>4, <1>5

LEMMA ReadNextIs ==
  ASSUME JoinsAreStrings, writing \in Writings, NEW p \in 1 .. Eof + 1
  PROVE  LET v == ReadNext(p)
         IN  /\ v.how \in {"reading", "hangs", "exhausted", "exit1"}
             /\ v.next \in 1 .. Eof + 1 /\ v.word \in Strings
<1>1. Len(text) \in Nat
  BY TextIs
<1>2. PICK s : s = Solid(p) /\ s \in From(p) \cup {Eof}
  BY <1>1, PlacesAre, SolidIs
<1>3. s \in 1 .. Eof + 1 /\ s \in Nat
  BY <1>1, <1>2, PlacesAre
<1>4. PICK e : e = WordEnd(s) /\ e \in From(s + 1) \cup {Eof}
  BY <1>1, <1>3, WordEndIs
<1>5. \A how : LET v == Stuck(how)
               IN  v.how = how /\ v.next \in 1 .. Eof + 1 /\ v.word \in Strings
  BY <1>1, PlacesAre, ReaderAssumption DEF Stuck
<1>6. ASSUME e # Eof
      PROVE  e + 1 \in 1 .. Eof + 1 /\ Unquoted(s, e - 1) \in Strings
  <2>1. e \in From(s + 1)
    BY <1>4, <1>6
  <2>2. PICK l \in Nat : l = Len(text) /\ Eof = l + 1
    BY <1>1 DEF Eof
  <2>3. s + 1 <= e /\ e <= l /\ e \in Nat
    BY <1>3, <2>1, <2>2 DEF From
  <2> DEFINE piece(x) == IF text[s + x - 1] = "\"" /\ x > 1 /\ ~Odd(Quotes(s + 1, s + x - 1))
                           THEN "" ELSE text[s + x - 1]
             pieces == [x \in 1 .. (e - 1) - s + 1 |-> piece(x)]
  <2>4. \A x \in 1 .. (e - 1) - s + 1 : piece(x) \in Pieces
    <3>1. \A x \in 1 .. (e - 1) - s + 1 : s + x - 1 \in 1 .. Len(text)
      BY <1>3, <2>2, <2>3
    <3>2. \A x \in 1 .. (e - 1) - s + 1 : text[s + x - 1] \in Pieces
      BY <3>1, TextIs
    <3> QED
      BY <3>2 DEF Pieces
  <2>5. pieces \in Seq(Pieces)
    <3>1. (e - 1) - s + 1 \in Nat
      BY <1>3, <2>3
    <3> HIDE DEF piece
    <3> QED
      BY <2>4, <3>1
  <2>6. Unquoted(s, e - 1) = Join(pieces)
    BY DEF Unquoted
  <2> HIDE DEF pieces
  <2> QED
    BY <2>2, <2>3, <2>5, <2>6 DEF JoinsAreStrings
<1>7. \A first, word, next : LET v == [how |-> "reading", first |-> first, word |-> word, next |-> next]
                             IN  v.how = "reading" /\ v.next = next /\ v.word = word
  OBVIOUS
<1>8. CASE e # Eof
  <2>1. ReadNext(p) = Word(s, e - 1, e + 1)
    BY <1>2, <1>4, <1>8 DEF ReadNext
  <2> QED
    BY <1>6, <1>8, <2>1 DEF Word
<1>9. CASE e = Eof
  <2>1. \E how \in {"hangs", "exhausted", "exit1"} : ReadNext(p) = Stuck(how)
    BY <1>2, <1>4, <1>9 DEF ReadNext
  <2> QED
    BY <1>5, <2>1
<1> QED
  BY <1>8, <1>9

\* The first of some places.
LEMMA MinIs ==
  ASSUME NEW S, S # {}, S \subseteq Nat
  PROVE  Min(S) \in S
<1>1. PICK q \in S : \A r \in S : ~(r < q)
  BY LeastElement
<1>2. \A r \in S : q <= r
  <2>1. q \in Nat /\ \A r \in S : r \in Nat
    OBVIOUS
  <2> QED
    BY <1>1, <2>1
<1>3. \E z \in S : \A r \in S : z <= r
  BY <1>2
<1> QED
  BY <1>3, Zenon DEF Min

LEMMA PartIs ==
  ASSUME writing \in Writings, NEW a \in Nat \ {0}, NEW b \in Nat, b <= Len(text), a <= b + 1
  PROVE  /\ SubSeq(text, a, b) \in Seq(Pieces)
         /\ Len(SubSeq(text, a, b)) = b + 1 - a
<1>1. \A x \in a .. b : text[x] \in Pieces
  BY TextIs
<1>2. /\ SubSeq(text, a, b) \in Seq(Pieces)
      /\ Len(SubSeq(text, a, b)) = IF a <= b THEN b - a + 1 ELSE 0
  BY <1>1, SubSeqProperties
<1> QED
  BY <1>2

LEMMA LineBeforeIs ==
  ASSUME writing \in Writings, NEW s \in 1 .. Len(text), NEW e \in 1 .. Len(text), s + 1 <= e
  PROVE  LineBefore(s, e) \in Seq(Pieces)
<1> DEFINE closing == {r \in s + 1 .. e - 1 : text[r] = "\"" /\ ~Odd(Quotes(s + 1, r))}
           kept == SubSeq(text, s, e - 1)
<1>1. Len(text) \in Nat /\ s \in Nat /\ e \in Nat /\ e <= Len(text)
  BY TextIs
<1>2. kept \in Seq(Pieces) /\ Len(kept) = (e - 1) + 1 - s
  <2>1. s \in Nat \ {0} /\ e - 1 \in Nat /\ e - 1 <= Len(text) /\ s <= (e - 1) + 1
    BY <1>1
  <2> QED
    BY <2>1, PartIs
<1>3. kept # <<>>
  <2>1. Len(kept) # 0
    BY <1>1, <1>2
  <2> QED
    BY <2>1, EmptySeq
<1>4. CASE closing # {}
  <2>1. closing \subseteq Nat
    <3>1. \A r \in s + 1 .. e - 1 : r \in Nat
      BY <1>1
    <3> QED
      BY <3>1
  <2>2. Min(closing) \in closing
    <3> HIDE DEF closing
    <3> QED
      BY <1>4, <2>1, MinIs
  <2>3. PICK r \in s + 1 .. e - 1 : r = Min(closing)
    BY <2>2
  <2>4. r - 1 \in Nat /\ r - 1 <= Len(text) /\ s <= (r - 1) + 1 /\ s \in Nat \ {0}
    BY <1>1
  <2>5. SubSeq(text, s, r - 1) \in Seq(Pieces)
    BY <2>4, PartIs
  <2> QED
    BY <1>4, <2>3, <2>5 DEF LineBefore
<1>5. CASE closing = {}
  <2> HIDE DEF kept
  <2>1. Front(kept) \in Seq(Pieces)
    <3>1. PICK l \in Nat \ {0} : l = Len(kept)
      BY <1>2, <1>3, EmptySeq
    <3>2. Front(kept) = [x \in 1 .. l - 1 |-> kept[x]]
      BY <3>1 DEF Front
    <3>3. \A x \in 1 .. l - 1 : kept[x] \in Pieces
      BY <1>2, <3>1, ElementOfSeq
    <3> QED
      BY <3>1, <3>2, <3>3
  <2>2. Last(kept) \in Words => Shortened[Last(kept)] \in Pieces
    BY ReaderAssumption DEF Pieces
  <2>3. Last(kept) \in Words => Append(Front(kept), Shortened[Last(kept)]) \in Seq(Pieces)
    BY <2>1, <2>2, AppendProperties
  <2>4. LineBefore(s, e) =
          IF text[e] # ";" THEN kept
          ELSE IF Last(kept) \in Words /\ Shortened[Last(kept)] # ""
                 THEN Append(Front(kept), Shortened[Last(kept)])
          ELSE Front(kept)
    BY <1>5 DEF LineBefore, kept
  <2> QED
    BY <1>2, <2>1, <2>3, <2>4
<1> QED
  BY <1>4, <1>5

LEMMA ReadLineIs ==
  ASSUME writing \in Writings, NEW p \in 1 .. Eof + 1
  PROVE  LET v == ReadLine(p)
         IN  /\ v.how \in {"reading", "hangs", "exhausted", "exit1"}
             /\ v.next \in 1 .. Eof + 1 /\ v.line \in Seq(Pieces)
<1>1. Len(text) \in Nat
  BY TextIs
<1>2. PICK s : s = LineStart(p) /\ s \in From(p) \cup {Eof}
  BY <1>1, PlacesAre, LineStartIs
<1>3. s \in 1 .. Eof + 1 /\ s \in Nat
  BY <1>1, <1>2, PlacesAre
<1>4. PICK e : e = LineEnd(s) /\ e \in From(s + 1) \cup {Eof}
  BY <1>1, <1>3, LineEndIs
<1>5. ASSUME e # Eof
      PROVE  /\ e + 1 \in 1 .. Eof + 1
             /\ EndOfLine(e) # Eof => EndOfLine(e) + 1 \in 1 .. Eof + 1
             /\ LineBefore(s, e) \in Seq(Pieces)
  <2>1. PICK l \in Nat : l = Len(text) /\ Eof = l + 1
    BY <1>1 DEF Eof
  <2>2. s + 1 <= e /\ e <= l /\ e \in Nat /\ e \in 1 .. l /\ s \in 1 .. l
    BY <1>3, <1>4, <1>5, <2>1 DEF From
  <2>3. EndOfLine(e) \in From(e) \cup {Eof}
    BY <1>1, <2>2, NewlineIs DEF EndOfLine
  <2>4. \A q \in From(e) : q + 1 \in 1 .. Eof + 1
    <3>1. e \in 1 .. Eof + 1
      BY <2>1, <2>2
    <3> QED
      BY <1>1, <3>1, PlacesAre
  <2>5. LineBefore(s, e) \in Seq(Pieces)
    BY <2>1, <2>2, LineBeforeIs
  <2>6. e + 1 \in 1 .. Eof + 1
    BY <2>1, <2>2
  <2> QED
    BY <2>3, <2>4, <2>5, <2>6
<1>6. \A how : LET v == NoLine(how)
               IN  v.how = how /\ v.next \in 1 .. Eof + 1 /\ v.line \in Seq(Pieces)
  <2>1. <<>> \in Seq(Pieces)
    OBVIOUS
  <2> QED
    BY <1>1, <2>1, PlacesAre DEF NoLine
<1>7. \A line, next : LET v == Line(line, next)
                      IN  v.how = "reading" /\ v.next = next /\ v.line = line
  BY DEF Line
<1>8. \/ \E how \in {"hangs", "exhausted", "exit1"} : ReadLine(p) = NoLine(how)
      \/ e # Eof /\ ReadLine(p) = Line(LineBefore(s, e), e + 1)
      \/ /\ e # Eof /\ EndOfLine(e) # Eof
         /\ ReadLine(p) = Line(LineBefore(s, e), EndOfLine(e) + 1)
  <2>1. PICK b : b = BrokenAt(s) /\ b \in From(s + 1) \cup {Eof}
    BY <1>1, <1>3, BrokenAtIs
  <2>2. b \in Int /\ e \in Int
    BY <1>1, <1>3, <1>4, <2>1 DEF From, Eof
  <2> DEFINE Here    == e # Eof /\ e < b
             Endless == s # Eof /\ e = Eof /\ b = Eof /\ Odd(Quotes(s + 1, Len(text)))
  <2>3. ReadLine(p) =
          CASE b < e                     -> NoLine("exit1")
            [] Here /\ text[e] = "\n" -> Line(LineBefore(s, e), e + 1)
            [] Here /\ text[e] = ";"  ->
                 IF EndOfLine(e) = Eof THEN NoLine("hangs")
                                       ELSE Line(LineBefore(s, e), EndOfLine(e) + 1)
            [] Endless                   -> NoLine("exit1")
            [] OTHER                     -> NoLine("exhausted")
    BY <1>2, <1>4, <2>1 DEF ReadLine
  <2>4. (b < e => ~Here /\ ~Endless) /\ (Here => ~Endless)
    BY <2>2
  <2> HIDE DEF Here, Endless
  <2>5. CASE b < e
    BY <2>3, <2>4, <2>5
  <2>6. CASE ~(b < e) /\ Here
    <3>1. e # Eof
      BY <2>6 DEF Here
    <3>2. CASE text[e] = "\n"
      BY <2>3, <2>4, <2>6, <3>1, <3>2
    <3>3. CASE text[e] = ";"
      BY <2>3, <2>4, <2>6, <3>1, <3>3
    <3>4. CASE text[e] \notin {"\n", ";"}
      BY <2>3, <2>4, <2>6, <3>1, <3>4
    <3> QED
      BY <3>2, <3>3, <3>4
  <2>7. CASE ~(b < e) /\ ~Here
    BY <2>3, <2>7
  <2> QED
    BY <2>5, <2>6, <2>7
<1> QED
  BY <1>5, <1>6, <1>7, <1>8

\* Digits that are not there are 0.
LEMMA AtoIIs ==
  ASSUME NEW piece
  PROVE  AtoIOf(piece) \in Nums
  BY ReaderAssumption DEF AtoIOf

LEMMA NumberInIs ==
  ASSUME NEW pieces
  PROVE  NumberIn(pieces) \in Nums
  BY AtoIIs, ReaderAssumption, Zenon DEF NumberIn

\* The text of a line, what its first word leaves of it included.
LEMMA TextsTyped ==
  ASSUME JoinsAreStrings, NEW line \in Seq(Pieces), line # <<>>
  PROVE  /\ Tail(line) # <<>> => Join(Tail(Tail(line))) \in Strings
         /\ \A t \in Words \cup {""} : Join(<<t>> \o Tail(line)) \in Strings
<1>1. PICK rest : rest = Tail(line)
  OBVIOUS
<1>2. rest \in Seq(Pieces)
  BY <1>1, HeadTailProperties
<1>3. ASSUME rest # <<>> PROVE Join(Tail(rest)) \in Strings
  <2>1. Tail(rest) \in Seq(Pieces)
    BY <1>2, <1>3, HeadTailProperties
  <2> QED
    BY <2>1 DEF JoinsAreStrings
<1>4. \A p \in Pieces : <<p>> \in Seq(Pieces)
  OBVIOUS
<1>5. ASSUME NEW t \in Words \cup {""} PROVE Join(<<t>> \o rest) \in Strings
  <2>1. <<t>> \in Seq(Pieces)
    <3>1. t \in Pieces
      BY <1>5, Zenon DEF Pieces
    <3> QED
      BY <3>1, <1>4, Zenon
  <2>2. <<t>> \o rest \in Seq(Pieces)
    BY <1>2, <2>1, ConcatProperties
  <2> QED
    BY <2>2 DEF JoinsAreStrings
<1> QED
  BY <1>1, <1>3, <1>5

\* A line of the constants that is read as an entry.
LEMMA EntriesTyped ==
  ASSUME JoinsAreStrings, NEW line \in Seq(Pieces), NEW entry \in Entries(line)
  PROVE  entry \in ConstValue \cup {Refused, FunctionLine}
<1>1. CASE line = <<>>
  BY <1>1 DEF Entries, ConstValue
<1>2. CASE line # <<>>
  <2>1. PICK says, rest : says = Says(line) /\ rest = Tail(line)
    OBVIOUS
  <2>2. \/ says = NumberLine /\ entry = Number(NumberIn(rest))
        \/ says = BooleanLine /\ entry = Boolean(NumberIn(rest) # 0)
        \/ says = TextLine /\ rest = <<>> /\ \E t \in Strings : entry = String(t)
        \/ says = TextLine /\ rest # <<>> /\ entry = String(Join(Tail(rest)))
        \/ Tag(says) = "string" /\ entry = String(Join(<<Payload(says)>> \o rest))
        \/ /\ entry = says /\ Tag(says) # "string"
           /\ says \notin {TextLine, NumberLine, BooleanLine}
    BY <1>2, <2>1 DEF Entries
  <2>3. /\ rest # <<>> => Join(Tail(rest)) \in Strings
        /\ \A t \in Words \cup {""} : Join(<<t>> \o rest) \in Strings
    BY <1>2, <2>1, TextsTyped
  <2>4. says \in WordEntry
    BY <2>1, SaysIs
  <2>5. /\ \A t \in Strings : String(t) \in ConstValue
        /\ \A n \in Nums : Number(n) \in ConstValue
        /\ \A b \in BOOLEAN : Boolean(b) \in ConstValue
    BY DEF ConstValue, String, Number, Boolean
  <2>6. Tag(says) = "string" => Payload(says) \in Words \cup {""}
    BY <2>4, WordEntryTags
  <2>7. Tag(says) # "string" /\ says \notin {TextLine, NumberLine, BooleanLine}
          => says \in ConstValue \cup {Refused, FunctionLine}
    BY <2>4 DEF WordEntry, Tag, ConstValue
  <2> QED
    BY <2>2, <2>3, <2>5, <2>6, <2>7, NumberInIs
<1> QED
  BY <1>1, <1>2

LEMMA OperandIs ==
  ASSUME NEW piece
  PROVE  Operand(piece) \in Int /\ AtoIOf(piece) \in Int
<1>1. piece \in Words => AtoI[piece] \in Int
  BY ReaderAssumption, NumsAssumption
<1>2. \A n \in Int : RKASK(n) \in Int
  BY DEF RKASK, BITRK
<1>3. piece \in Konst => piece \in Words
  BY ReaderAssumption
<1> QED
  BY <1>1, <1>2, <1>3 DEF Operand, MAKEK, AtoIOf

LEMMA CompiledIs ==
  ASSUME NEW op \in Opcode, NEW args \in Seq(Int)
  PROVE  Compiled(op, args) \in Instruction
<1> DEFINE arg(x) == IF x <= Len(args) THEN args[x] ELSE -1
<1>1. arg(1) \in Int /\ arg(2) \in Int /\ arg(3) \in Int
  <2>1. Len(args) \in Nat
    BY LenProperties
  <2>2. \A x \in {1, 2, 3} : x <= Len(args) => args[x] \in Int
    BY <2>1, ElementOfSeq
  <2> QED
    BY <2>2
<1>2. \A a, b, c \in Int : ABC(op, a, b, c) \in Instruction
  BY DEF ABC, Instruction, ArgA, ArgBC
<1>3. \A a, b \in Int : b \div 512 \in Int
  OBVIOUS
<1>4. \A a, b \in Int : ABx(op, a, b) \in Instruction
  BY <1>2, <1>3 DEF ABx
<1>5. \A a \in Int : AsBx(op, a) \in Instruction
  <2>1. \A a \in Int : a + MAXARG_sBx \in Int
    BY DEF MAXARG_sBx
  <2> QED
    BY <1>4, <2>1 DEF AsBx
<1>6. Compiled(op, args) = CASE op \in HasBx  -> ABx(op, arg(1), arg(2))
                             [] op \in HasSBx -> AsBx(op, arg(1))
                             [] OTHER         -> ABC(op, arg(1), arg(2), arg(3))
  BY DEF Compiled
<1> HIDE DEF arg
<1>7. HasBx \cap HasSBx = {}
  BY DEF HasBx, HasSBx
<1>8. CASE op \in HasBx
  BY <1>1, <1>4, <1>6, <1>7, <1>8
<1>9. CASE op \in HasSBx
  BY <1>1, <1>5, <1>6, <1>7, <1>9
<1>10. CASE op \notin HasBx /\ op \notin HasSBx
  BY <1>1, <1>2, <1>6, <1>10
<1> QED
  BY <1>8, <1>9, <1>10

\* A function is one of any source as long.
LEMMA FunctionWider ==
  ASSUME NEW s, NEW t, Len(s) \in Nat, Len(t) \in Nat, Len(s) <= Len(t),
         NEW f, IsFunction(f, s)
  PROVE  IsFunction(f, t)
<1> DEFINE C(n) == ConstValue \cup {Refused} \cup {Nested(j) : j \in 2 .. n}
<1>1. C(Len(s)) \subseteq C(Len(t))
  <2>1. 2 .. Len(s) \subseteq 2 .. Len(t)
    OBVIOUS
  <2> QED
    BY <2>1
<1>2. f.consts \in Seq(C(Len(s)))
  BY DEF IsFunction
<1>3. f.consts \in Seq(C(Len(t)))
  <2> HIDE DEF C
  <2> QED
    BY <1>1, <1>2, SeqWider
<1> QED
  BY <1>3 DEF IsFunction

LEMMA SourceChanged ==
  ASSUME NEW s, IsSource(s), NEW f \in 1 .. Len(s), NEW g, IsFunction(g, s)
  PROVE  /\ IsSource([s EXCEPT ![f] = g])
         /\ DOMAIN [s EXCEPT ![f] = g] = DOMAIN s
         /\ Len([s EXCEPT ![f] = g]) = Len(s)
<1>1. PICK n \in Nat \ {0} : n = Len(s)
  BY DEF IsSource
<1>2. DOMAIN s = 1 .. n
  BY <1>1 DEF IsSource
<1>3. PICK t : t = [s EXCEPT ![f] = g]
  OBVIOUS
<1>4. /\ t = [j \in 1 .. n |-> t[j]]
      /\ t[f] = g /\ \A j \in 1 .. n : j # f => t[j] = s[j]
  BY <1>1, <1>2, <1>3
<1>5. Len(t) = n
  BY <1>4
<1>6. \A j \in 1 .. n : IsFunction(t[j], s)
  BY <1>1, <1>4 DEF IsSource
<1>7. \A j \in 1 .. n : IsFunction(t[j], t)
  BY <1>1, <1>5, <1>6, FunctionWider
<1> QED
  BY <1>1, <1>2, <1>3, <1>4, <1>5, <1>7 DEF IsSource

Wanted == Marks \cup {"setting", "instruction", "operand", "constant"}

\* What a step must leave typed; the rest OrderInv says.
LEMMA TypesKept ==
  ASSUME TypesInv, OrderInv', writing' = writing, pos' \in 1 .. Eof + 1,
         wanted' \in Wanted, status' \in {"reading"} \cup Ends,
         IsInst(inst'), IsSource(functions')
  PROVE  TypesInv'
<1>1. Eof' = Eof
  BY DEF Eof, text
<1>2. PICK fs : fs = functions'
  OBVIOUS
<1>3. DOMAIN fs = 1 .. Len(fs)
  BY <1>2 DEF IsSource
<1>4. open' \in Seq(1 .. Len(fs)) /\ (open' = <<>> <=> status' = "done")
  BY <1>2 DEF OrderInv, Formed
<1>5. PICK i : i = inst'
  OBVIOUS
<1>6. IsInst(i)
  BY <1>5
<1>7. inst'.op \in Opcode /\ inst'.args \in Seq(Int) /\ Len(inst'.args) < 3
  BY <1>5, <1>6 DEF IsInst
<1>8. open' \in Seq(DOMAIN functions')
  BY <1>2, <1>3, <1>4
<1> QED
  BY <1>1, <1>4, <1>7, <1>8 DEF TypesInv, TypeOK, Wanted

LEMMA TypesAre ==
  ASSUME TypesInv
  PROVE  /\ pos \in 1 .. Eof + 1 /\ wanted \in Wanted /\ IsInst(inst)
         /\ IsSource(functions) /\ writing \in Writings
         /\ status \in {"reading"} \cup Ends
BY DEF TypesInv, TypeOK, Wanted

LEMMA EndTyped ==
  ASSUME TypesInv, OrderInv', NEW how \in {"reading"} \cup Ends, End(how)
  PROVE  TypesInv'
<1>1. status' \in {"reading"} \cup Ends
  BY DEF End
<1>2. /\ writing' = writing /\ pos' = pos /\ wanted' = wanted
      /\ inst' = inst /\ functions' = functions
  BY DEF End
<1> QED
  BY <1>1, <1>2, TypesAre, TypesKept

LEMMA GoOnTyped ==
  ASSUME TypesInv, OrderInv', NEW p \in 1 .. Eof + 1, NEW what \in Wanted,
         NEW fs, IsSource(fs), GoOn(p, what, fs)
  PROVE  TypesInv'
<1>1. /\ writing' = writing /\ pos' = p /\ wanted' = what
      /\ inst' = inst /\ functions' = fs /\ status' = status
  BY DEF GoOn
<1> QED
  BY <1>1, TypesAre, TypesKept

LEMMA ExpectTyped ==
  ASSUME TypesInv, OrderInv', Expect
  PROVE  TypesInv'
<1>1. Len(text) \in Nat /\ pos \in Nat
  BY TextIs, PlacesAre, TypesAre
<1>2. PICK s : s = Solid(pos) /\ s \in From(pos) \cup {Eof}
  BY <1>1, SolidIs
<1>3. \/ s # Eof /\ GoOn(s + 1, Inside(wanted), functions)
      \/ \E how \in {"hangs", "exit1"} : End(how)
  BY <1>2 DEF Expect
<1>4. CASE s # Eof /\ GoOn(s + 1, Inside(wanted), functions)
  <2>1. s + 1 \in 1 .. Eof + 1
    BY <1>1, <1>2, <1>4, PlacesAre, TypesAre
  <2>2. Inside(wanted) \in Wanted
    BY DEF Expect, Reading, Marks, Inside, Wanted
  <2> QED
    BY <1>4, <2>1, <2>2, TypesAre, GoOnTyped
<1>5. CASE \E how \in {"hangs", "exit1"} : End(how)
  BY <1>5, EndTyped DEF Ends
<1> QED
  BY <1>3, <1>4, <1>5

LEMMA ReadSettingTyped ==
  ASSUME JoinsAreStrings, TypesInv, OrderInv, OrderInv', ReadSetting
  PROVE  TypesInv'
<1>1. PICK s, v :
        /\ status = "reading" /\ s = ReadNext(pos) /\ v = ReadNext(s.next)
        /\ \/ End(s.how)
           \/ GoOn(s.next, ">CODE", functions)
           \/ End(v.how)
           \/ /\ s.word \in Settings
              /\ GoOn(v.next, wanted, [functions EXCEPT ![Fn] = Set(@, s.word, v)])
           \/ End("exit1")
  BY DEF ReadSetting, Reading
<1>2. /\ s.how \in {"reading"} \cup Ends /\ s.next \in 1 .. Eof + 1
      /\ v.how \in {"reading"} \cup Ends /\ v.next \in 1 .. Eof + 1 /\ v.word \in Strings
  <2>1. s.how \in {"reading", "hangs", "exhausted", "exit1"} /\ s.next \in 1 .. Eof + 1
    BY <1>1, TypesAre, ReadNextIs
  <2>2. v.how \in {"reading", "hangs", "exhausted", "exit1"} /\ v.next \in 1 .. Eof + 1
        /\ v.word \in Strings
    BY <1>1, <2>1, TypesAre, ReadNextIs
  <2> QED
    BY <2>1, <2>2 DEF Ends
<1>3. PICK f \in 1 .. Len(functions) : f = Fn
  BY <1>1, ReadingIs
<1>4. CASE /\ s.word \in Settings
           /\ GoOn(v.next, wanted, [functions EXCEPT ![Fn] = Set(@, s.word, v)])
  <2>1. PICK g : g = Set(functions[f], s.word, v)
    OBVIOUS
  <2>2. IsFunction(functions[f], functions)
    BY TypesAre DEF IsSource
  <2>3. AtoIOf(v.first) % 256 \in Nat \cup {Unset}
    BY OperandIs
  <2>4. IsFunction(g, functions)
    <3>1. PICK h, n : h = functions[f] /\ n = AtoIOf(v.first) % 256
      OBVIOUS
    <3>2. \/ g \in {[h EXCEPT !.regs = n], [h EXCEPT !.globals = n], [h EXCEPT !.params = n]}
          \/ g \in {h, [h EXCEPT !.name = v.word]}
      BY <1>4, <2>1, <3>1 DEF Set, Settings
    <3>3. IsFunction(h, functions) /\ n \in Nat \cup {Unset} /\ v.word \in Strings
      BY <1>2, <2>2, <2>3, <3>1
    <3> QED
      BY <3>2, <3>3 DEF IsFunction
  <2>5. f \in DOMAIN functions
    BY TypesAre DEF IsSource
  <2>6. [functions EXCEPT ![Fn] = Set(@, s.word, v)] = [functions EXCEPT ![f] = g]
    BY <1>3, <2>1
  <2>7. IsSource([functions EXCEPT ![Fn] = Set(@, s.word, v)])
    BY <2>4, <2>6, TypesAre, SourceChanged
  <2> QED
    BY <1>2, <1>4, <2>7, TypesAre, GoOnTyped
<1>5. CASE GoOn(s.next, ">CODE", functions)
  <2>1. ">CODE" \in Wanted
    BY DEF Wanted, Marks
  <2> QED
    BY <1>2, <1>5, <2>1, TypesAre, GoOnTyped
<1>6. CASE End(s.how) \/ End(v.how) \/ End("exit1")
  <2>1. "exit1" \in {"reading"} \cup Ends
    BY DEF Ends
  <2> QED
    BY <1>2, <1>6, <2>1, EndTyped
<1> QED
  BY <1>1, <1>4, <1>5, <1>6

LEMMA ReadOpcodeTyped ==
  ASSUME JoinsAreStrings, TypesInv, OrderInv', ReadOpcode
  PROVE  TypesInv'
<1>1. PICK s, v :
        /\ status = "reading" /\ s = ReadNext(pos) /\ v = ReadNext(s.next)
        /\ \/ End(s.how)
           \/ GoOn(s.next, ">CONST", functions)
           \/ End(v.how)
           \/ /\ s.word \in Opcode
              /\ pos' = v.next /\ wanted' = "operand"
              /\ inst' = [op |-> s.word, args |-> <<>>, arg |-> v.first]
              /\ UNCHANGED <<writing, open, functions, status>>
           \/ End("exit1")
  BY DEF ReadOpcode, Reading
<1>2. /\ s.how \in {"reading"} \cup Ends /\ s.next \in 1 .. Eof + 1
      /\ v.how \in {"reading"} \cup Ends /\ v.next \in 1 .. Eof + 1
  <2>1. s.how \in {"reading", "hangs", "exhausted", "exit1"} /\ s.next \in 1 .. Eof + 1
    BY <1>1, TypesAre, ReadNextIs
  <2>2. v.how \in {"reading", "hangs", "exhausted", "exit1"} /\ v.next \in 1 .. Eof + 1
    BY <1>1, <2>1, TypesAre, ReadNextIs
  <2> QED
    BY <2>1, <2>2 DEF Ends
<1>3. CASE /\ s.word \in Opcode
           /\ pos' = v.next /\ wanted' = "operand"
           /\ inst' = [op |-> s.word, args |-> <<>>, arg |-> v.first]
           /\ UNCHANGED <<writing, open, functions, status>>
  <2>1. "operand" \in Wanted
    BY DEF Wanted
  <2>2. IsInst([op |-> s.word, args |-> <<>>, arg |-> v.first])
    <3>1. <<>> \in Seq(Int) /\ Len(<<>>) < 3
      OBVIOUS
    <3> QED
      BY <1>3, <3>1 DEF IsInst
  <2> QED
    BY <1>2, <1>3, <2>1, <2>2, TypesAre, TypesKept
<1>4. CASE GoOn(s.next, ">CONST", functions)
  <2>1. ">CONST" \in Wanted
    BY DEF Wanted, Marks
  <2> QED
    BY <1>2, <1>4, <2>1, TypesAre, GoOnTyped
<1>5. CASE End(s.how) \/ End(v.how) \/ End("exit1")
  <2>1. "exit1" \in {"reading"} \cup Ends
    BY DEF Ends
  <2> QED
    BY <1>2, <1>5, <2>1, EndTyped
<1> QED
  BY <1>1, <1>3, <1>4, <1>5

LEMMA PushTyped ==
  ASSUME TypesInv, OrderInv, OrderInv', status = "reading",
         NEW args \in Seq(Int), NEW next \in 1 .. Eof + 1, Push(args, next)
  PROVE  TypesInv'
<1>1. PICK f \in 1 .. Len(functions) : f = Fn
  BY ReadingIs
<1>2. PICK g : g = [functions[f] EXCEPT !.code = Append(@, Compiled(inst.op, args))]
  OBVIOUS
<1>3. IsFunction(functions[f], functions)
  BY TypesAre DEF IsSource
<1>4. Compiled(inst.op, args) \in Instruction
  BY TypesAre, CompiledIs DEF IsInst
<1>5. Append(functions[f].code, Compiled(inst.op, args)) \in Seq(Instruction)
  BY <1>3, <1>4, AppendProperties DEF IsFunction
<1>6. IsFunction(g, functions)
  BY <1>2, <1>3, <1>5 DEF IsFunction
<1>7. functions' = [functions EXCEPT ![f] = g]
  BY <1>1, <1>2 DEF Push
<1>8. IsSource(functions')
  BY <1>6, <1>7, TypesAre, SourceChanged
<1>9. IsInst(NoInst)
  <2>1. <<>> \in Seq(Int) /\ Len(<<>>) < 3 /\ "nop" \in Opcode
    BY DEF Opcode
  <2> QED
    BY <2>1 DEF IsInst, NoInst
<1>10. /\ writing' = writing /\ pos' = next /\ wanted' = "instruction"
       /\ inst' = NoInst /\ status' = status
  BY DEF Push
<1> QED
  BY <1>8, <1>9, <1>10, TypesAre, TypesKept DEF Wanted

LEMMA ReadOperandTyped ==
  ASSUME TypesInv, OrderInv, OrderInv', ReadOperand
  PROVE  TypesInv'
<1>1. PICK args, q, e :
        /\ status = "reading"
        /\ args = Append(inst.args, Operand(inst.arg))
        /\ q = OperandStart(pos) /\ e = OperandEnd(q)
        /\ \/ \E how \in {"exit1", "exhausted", "hangs"} : End(how)
           \/ e # Eof /\ text[q] = "\n" /\ Push(args, q + 1)
           \/ e # Eof /\ EndOfLine(e) # Eof /\ Push(args, EndOfLine(e) + 1)
           \/ e # Eof /\ Push(args, e + 1)
           \/ /\ e # Eof /\ Len(args) # 3
              /\ pos' = e + 1
              /\ inst' = [inst EXCEPT !.args = args, !.arg = text[q]]
              /\ UNCHANGED <<writing, wanted, open, functions, status>>
  <2>1. PICK args, q, e : /\ args = Append(inst.args, Operand(inst.arg))
                          /\ q = OperandStart(pos) /\ e = OperandEnd(q)
    OBVIOUS
  <2>2. CASE inst.arg \in Malformed
    <3>1. End("exit1") /\ status = "reading"
      BY <2>2 DEF ReadOperand, Reading
    <3> QED
      BY <2>1, <3>1
  <2>3. CASE inst.arg \notin Malformed /\ e = Eof
    <3>1. End("exhausted") /\ status = "reading"
      BY <2>1, <2>3 DEF ReadOperand, Reading
    <3> QED
      BY <2>1, <3>1
  <2>4. CASE inst.arg \notin Malformed /\ e # Eof
    BY <2>1, <2>4 DEF ReadOperand, Reading
  <2> QED
    BY <2>2, <2>3, <2>4
<1>2. Len(text) \in Nat /\ pos \in Nat
  BY TextIs, PlacesAre, TypesAre
<1>3. q \in From(pos) \cup {Eof}
  BY <1>1, <1>2, OperandStartIs
<1>4. q \in 1 .. Eof + 1 /\ q \in Nat
  <2>1. q \in 1 .. Eof + 1
    <3>1. \A x \in From(pos) : x \in 1 .. Len(text)
      BY <1>2, TypesAre, PlacesAre
    <3>2. Eof \in 1 .. Eof + 1
      BY <1>2, TypesAre, PlacesAre
    <3>3. \A l \in Nat : \A x \in 1 .. l : x \in 1 .. (l + 1) + 1
      OBVIOUS
    <3>4. \A x \in 1 .. Len(text) : x \in 1 .. Eof + 1
      BY <1>2, <3>3 DEF Eof
    <3> QED
      BY <1>3, <3>1, <3>2, <3>4
  <2> QED
    BY <1>2, <2>1, PlacesAre
<1>5. e \in From(q) \cup {Eof}
  BY <1>1, <1>2, <1>4, OperandEndIs
<1>6. ASSUME e # Eof
      PROVE  /\ q + 1 \in 1 .. Eof + 1 /\ e + 1 \in 1 .. Eof + 1
             /\ EndOfLine(e) # Eof => EndOfLine(e) + 1 \in 1 .. Eof + 1
  <2>1. PICK l \in Nat : l = Len(text) /\ Eof = l + 1
    BY <1>2 DEF Eof
  <2>2. q <= e /\ e <= l /\ e \in Nat /\ e \in 1 .. Eof + 1
    BY <1>4, <1>5, <1>6, <2>1 DEF From
  <2>3. EndOfLine(e) \in From(e) \cup {Eof}
    BY <1>2, <2>2, NewlineIs DEF EndOfLine
  <2>4. \A x \in From(e) : x + 1 \in 1 .. Eof + 1
    BY <1>2, <2>2, PlacesAre
  <2>5. q + 1 \in 1 .. Eof + 1 /\ e + 1 \in 1 .. Eof + 1
    BY <1>4, <2>1, <2>2
  <2> QED
    BY <2>3, <2>4, <2>5
<1>7. IsInst(inst)
  BY TypesAre
<1>8. args \in Seq(Int) /\ Len(args) = Len(inst.args) + 1 /\ Len(inst.args) \in Nat
  BY <1>1, <1>7, OperandIs, AppendProperties, LenProperties DEF IsInst
<1>9. CASE \E how \in {"exit1", "exhausted", "hangs"} : End(how)
  BY <1>9, EndTyped DEF Ends
<1>10. CASE \/ e # Eof /\ text[q] = "\n" /\ Push(args, q + 1)
            \/ e # Eof /\ EndOfLine(e) # Eof /\ Push(args, EndOfLine(e) + 1)
            \/ e # Eof /\ Push(args, e + 1)
  BY <1>1, <1>6, <1>8, <1>10, PushTyped
<1>11. CASE /\ e # Eof /\ Len(args) # 3
            /\ pos' = e + 1
            /\ inst' = [inst EXCEPT !.args = args, !.arg = text[q]]
            /\ UNCHANGED <<writing, wanted, open, functions, status>>
  <2>1. PICK i : i = [inst EXCEPT !.args = args, !.arg = text[q]]
    OBVIOUS
  <2>2. IsInst(i)
    <3>1. Len(args) < 3
      BY <1>7, <1>8, <1>11 DEF IsInst
    <3>2. i = [op |-> inst.op, args |-> args, arg |-> text[q]]
      BY <1>7, <2>1 DEF IsInst
    <3>3. inst.op \in Opcode
      BY <1>7 DEF IsInst
    <3> QED
      BY <1>8, <3>1, <3>2, <3>3 DEF IsInst
  <2> QED
    BY <1>6, <1>11, <2>1, <2>2, TypesAre, TypesKept
<1> QED
  BY <1>1, <1>9, <1>10, <1>11

LEMMA ReadConstantTyped ==
  ASSUME JoinsAreStrings, TypesInv, OrderInv, OrderInv', ReadConstant
  PROVE  TypesInv'
<1>1. PICK s :
        /\ status = "reading" /\ s = ReadLine(pos)
        /\ \/ End(s.how)
           \/ EndConstants(s.next)
           \/ GoOn(s.next, wanted, functions)
           \/ \E entry \in Entries(s.line) : ReadEntry(entry, s.next)
  BY DEF ReadConstant, Reading
<1>2. s.how \in {"reading"} \cup Ends /\ s.next \in 1 .. Eof + 1 /\ s.line \in Seq(Pieces)
  <2>1. /\ s.how \in {"reading", "hangs", "exhausted", "exit1"}
        /\ s.next \in 1 .. Eof + 1 /\ s.line \in Seq(Pieces)
    BY <1>1, TypesAre, ReadLineIs
  <2> QED
    BY <2>1 DEF Ends
<1>3. PICK f \in 1 .. Len(functions) : f = Fn
  BY <1>1, ReadingIs
<1>4. PICK n \in Nat \ {0} : n = Len(functions)
  BY TypesAre DEF IsSource
<1>5. IsFunction(functions[f], functions)
  BY TypesAre DEF IsSource
<1>6. CASE End(s.how)
  BY <1>2, <1>6, EndTyped
<1>7. CASE EndConstants(s.next)
  <2>1. status' \in {"reading"} \cup Ends
    BY <1>1, <1>7 DEF EndConstants, Ends
  <2>2. /\ writing' = writing /\ pos' = s.next /\ wanted' = wanted
        /\ inst' = inst /\ functions' = functions
    BY <1>7 DEF EndConstants
  <2> QED
    BY <1>2, <2>1, <2>2, TypesAre, TypesKept
<1>8. CASE GoOn(s.next, wanted, functions)
  BY <1>2, <1>8, TypesAre, GoOnTyped
<1>9. ASSUME NEW entry \in Entries(s.line), ReadEntry(entry, s.next)
      PROVE  TypesInv'
  <2>1. entry \in ConstValue \cup {Refused, FunctionLine}
    BY <1>2, EntriesTyped
  <2>2. CASE End("exit1")
    BY <2>2, EndTyped DEF Ends
  <2>3. CASE ReadNested(s.next)
    <3>1. PICK c : c = Append(functions[f].consts, Nested(n + 1))
      OBVIOUS
    <3>2. PICK fs : fs = [functions EXCEPT ![f].consts = c]
      OBVIOUS
    <3>3. functions' = Append(fs, NewFunction(""))
      BY <1>3, <1>4, <2>3, <3>1, <3>2 DEF ReadNested
    <3> DEFINE C == ConstValue \cup {Refused} \cup {Nested(j) : j \in 2 .. n + 1}
    <3>4. Len(functions) = n /\ DOMAIN functions = 1 .. n /\ f \in 1 .. n
          /\ functions = [j \in 1 .. n |-> functions[j]]
      BY <1>4, TypesAre DEF IsSource
    <3>5. fs = [j \in 1 .. n |-> fs[j]]
          /\ fs[f] = [functions[f] EXCEPT !.consts = c]
          /\ \A j \in 1 .. n : j # f => fs[j] = functions[j]
      BY <3>2, <3>4
    <3>6. Len(fs) = n
      BY <3>5
    <3>7. PICK new : new = NewFunction("")
      OBVIOUS
    <3>8. PICK t : t = Append(fs, new)
      OBVIOUS
    <3>9. PICK T : T = {fs[j] : j \in 1 .. n} \cup {new}
      OBVIOUS
    <3>10. fs \in Seq(T) /\ new \in T
      BY <3>5, <3>9
    <3>11. /\ t \in Seq(T) /\ Len(t) = n + 1 /\ t[n + 1] = new
           /\ \A j \in 1 .. n : t[j] = fs[j]
      BY <3>6, <3>8, <3>10, AppendProperties
    <3>12. Len(functions) <= Len(t) /\ Len(functions) \in Nat /\ Len(t) \in Nat
      BY <1>4, <3>11
    <3>13. \A j \in 1 .. n : IsFunction(functions[j], t)
      <4>1. \A j \in 1 .. n : IsFunction(functions[j], functions)
        BY <1>4, TypesAre DEF IsSource
      <4> QED
        BY <3>12, <4>1, FunctionWider
    <3>14. c \in Seq(C)
      <4>1. functions[f].consts \in Seq(C)
        BY <3>4, <3>11, <3>13 DEF IsFunction
      <4>2. Nested(n + 1) \in C
        <5>1. n + 1 \in 2 .. n + 1
          OBVIOUS
        <5> QED
          BY <5>1
      <4> HIDE DEF C
      <4> QED
        BY <3>1, <4>1, <4>2, AppendProperties
    <3>15. IsFunction(fs[f], t)
      <4>1. IsFunction(functions[f], t)
        BY <3>4, <3>13
      <4>2. PICK h, g : h = functions[f] /\ g = [h EXCEPT !.consts = c]
        OBVIOUS
      <4>3. h = [regs |-> h.regs, globals |-> h.globals, params |-> h.params,
                 name |-> h.name, code |-> h.code, consts |-> h.consts]
        BY <4>1, <4>2 DEF IsFunction
      <4>4. /\ g = [regs |-> g.regs, globals |-> g.globals, params |-> g.params,
                    name |-> g.name, code |-> g.code, consts |-> g.consts]
            /\ g.regs = h.regs /\ g.globals = h.globals /\ g.params = h.params
            /\ g.name = h.name /\ g.code = h.code /\ g.consts = c
        BY <4>2, <4>3
      <4>5. IsFunction(g, t)
        BY <3>11, <3>14, <4>1, <4>2, <4>4 DEF IsFunction
      <4> QED
        BY <3>5, <4>2, <4>5
    <3>16. IsFunction(new, t)
      <4>1. "" \in Strings
        BY ReaderAssumption
      <4>2. <<>> \in Seq(Instruction)
        OBVIOUS
      <4>3. <<>> \in Seq(ConstValue \cup {Refused} \cup {Nested(j) : j \in 2 .. Len(t)})
        OBVIOUS
      <4> QED
        BY <3>7, <4>1, <4>2, <4>3 DEF IsFunction, NewFunction
    <3>17. \A j \in 1 .. n + 1 : IsFunction(t[j], t)
      <4>1. \A j \in 1 .. n : j # f => IsFunction(t[j], t)
        BY <3>5, <3>11, <3>13
      <4>2. IsFunction(t[f], t) /\ IsFunction(t[n + 1], t)
        BY <3>4, <3>11, <3>15, <3>16
      <4>3. \A j \in 1 .. n + 1 : j \in 1 .. n \/ j = n + 1
        OBVIOUS
      <4> QED
        BY <4>1, <4>2, <4>3
    <3>18. t = [j \in 1 .. n + 1 |-> t[j]]
      BY <3>11, LenProperties
    <3>19. IsSource(functions')
      <4>1. functions' = t
        BY <3>3, <3>7, <3>8
      <4>2. Len(t) \in Nat \ {0}
        BY <3>11
      <4>3. IsSource(t)
        BY <3>11, <3>17, <3>18, <4>2 DEF IsSource
      <4> QED
        BY <4>1, <4>3
    <3>20. /\ writing' = writing /\ pos' = s.next /\ wanted' = ">HEAD"
           /\ inst' = inst /\ status' = status
      BY <2>3 DEF ReadNested
    <3>21. ">HEAD" \in Wanted
      BY DEF Wanted, Marks
    <3> QED
      BY <1>2, <3>19, <3>20, <3>21, TypesAre, TypesKept
  <2>4. CASE /\ entry \notin {Refused, FunctionLine}
             /\ GoOn(s.next, wanted, [functions EXCEPT ![Fn].consts = Append(@, entry)])
    <3>1. PICK g : g = [functions[f] EXCEPT !.consts = Append(@, entry)]
      OBVIOUS
    <3> DEFINE C == ConstValue \cup {Refused} \cup {Nested(j) : j \in 2 .. Len(functions)}
    <3>2. Append(functions[f].consts, entry) \in Seq(C)
      <4>1. functions[f].consts \in Seq(C)
        BY <1>5 DEF IsFunction
      <4>2. entry \in C
        BY <2>1, <2>4
      <4> HIDE DEF C
      <4> QED
        BY <4>1, <4>2, AppendProperties
    <3>3. IsFunction(g, functions)
      BY <1>5, <3>1, <3>2 DEF IsFunction
    <3>4. [functions EXCEPT ![Fn].consts = Append(@, entry)] = [functions EXCEPT ![f] = g]
      BY <1>3, <3>1
    <3>5. IsSource([functions EXCEPT ![Fn].consts = Append(@, entry)])
      BY <3>3, <3>4, TypesAre, SourceChanged
    <3> QED
      BY <1>2, <2>4, <3>5, TypesAre, GoOnTyped
  <2> QED
    BY <1>9, <2>2, <2>3, <2>4 DEF ReadEntry
<1> QED
  BY <1>1, <1>6, <1>7, <1>8, <1>9

LEMMA TypesInit == Init => TypesInv
<1> SUFFICES ASSUME Init
             PROVE  TypesInv
  OBVIOUS
<1>1. /\ writing \in Writings /\ pos = 1 /\ wanted = ">HEAD" /\ open = <<1>>
      /\ functions = <<NewFunction("main")>> /\ inst = NoInst /\ status = "reading"
  BY DEF Init
<1>2. pos \in 1 .. Eof + 1
  BY <1>1, TextIs DEF Eof
<1>3. IsInst(inst)
  <2>1. <<>> \in Seq(Int) /\ Len(<<>>) < 3 /\ "nop" \in Opcode
    BY DEF Opcode
  <2> QED
    BY <1>1, <2>1 DEF IsInst, NoInst
<1>4. IsSource(functions)
  <2>1. PICK main : main = NewFunction("main")
    OBVIOUS
  <2>2. functions = <<main>> /\ Len(functions) = 1 /\ functions[1] = main
    BY <1>1, <2>1
  <2>3. IsFunction(main, functions)
    <3>1. "main" \in Strings
      BY ReaderAssumption
    <3>2. <<>> \in Seq(Instruction)
      OBVIOUS
    <3>3. <<>> \in Seq(ConstValue \cup {Refused} \cup {Nested(j) : j \in 2 .. Len(functions)})
      OBVIOUS
    <3> QED
      BY <2>1, <3>1, <3>2, <3>3 DEF IsFunction, NewFunction
  <2>4. functions = [j \in 1 .. 1 |-> functions[j]]
    BY <2>2
  <2> QED
    BY <2>2, <2>3, <2>4 DEF IsSource
<1>5. open \in Seq(DOMAIN functions) /\ open # <<>>
  BY <1>1
<1> QED
  BY <1>1, <1>2, <1>3, <1>4, <1>5 DEF TypesInv, TypeOK, IsInst, Marks

LEMMA TypesNext ==
  JoinsAreStrings => (TypesInv /\ OrderInv /\ OrderInv' /\ [Next]_vars => TypesInv')
<1> SUFFICES ASSUME JoinsAreStrings, TypesInv, OrderInv, OrderInv', [Next]_vars
             PROVE  TypesInv'
  OBVIOUS
<1>1. CASE Step
  BY <1>1, ExpectTyped, ReadSettingTyped, ReadOpcodeTyped, ReadOperandTyped, ReadConstantTyped
     DEF Step
<1>2. CASE UNCHANGED vars
  <2>1. /\ writing' = writing /\ pos' = pos /\ wanted' = wanted
        /\ inst' = inst /\ functions' = functions /\ status' = status
    BY <1>2 DEF vars
  <2> QED
    BY <2>1, TypesAre, TypesKept
<1> QED
  BY <1>1, <1>2 DEF Next, Ended

\* Whatever the text, what has been read is a source at every step: every field
\* of an instruction fits, every entry of a function is a constant, a line that
\* will be refused or a function that has begun, and the reader never looks past
\* the end of the file.  The texts of strings have to hold what the words of a
\* file make when they are joined (compiler.c:215-449).
THEOREM ReaderTypes ==
  ASSUME JoinsAreStrings
  PROVE  Spec => []TypeOK
<1>1. TypesInv => TypeOK
  BY DEF TypesInv
<1>2. TypesInv /\ OrderInv /\ OrderInv' /\ [Next]_vars => TypesInv'
  BY TypesNext
<1> QED
  BY <1>1, <1>2, OrderInit, OrderNext, TypesInit, PTL DEF Spec, Safe

----------------------------------------------------------------------------
(* A text and the whole text it was cut from: the searches.  What is found *)
(* in the text is found at the same place of the whole.                    *)

LEMMA WholeTextIs ==
  ASSUME writing \in Writings
  PROVE  /\ Len(text) \in Nat /\ Len(Whole!text) \in Nat /\ Len(text) <= Len(Whole!text)
         /\ \A x \in 1 .. Len(text) : Whole!text[x] = text[x]
         /\ writing.kind = "cut" => Len(text) < Len(Whole!text)
<1> DEFINE T == Words \cup {" ", "\n", ";", "\""}
<1>1. text \in Seq(T) /\ writing.rest \in Seq(T) /\ (writing.kind = "cut" => writing.rest # <<>>)
  BY ReaderAssumption DEF text
<1>2. Whole!text = text \o writing.rest
  BY DEF Whole!text, WholeOf, text
<1> HIDE DEF T
<1>3. /\ Len(Whole!text) = Len(text) + Len(writing.rest)
      /\ Len(text) \in Nat /\ Len(writing.rest) \in Nat
      /\ \A x \in 1 .. Len(text) : Whole!text[x] = text[x]
  BY <1>1, <1>2, ConcatProperties, LenProperties
<1>4. writing.rest # <<>> => Len(writing.rest) # 0
  BY <1>1, EmptySeq
<1> QED
  BY <1>1, <1>3, <1>4

\* A place of the text, and the places before it.
LEMMA PlacesOfWhole ==
  ASSUME writing \in Writings, NEW p \in Nat \ {0}, NEW f \in From(p)
  PROVE  /\ f \in Nat /\ p <= f /\ f < Eof /\ Eof <= Whole!Eof /\ Eof \in Nat /\ Whole!Eof \in Nat
         /\ f \in Whole!From(p) /\ f \in 1 .. Len(text) /\ Whole!text[f] = text[f]
         /\ \A r \in p .. f - 1 : r \in Nat \ {0} /\ r \in 1 .. Len(text) /\ Whole!text[r] = text[r]
         /\ \A z \in Whole!From(p) : z \in Nat /\ p <= z
<1>1. PICK l, w : l = Len(text) /\ w = Len(Whole!text)
  OBVIOUS
<1>2. l \in Nat /\ w \in Nat /\ l <= w /\ \A x \in 1 .. l : Whole!text[x] = text[x]
  BY <1>1, WholeTextIs
<1>3. f \in p .. l /\ From(p) = p .. l /\ Whole!From(p) = p .. w /\ Eof = l + 1 /\ Whole!Eof = w + 1
  BY <1>1 DEF From, Whole!From, Eof, Whole!Eof
<1>4. f \in 1 .. l /\ \A r \in p .. f - 1 : r \in 1 .. l /\ r \in Nat \ {0}
  BY <1>2, <1>3
<1> QED
  BY <1>1, <1>2, <1>3, <1>4

LEMMA SameQuotes ==
  ASSUME writing \in Writings, NEW a \in Nat \ {0}, NEW b \in Int, b <= Len(text)
  PROVE  Whole!Quotes(a, b) = Quotes(a, b)
<1>1. \A r \in a .. b : Whole!text[r] = text[r]
  <2>1. \A r \in a .. b : r \in 1 .. Len(text)
    BY WholeTextIs
  <2> QED
    BY <2>1, WholeTextIs
<1>2. {r \in a .. b : Whole!text[r] = "\""} = {r \in a .. b : text[r] = "\""}
  BY <1>1, Zenon
<1> QED
  BY <1>2, Zenon DEF Quotes, Whole!Quotes, Cardinality, Whole!Cardinality

LEMMA NewlineWhole ==
  ASSUME writing \in Writings, NEW p \in Nat \ {0}, Newline(p) # Eof
  PROVE  Whole!Newline(p) = Newline(p)
<1> DEFINE P(q) == Whole!text[q] = "\n"
<1>1. PICK f : f = Newline(p) /\ f \in From(p)
  BY WholeTextIs, NewlineIs
<1>2. /\ text[f] = "\n"
      /\ \A r \in p .. f - 1 : ~(text[r] = "\n")
  BY <1>1, WholeTextIs, NewlineFirst
<1>3. p \in Nat \ {0}
  OBVIOUS
<1>4. f \in Whole!From(p) /\ P(f) /\ (\A r \in p .. f - 1 : ~P(r))
  <2>1. /\ f \in Whole!From(p) /\ Whole!text[f] = text[f]
        /\ \A r \in p .. f - 1 : Whole!text[r] = text[r]
    BY <1>1, <1>3, PlacesOfWhole
  <2> QED
    BY <1>2, <2>1, Zenon
<1> HIDE DEF P
<1>5. f \in Nat /\ p <= f /\ \A z \in Whole!From(p) : z \in Nat /\ p <= z
  BY <1>1, <1>3, PlacesOfWhole
<1>6. \A z \in Whole!From(p) : P(z) /\ (\A r \in p .. z - 1 : ~P(r)) => z = f
  BY <1>3, <1>4, <1>5
<1>7. Whole!Newline(p) = f
  BY <1>4, <1>6, Zenon DEF Whole!Newline, Whole!First, P
<1> QED
  BY <1>1, <1>7

LEMMA NewlineLate ==
  ASSUME writing \in Writings, NEW p \in Nat \ {0}, p <= Eof, Newline(p) = Eof
  PROVE  Whole!Newline(p) \in Nat /\ Eof <= Whole!Newline(p)
<1> DEFINE P(q) == Whole!text[q] = "\n"
           S == {q \in Whole!From(p) : P(q)}
<1>1. /\ Eof \in Nat /\ Whole!Eof \in Nat /\ Eof <= Whole!Eof
      /\ \A z \in Whole!From(p) : z \in Nat /\ p <= z
      /\ \A z \in Nat : p <= z /\ z < Eof => z \in 1 .. Len(text) /\ z \in p .. Eof - 1
  BY WholeTextIs DEF Eof, Whole!Eof, Whole!From
<1>2. \A r \in p .. Eof - 1 : ~(text[r] = "\n")
  BY WholeTextIs, NewlineFirst
<1>3. \A z \in S : z \in Nat /\ p <= z /\ Eof <= z
  BY <1>1, <1>2, WholeTextIs
<1> HIDE DEF P
<1>4. CASE S = {}
  <2>1. Whole!Newline(p) = Whole!Eof
    BY <1>4, Zenon DEF Whole!Newline, Whole!First, P
  <2> QED
    BY <1>1, <2>1
<1>5. CASE S # {}
  <2>1. p \in Nat
    OBVIOUS
  <2>2. PICK q \in S : \A r \in p .. q - 1 : r \notin S
    <3> HIDE DEF S
    <3> QED
      BY <1>3, <1>5, <2>1, LeastFrom
  <2>3. \A r \in p .. q - 1 : r \in Whole!From(p)
    BY <1>1, <2>1, <2>2, WholeTextIs DEF Whole!From
  <2>4. \E q1 \in Whole!From(p) : P(q1) /\ \A r \in p .. q1 - 1 : ~P(r)
    BY <2>2, <2>3
  <2>5. Whole!Newline(p) \in S
    BY <2>4, Zenon DEF Whole!Newline, Whole!First, P
  <2> QED
    BY <1>3, <2>5
<1> QED
  BY <1>4, <1>5

LEMMA SameCommented ==
  ASSUME writing \in Writings, NEW p \in Nat \ {0}, NEW q \in 1 .. Len(text)
  PROVE  Whole!Commented(p, q) <=> Commented(p, q)
<1>1. \A s \in p .. q - 1 : s \in Nat \ {0} /\ s \in 1 .. Len(text) /\ s <= Eof
  BY WholeTextIs DEF Eof
<1>2. Eof \in Nat /\ q \in Nat /\ q < Eof
  BY WholeTextIs DEF Eof
<1>3. ASSUME NEW s \in p .. q - 1
      PROVE  Whole!Newline(s) >= q <=> Newline(s) >= q
  <2>1. CASE Newline(s) # Eof
    BY <1>1, <2>1, NewlineWhole
  <2>2. CASE Newline(s) = Eof
    <3>1. Whole!Newline(s) \in Nat /\ Eof <= Whole!Newline(s)
      BY <1>1, <2>2, NewlineLate
    <3> QED
      BY <1>2, <2>2, <3>1
  <2> QED
    BY <2>1, <2>2
<1> QED
  BY <1>1, <1>3, WholeTextIs DEF Commented, Whole!Commented, EndOfLine, Whole!EndOfLine

LEMMA SolidWhole ==
  ASSUME writing \in Writings, NEW p \in Nat \ {0}, Solid(p) # Eof
  PROVE  Whole!Solid(p) = Solid(p)
<1> DEFINE P(q) == Whole!text[q] \notin Whole!Space \cup {";"} /\ ~Whole!Commented(p, q)
<1>1. PICK f : f = Solid(p) /\ f \in From(p)
  BY WholeTextIs, SolidIs
<1>2. /\ text[f] \notin Space \cup {";"} /\ ~Commented(p, f)
      /\ \A r \in p .. f - 1 : ~(text[r] \notin Space \cup {";"} /\ ~Commented(p, r))
  BY <1>1, WholeTextIs, SolidFirst
<1>3. p \in Nat \ {0}
  OBVIOUS
<1>4. \A q \in {f} \cup (p .. f - 1) : Whole!Commented(p, q) <=> Commented(p, q)
  BY <1>1, PlacesOfWhole, SameCommented
<1>5. f \in Whole!From(p) /\ P(f) /\ (\A r \in p .. f - 1 : ~P(r))
  <2>1. /\ f \in Whole!From(p) /\ Whole!text[f] = text[f]
        /\ \A r \in p .. f - 1 : Whole!text[r] = text[r]
    BY <1>1, <1>3, PlacesOfWhole
  <2> QED
    BY <1>2, <2>1, <1>4, Zenon DEF Space, Whole!Space
<1> HIDE DEF P
<1>6. f \in Nat /\ p <= f /\ \A z \in Whole!From(p) : z \in Nat /\ p <= z
  BY <1>1, <1>3, PlacesOfWhole
<1>7. \A z \in Whole!From(p) : P(z) /\ (\A r \in p .. z - 1 : ~P(r)) => z = f
  BY <1>3, <1>5, <1>6
<1>8. Whole!Solid(p) = f
  BY <1>5, <1>7, Zenon DEF Whole!Solid, Whole!First, P
<1> QED
  BY <1>1, <1>8

LEMMA WordEndWhole ==
  ASSUME writing \in Writings, NEW s \in Nat \ {0}, WordEnd(s) # Eof
  PROVE  Whole!WordEnd(s) = WordEnd(s)
<1> DEFINE P(q) == Whole!text[q] \in Whole!Space /\ ~Whole!Odd(Whole!Quotes(s + 1, q - 1))
<1>1. PICK f : f = WordEnd(s) /\ f \in From(s + 1)
  BY WholeTextIs, WordEndIs
<1>2. /\ text[f] \in Space /\ ~Odd(Quotes(s + 1, f - 1))
      /\ \A r \in s + 1 .. f - 1 : ~(text[r] \in Space /\ ~Odd(Quotes(s + 1, r - 1)))
  BY <1>1, WholeTextIs, WordEndFirst
<1>3. s + 1 \in Nat \ {0}
  OBVIOUS
<1>4. \A q \in {f} \cup (s + 1 .. f - 1) : Whole!Quotes(s + 1, q - 1) = Quotes(s + 1, q - 1)
  <2>1. \A q \in {f} \cup (s + 1 .. f - 1) : q - 1 \in Int /\ q - 1 <= Len(text)
    BY <1>1, <1>3, PlacesOfWhole, WholeTextIs
  <2> QED
    BY <1>3, <2>1, SameQuotes
<1>5. f \in Whole!From(s + 1) /\ P(f) /\ (\A r \in s + 1 .. f - 1 : ~P(r))
  <2>1. /\ f \in Whole!From(s + 1) /\ Whole!text[f] = text[f]
        /\ \A r \in s + 1 .. f - 1 : Whole!text[r] = text[r]
    BY <1>1, <1>3, PlacesOfWhole
  <2> QED
    BY <1>2, <2>1, <1>4, Zenon DEF Space, Whole!Space, Odd, Whole!Odd
<1> HIDE DEF P
<1>6. f \in Nat /\ s + 1 <= f /\ \A z \in Whole!From(s + 1) : z \in Nat /\ s + 1 <= z
  BY <1>1, <1>3, PlacesOfWhole
<1>7. \A z \in Whole!From(s + 1) : P(z) /\ (\A r \in s + 1 .. z - 1 : ~P(r)) => z = f
  BY <1>3, <1>5, <1>6
<1>8. Whole!WordEnd(s) = f
  BY <1>5, <1>7, Zenon DEF Whole!WordEnd, Whole!First, P
<1> QED
  BY <1>1, <1>8

LEMMA LineStartWhole ==
  ASSUME writing \in Writings, NEW p \in Nat \ {0}, LineStart(p) # Eof
  PROVE  Whole!LineStart(p) = LineStart(p)
<1> DEFINE P(q) == Whole!text[q] \notin Whole!Space
<1>1. PICK f : f = LineStart(p) /\ f \in From(p)
  BY WholeTextIs, LineStartIs
<1>2. /\ text[f] \notin Space
      /\ \A r \in p .. f - 1 : ~(text[r] \notin Space)
  BY <1>1, WholeTextIs, LineStartFirst
<1>3. p \in Nat \ {0}
  OBVIOUS
<1>4. f \in Whole!From(p) /\ P(f) /\ (\A r \in p .. f - 1 : ~P(r))
  <2>1. /\ f \in Whole!From(p) /\ Whole!text[f] = text[f]
        /\ \A r \in p .. f - 1 : Whole!text[r] = text[r]
    BY <1>1, <1>3, PlacesOfWhole
  <2> QED
    BY <1>2, <2>1, Zenon DEF Space, Whole!Space
<1> HIDE DEF P
<1>5. f \in Nat /\ p <= f /\ \A z \in Whole!From(p) : z \in Nat /\ p <= z
  BY <1>1, <1>3, PlacesOfWhole
<1>6. \A z \in Whole!From(p) : P(z) /\ (\A r \in p .. z - 1 : ~P(r)) => z = f
  BY <1>3, <1>4, <1>5
<1>7. Whole!LineStart(p) = f
  BY <1>4, <1>6, Zenon DEF Whole!LineStart, Whole!First, P
<1> QED
  BY <1>1, <1>7

LEMMA LineEndWhole ==
  ASSUME writing \in Writings, NEW s \in Nat \ {0}, LineEnd(s) # Eof
  PROVE  Whole!LineEnd(s) = LineEnd(s)
<1> DEFINE P(q) == Whole!text[q] \in {"\n", ";"} /\ ~Whole!Odd(Whole!Quotes(s + 1, q - 1))
<1>1. PICK f : f = LineEnd(s) /\ f \in From(s + 1)
  BY WholeTextIs, LineEndIs
<1>2. /\ text[f] \in {"\n", ";"} /\ ~Odd(Quotes(s + 1, f - 1))
      /\ \A r \in s + 1 .. f - 1 : ~(text[r] \in {"\n", ";"} /\ ~Odd(Quotes(s + 1, r - 1)))
  BY <1>1, WholeTextIs, LineEndFirst
<1>3. s + 1 \in Nat \ {0}
  OBVIOUS
<1>4. \A q \in {f} \cup (s + 1 .. f - 1) : Whole!Quotes(s + 1, q - 1) = Quotes(s + 1, q - 1)
  <2>1. \A q \in {f} \cup (s + 1 .. f - 1) : q - 1 \in Int /\ q - 1 <= Len(text)
    BY <1>1, <1>3, PlacesOfWhole, WholeTextIs
  <2> QED
    BY <1>3, <2>1, SameQuotes
<1>5. f \in Whole!From(s + 1) /\ P(f) /\ (\A r \in s + 1 .. f - 1 : ~P(r))
  <2>1. /\ f \in Whole!From(s + 1) /\ Whole!text[f] = text[f]
        /\ \A r \in s + 1 .. f - 1 : Whole!text[r] = text[r]
    BY <1>1, <1>3, PlacesOfWhole
  <2> QED
    BY <1>2, <2>1, <1>4, Zenon DEF Odd, Whole!Odd
<1> HIDE DEF P
<1>6. f \in Nat /\ s + 1 <= f /\ \A z \in Whole!From(s + 1) : z \in Nat /\ s + 1 <= z
  BY <1>1, <1>3, PlacesOfWhole
<1>7. \A z \in Whole!From(s + 1) : P(z) /\ (\A r \in s + 1 .. z - 1 : ~P(r)) => z = f
  BY <1>3, <1>5, <1>6
<1>8. Whole!LineEnd(s) = f
  BY <1>5, <1>7, Zenon DEF Whole!LineEnd, Whole!First, P
<1> QED
  BY <1>1, <1>8

LEMMA BrokenAtWhole ==
  ASSUME writing \in Writings, NEW s \in Nat \ {0}, BrokenAt(s) # Eof
  PROVE  Whole!BrokenAt(s) = BrokenAt(s)
<1> DEFINE P(q) == Whole!text[q] = "\n" /\ Whole!Odd(Whole!Quotes(s + 1, q - 1))
<1>1. PICK f : f = BrokenAt(s) /\ f \in From(s + 1)
  BY WholeTextIs, BrokenAtIs
<1>2. /\ text[f] = "\n" /\ Odd(Quotes(s + 1, f - 1))
      /\ \A r \in s + 1 .. f - 1 : ~(text[r] = "\n" /\ Odd(Quotes(s + 1, r - 1)))
  BY <1>1, WholeTextIs, BrokenAtFirst
<1>3. s + 1 \in Nat \ {0}
  OBVIOUS
<1>4. \A q \in {f} \cup (s + 1 .. f - 1) : Whole!Quotes(s + 1, q - 1) = Quotes(s + 1, q - 1)
  <2>1. \A q \in {f} \cup (s + 1 .. f - 1) : q - 1 \in Int /\ q - 1 <= Len(text)
    BY <1>1, <1>3, PlacesOfWhole, WholeTextIs
  <2> QED
    BY <1>3, <2>1, SameQuotes
<1>5. f \in Whole!From(s + 1) /\ P(f) /\ (\A r \in s + 1 .. f - 1 : ~P(r))
  <2>1. /\ f \in Whole!From(s + 1) /\ Whole!text[f] = text[f]
        /\ \A r \in s + 1 .. f - 1 : Whole!text[r] = text[r]
    BY <1>1, <1>3, PlacesOfWhole
  <2> QED
    BY <1>2, <2>1, <1>4, Zenon DEF Odd, Whole!Odd
<1> HIDE DEF P
<1>6. f \in Nat /\ s + 1 <= f /\ \A z \in Whole!From(s + 1) : z \in Nat /\ s + 1 <= z
  BY <1>1, <1>3, PlacesOfWhole
<1>7. \A z \in Whole!From(s + 1) : P(z) /\ (\A r \in s + 1 .. z - 1 : ~P(r)) => z = f
  BY <1>3, <1>5, <1>6
<1>8. Whole!BrokenAt(s) = f
  BY <1>5, <1>7, Zenon DEF Whole!BrokenAt, Whole!First, P
<1> QED
  BY <1>1, <1>8

LEMMA BrokenAtLate ==
  ASSUME writing \in Writings, NEW s \in Nat \ {0}, s + 1 <= Eof, BrokenAt(s) = Eof
  PROVE  Whole!BrokenAt(s) \in Nat /\ Eof <= Whole!BrokenAt(s)
<1> DEFINE P(q) == Whole!text[q] = "\n" /\ Whole!Odd(Whole!Quotes(s + 1, q - 1))
           S == {q \in Whole!From(s + 1) : P(q)}
<1>1. /\ Eof \in Nat /\ Whole!Eof \in Nat /\ Eof <= Whole!Eof
      /\ \A z \in Whole!From(s + 1) : z \in Nat /\ s + 1 <= z
      /\ \A z \in Nat : s + 1 <= z /\ z < Eof => z \in 1 .. Len(text) /\ z \in s + 1 .. Eof - 1
  BY WholeTextIs DEF Eof, Whole!Eof, Whole!From
<1>2. \A r \in s + 1 .. Eof - 1 : ~(text[r] = "\n" /\ Odd(Quotes(s + 1, r - 1)))
  BY WholeTextIs, BrokenAtFirst
<1>3. \A z \in Nat : s + 1 <= z /\ z < Eof => Whole!Quotes(s + 1, z - 1) = Quotes(s + 1, z - 1)
  <2>1. \A z \in Nat : s + 1 <= z /\ z < Eof => z - 1 \in Int /\ z - 1 <= Len(text)
    BY WholeTextIs DEF Eof
  <2> QED
    BY <2>1, SameQuotes
<1>4. \A z \in S : z \in Nat /\ s + 1 <= z /\ Eof <= z
  <2>1. \A z \in Nat : s + 1 <= z /\ z < Eof => ~P(z)
    <3>1. ASSUME NEW z \in Nat, s + 1 <= z, z < Eof
          PROVE  /\ z \in s + 1 .. Eof - 1 /\ Whole!text[z] = text[z]
                 /\ Whole!Quotes(s + 1, z - 1) = Quotes(s + 1, z - 1)
      BY <1>1, <1>3, <3>1, WholeTextIs
    <3> QED
      BY <1>2, <3>1, Zenon DEF Odd, Whole!Odd
  <2> HIDE DEF P
  <2> QED
    BY <1>1, <2>1
<1> HIDE DEF P
<1>5. CASE S = {}
  <2>1. Whole!BrokenAt(s) = Whole!Eof
    BY <1>5, Zenon DEF Whole!BrokenAt, Whole!First, P
  <2> QED
    BY <1>1, <2>1
<1>6. CASE S # {}
  <2>1. s + 1 \in Nat
    OBVIOUS
  <2>2. PICK q \in S : \A r \in s + 1 .. q - 1 : r \notin S
    <3> HIDE DEF S
    <3> QED
      BY <1>4, <1>6, <2>1, LeastFrom
  <2>3. \A r \in s + 1 .. q - 1 : r \in Whole!From(s + 1)
    BY <1>1, <2>1, <2>2, WholeTextIs DEF Whole!From
  <2>4. \E q1 \in Whole!From(s + 1) : P(q1) /\ \A r \in s + 1 .. q1 - 1 : ~P(r)
    BY <2>2, <2>3
  <2>5. Whole!BrokenAt(s) \in S
    BY <2>4, Zenon DEF Whole!BrokenAt, Whole!First, P
  <2> QED
    BY <1>4, <2>5
<1> QED
  BY <1>5, <1>6

LEMMA OperandStartWhole ==
  ASSUME writing \in Writings, NEW p \in Nat \ {0}, OperandStart(p) # Eof
  PROVE  Whole!OperandStart(p) = OperandStart(p)
<1> DEFINE P(q) == Whole!text[q] # " "
<1>1. PICK f : f = OperandStart(p) /\ f \in From(p)
  BY WholeTextIs, OperandStartIs
<1>2. /\ text[f] # " "
      /\ \A r \in p .. f - 1 : ~(text[r] # " ")
  BY <1>1, WholeTextIs, OperandStartFirst
<1>3. p \in Nat \ {0}
  OBVIOUS
<1>4. f \in Whole!From(p) /\ P(f) /\ (\A r \in p .. f - 1 : ~P(r))
  <2>1. /\ f \in Whole!From(p) /\ Whole!text[f] = text[f]
        /\ \A r \in p .. f - 1 : Whole!text[r] = text[r]
    BY <1>1, <1>3, PlacesOfWhole
  <2> QED
    BY <1>2, <2>1, Zenon
<1> HIDE DEF P
<1>5. f \in Nat /\ p <= f /\ \A z \in Whole!From(p) : z \in Nat /\ p <= z
  BY <1>1, <1>3, PlacesOfWhole
<1>6. \A z \in Whole!From(p) : P(z) /\ (\A r \in p .. z - 1 : ~P(r)) => z = f
  BY <1>3, <1>4, <1>5
<1>7. Whole!OperandStart(p) = f
  BY <1>4, <1>6, Zenon DEF Whole!OperandStart, Whole!First, P
<1> QED
  BY <1>1, <1>7

LEMMA OperandEndWhole ==
  ASSUME writing \in Writings, NEW p \in Nat \ {0}, OperandEnd(p) # Eof
  PROVE  Whole!OperandEnd(p) = OperandEnd(p)
<1> DEFINE P(q) == Whole!text[q] \in Whole!Space \cup {";"}
<1>1. PICK f : f = OperandEnd(p) /\ f \in From(p)
  BY WholeTextIs, OperandEndIs
<1>2. /\ text[f] \in Space \cup {";"}
      /\ \A r \in p .. f - 1 : ~(text[r] \in Space \cup {";"})
  BY <1>1, WholeTextIs, OperandEndFirst
<1>3. p \in Nat \ {0}
  OBVIOUS
<1>4. f \in Whole!From(p) /\ P(f) /\ (\A r \in p .. f - 1 : ~P(r))
  <2>1. /\ f \in Whole!From(p) /\ Whole!text[f] = text[f]
        /\ \A r \in p .. f - 1 : Whole!text[r] = text[r]
    BY <1>1, <1>3, PlacesOfWhole
  <2> QED
    BY <1>2, <2>1, Zenon DEF Space, Whole!Space
<1> HIDE DEF P
<1>5. f \in Nat /\ p <= f /\ \A z \in Whole!From(p) : z \in Nat /\ p <= z
  BY <1>1, <1>3, PlacesOfWhole
<1>6. \A z \in Whole!From(p) : P(z) /\ (\A r \in p .. z - 1 : ~P(r)) => z = f
  BY <1>3, <1>4, <1>5
<1>7. Whole!OperandEnd(p) = f
  BY <1>4, <1>6, Zenon DEF Whole!OperandEnd, Whole!First, P
<1> QED
  BY <1>1, <1>7

----------------------------------------------------------------------------
(* What is read.                                                           *)

LEMMA JoinWhole ==
  ASSUME NEW pieces
  PROVE  Whole!Join(pieces) = Join(pieces)
BY Zenon DEF Join, Whole!Join, FoldLeft, Whole!FoldLeft, MapThenFoldSet, Whole!MapThenFoldSet,
             Max, Whole!Max

LEMMA UnquotedWhole ==
  ASSUME writing \in Writings, NEW s \in Nat \ {0}, NEW q \in Int, q <= Len(text)
  PROVE  Whole!Unquoted(s, q) = Unquoted(s, q)
<1> DEFINE X == 1 .. q - s + 1
           piece(x)  == IF text[s + x - 1] = "\"" /\ x > 1 /\ ~Odd(Quotes(s + 1, s + x - 1))
                          THEN "" ELSE text[s + x - 1]
           wpiece(x) == IF /\ Whole!text[s + x - 1] = "\"" /\ x > 1
                           /\ ~Whole!Odd(Whole!Quotes(s + 1, s + x - 1))
                          THEN "" ELSE Whole!text[s + x - 1]
<1>1. \A x \in X : /\ s + x - 1 \in 1 .. Len(text)
                   /\ s + x - 1 \in Int /\ s + x - 1 <= Len(text)
  BY WholeTextIs
<1>2. s + 1 \in Nat \ {0}
  OBVIOUS
<1>3. \A x \in X : /\ Whole!text[s + x - 1] = text[s + x - 1]
                   /\ Whole!Quotes(s + 1, s + x - 1) = Quotes(s + 1, s + x - 1)
  BY <1>1, <1>2, WholeTextIs, SameQuotes
<1>4. \A n : Whole!Odd(n) <=> Odd(n)
  BY DEF Odd, Whole!Odd
<1>5. \A x \in X : wpiece(x) = piece(x)
  <2> HIDE DEF X
  <2> QED
    BY <1>3, <1>4, Zenon
<1>6. [x \in X |-> wpiece(x)] = [x \in X |-> piece(x)]
  <2> HIDE DEF X, piece, wpiece
  <2> QED
    BY <1>5, Zenon
<1>7. /\ Unquoted(s, q) = Join([x \in X |-> piece(x)])
      /\ Whole!Unquoted(s, q) = Whole!Join([x \in X |-> wpiece(x)])
  BY Zenon DEF Unquoted, Whole!Unquoted
<1> HIDE DEF X, piece, wpiece
<1> QED
  BY <1>6, <1>7, JoinWhole, Zenon

\* A word that is read is read of the whole, and the text goes on after it.
LEMMA ReadNextWhole ==
  ASSUME writing \in Writings, NEW p \in Nat \ {0}, ReadNext(p).how = "reading"
  PROVE  /\ Whole!ReadNext(p) = ReadNext(p)
         /\ ReadNext(p).next \in Nat \ {0} /\ ReadNext(p).next <= Eof
<1>1. PICK s : s = Solid(p) /\ s \in From(p) \cup {Eof}
  BY WholeTextIs, SolidIs
<1>2. s \in Nat \ {0} /\ Eof \in Nat /\ From(Eof + 1) = {}
  BY <1>1, WholeTextIs DEF From, Eof
<1>3. PICK e : e = WordEnd(s) /\ e \in From(s + 1) \cup {Eof}
  BY <1>2, WholeTextIs, WordEndIs
<1>4. e # Eof
  <2>1. SUFFICES ASSUME e = Eof
                 PROVE  FALSE
    OBVIOUS
  <2>2. \E how \in {"hangs", "exhausted", "exit1"} : ReadNext(p) = Stuck(how)
    BY <1>1, <1>3, <2>1 DEF ReadNext
  <2>3. \A how : Stuck(how).how = how
    BY DEF Stuck
  <2> QED
    BY <2>2, <2>3
<1>5. s # Eof
  BY <1>2, <1>3, <1>4
<1>6. Whole!Solid(p) = s /\ Whole!WordEnd(s) = e
  BY <1>1, <1>2, <1>3, <1>4, <1>5, SolidWhole, WordEndWhole
<1>7. /\ e \in Nat /\ s < e /\ e < Eof /\ e # Whole!Eof /\ e - 1 \in Int /\ e - 1 <= Len(text)
      /\ Whole!text[s] = text[s]
  <2>1. e \in From(s + 1) /\ s \in From(p) /\ s + 1 \in Nat \ {0}
    BY <1>1, <1>2, <1>3, <1>4, <1>5
  <2>2. e \in Nat /\ s + 1 <= e /\ e < Eof /\ Eof <= Whole!Eof /\ Whole!Eof \in Nat
    BY <2>1, PlacesOfWhole
  <2>3. Whole!text[s] = text[s]
    BY <2>1, PlacesOfWhole
  <2> QED
    BY <1>2, <2>2, <2>3, WholeTextIs DEF Eof
<1>8. ReadNext(p) = Word(s, e - 1, e + 1)
  BY <1>1, <1>3, <1>4 DEF ReadNext
<1>9. Whole!ReadNext(p) = Whole!Word(s, e - 1, e + 1)
  BY <1>6, <1>7 DEF Whole!ReadNext
<1>10. Whole!Unquoted(s, e - 1) = Unquoted(s, e - 1)
  BY <1>2, <1>7, UnquotedWhole
<1>11. Whole!Word(s, e - 1, e + 1) = Word(s, e - 1, e + 1)
  BY <1>7, <1>10 DEF Word, Whole!Word
<1>12. e + 1 \in Nat \ {0} /\ e + 1 <= Eof
  BY <1>2, <1>7
<1> QED
  BY <1>8, <1>9, <1>11, <1>12 DEF Word

LEMMA PartOfWhole ==
  ASSUME writing \in Writings, NEW a \in Nat \ {0}, NEW b \in Int, b <= Len(text)
  PROVE  SubSeq(Whole!text, a, b) = SubSeq(text, a, b)
<1>1. \A x \in 1 .. b - a + 1 : Whole!text[a + x - 1] = text[a + x - 1]
  <2>1. \A x \in 1 .. b - a + 1 : a + x - 1 \in 1 .. Len(text)
    BY WholeTextIs
  <2> QED
    BY <2>1, WholeTextIs
<1> QED
  BY <1>1, WholeTextIs

LEMMA LineBeforeWhole ==
  ASSUME writing \in Writings, NEW s \in Nat \ {0}, NEW e \in Nat, s < e, e <= Len(text)
  PROVE  Whole!LineBefore(s, e) = LineBefore(s, e)
<1> DEFINE closing  == {r \in s + 1 .. e - 1 : text[r] = "\"" /\ ~Odd(Quotes(s + 1, r))}
           wclosing == {r \in s + 1 .. e - 1 :
                          Whole!text[r] = "\"" /\ ~Whole!Odd(Whole!Quotes(s + 1, r))}
           kept  == SubSeq(text, s, e - 1)
           wkept == SubSeq(Whole!text, s, e - 1)
<1>1. \A r \in s + 1 .. e - 1 : /\ r \in 1 .. Len(text) /\ r \in Int /\ r <= Len(text)
                                /\ r - 1 \in Int /\ r - 1 <= Len(text)
  BY WholeTextIs
<1>2. s + 1 \in Nat \ {0} /\ e \in 1 .. Len(text) /\ e - 1 \in Int /\ e - 1 <= Len(text)
  BY WholeTextIs
<1>3. \A r \in s + 1 .. e - 1 : /\ Whole!text[r] = text[r]
                                /\ Whole!Quotes(s + 1, r) = Quotes(s + 1, r)
                                /\ Whole!Odd(Quotes(s + 1, r)) <=> Odd(Quotes(s + 1, r))
  BY <1>1, <1>2, WholeTextIs, SameQuotes DEF Odd, Whole!Odd
<1>4. wclosing = closing
  BY <1>3, Zenon
<1>5. wkept = kept /\ Whole!text[e] = text[e]
  BY <1>2, WholeTextIs, PartOfWhole
<1>6. closing # {} => SubSeq(Whole!text, s, Min(closing) - 1) = SubSeq(text, s, Min(closing) - 1)
  <2>1. closing \subseteq s + 1 .. e - 1
    BY Zenon
  <2> HIDE DEF closing
  <2>3. s + 1 .. e - 1 \subseteq Nat
    BY <1>2
  <2>2. closing # {} => Min(closing) \in s + 1 .. e - 1
    BY <2>1, <2>3, MinIs
  <2> QED
    BY <1>1, <2>2, PartOfWhole
<1>7. /\ Whole!Min(closing) = Min(closing) /\ Whole!Last(kept) = Last(kept)
      /\ Whole!Front(kept) = Front(kept)
  <2>1. Whole!Min(closing) = Min(closing)
    <3> HIDE DEF closing
    <3> QED
      BY Zenon DEF Min, Whole!Min
  <2> HIDE DEF kept
  <2>2. Whole!Last(kept) = Last(kept) /\ Whole!Front(kept) = Front(kept)
    BY Zenon DEF Last, Whole!Last, Front, Whole!Front
  <2> QED
    BY <2>1, <2>2
<1> DEFINE left(end, line, last, front) ==
             IF end # ";" THEN line
             ELSE IF last \in Words /\ Shortened[last] # "" THEN Append(front, Shortened[last])
             ELSE front
<1>8. LineBefore(s, e) =
        IF closing # {} THEN SubSeq(text, s, Min(closing) - 1)
                        ELSE left(text[e], kept, Last(kept), Front(kept))
  BY Zenon DEF LineBefore
<1>9. Whole!LineBefore(s, e) =
        IF wclosing # {} THEN SubSeq(Whole!text, s, Whole!Min(wclosing) - 1)
                         ELSE left(Whole!text[e], wkept, Whole!Last(wkept), Whole!Front(wkept))
  BY Zenon DEF Whole!LineBefore
<1> HIDE DEF closing, wclosing, kept, wkept, left
<1>10. CASE closing # {}
  BY <1>4, <1>6, <1>7, <1>8, <1>9, <1>10
<1>11. CASE closing = {}
  BY <1>4, <1>5, <1>7, <1>8, <1>9, <1>11
<1> QED
  BY <1>10, <1>11

\* A line that is read is read of the whole.
LEMMA ReadLineWhole ==
  ASSUME writing \in Writings, NEW p \in Nat \ {0}, ReadLine(p).how = "reading"
  PROVE  /\ Whole!ReadLine(p) = ReadLine(p)
         /\ ReadLine(p).next \in Nat \ {0} /\ ReadLine(p).next <= Eof
<1>1. PICK s : s = LineStart(p) /\ s \in From(p) \cup {Eof}
  BY WholeTextIs, LineStartIs
<1>2. /\ s \in Nat \ {0} /\ s + 1 \in Nat \ {0} /\ Eof \in Nat /\ s <= Eof
      /\ From(Eof + 1) = {} /\ Whole!Eof \in Nat /\ Eof <= Whole!Eof
  BY <1>1, WholeTextIs DEF From, Eof, Whole!Eof
<1>3. PICK e : e = LineEnd(s) /\ e \in From(s + 1) \cup {Eof}
  BY <1>2, WholeTextIs, LineEndIs
<1>4. PICK b : b = BrokenAt(s) /\ b \in From(s + 1) \cup {Eof}
  BY <1>2, WholeTextIs, BrokenAtIs
<1>5. e \in Nat /\ b \in Nat
  BY <1>2, <1>3, <1>4 DEF From
<1>6. ReadLine(p) # NoLine("exit1") /\ ReadLine(p) # NoLine("hangs")
      /\ ReadLine(p) # NoLine("exhausted")
  <2>1. \A how : NoLine(how).how = how
    BY DEF NoLine
  <2> QED
    BY <2>1
<1> DEFINE Here    == e # Eof /\ e < b
           Endless == s # Eof /\ e = Eof /\ b = Eof /\ Odd(Quotes(s + 1, Len(text)))
<1>7. ReadLine(p) =
        CASE b < e                     -> NoLine("exit1")
          [] Here /\ text[e] = "\n" -> Line(LineBefore(s, e), e + 1)
          [] Here /\ text[e] = ";"  ->
               IF EndOfLine(e) = Eof THEN NoLine("hangs")
                                     ELSE Line(LineBefore(s, e), EndOfLine(e) + 1)
          [] Endless                   -> NoLine("exit1")
          [] OTHER                     -> NoLine("exhausted")
  BY <1>1, <1>3, <1>4 DEF ReadLine
<1>8. (b < e => ~Here /\ ~Endless) /\ (Here => ~Endless)
  BY <1>5
<1>9. /\ ~(b < e) /\ Here
      /\ \/ text[e] = "\n" /\ ReadLine(p) = Line(LineBefore(s, e), e + 1)
         \/ /\ text[e] = ";" /\ EndOfLine(e) # Eof
            /\ ReadLine(p) = Line(LineBefore(s, e), EndOfLine(e) + 1)
  <2> HIDE DEF Here, Endless
  <2>1. ~(b < e)
    BY <1>6, <1>7, <1>8
  <2>2. Here
    BY <1>6, <1>7, <1>8, <2>1
  <2>3. text[e] = "\n" \/ text[e] = ";"
    BY <1>6, <1>7, <1>8, <2>1, <2>2
  <2>4. CASE text[e] = "\n"
    BY <1>7, <1>8, <2>1, <2>2, <2>4
  <2>5. CASE text[e] = ";"
    BY <1>6, <1>7, <1>8, <2>1, <2>2, <2>5
  <2> QED
    BY <2>1, <2>2, <2>3, <2>4, <2>5
<1>10. e # Eof /\ e < b /\ e \in From(s + 1) /\ s # Eof
  BY <1>2, <1>3, <1>9
<1>11. /\ s < e /\ e < Eof /\ e <= Len(text) /\ e \in Nat \ {0} /\ e # Whole!Eof
       /\ Whole!text[e] = text[e]
  <2>1. s + 1 <= e /\ e < Eof /\ e \in 1 .. Len(text) /\ Whole!text[e] = text[e]
    BY <1>2, <1>10, PlacesOfWhole
  <2> QED
    BY <1>2, <1>5, <2>1, WholeTextIs
<1>12. Whole!LineStart(p) = s /\ Whole!LineEnd(s) = e
  BY <1>1, <1>2, <1>3, <1>10, LineStartWhole, LineEndWhole
<1>13. PICK wb : wb = Whole!BrokenAt(s) /\ e < wb /\ ~(wb < e)
  <2>1. CASE b # Eof
    <3>1. Whole!BrokenAt(s) = b
      BY <1>2, <1>4, <2>1, BrokenAtWhole
    <3> QED
      BY <1>5, <1>9, <1>10, <3>1
  <2>2. CASE b = Eof
    <3>1. s + 1 <= Eof
      BY <1>2, <1>5, <1>11
    <3>2. Whole!BrokenAt(s) \in Nat /\ Eof <= Whole!BrokenAt(s)
      BY <1>2, <1>4, <2>2, <3>1, BrokenAtLate
    <3> QED
      BY <1>2, <1>5, <1>11, <3>2
  <2> QED
    BY <2>1, <2>2
<1>14. Whole!LineBefore(s, e) = LineBefore(s, e)
  BY <1>2, <1>11, LineBeforeWhole
<1>15. EndOfLine(e) # Eof =>
         /\ Whole!EndOfLine(e) = EndOfLine(e) /\ Whole!EndOfLine(e) # Whole!Eof
         /\ EndOfLine(e) + 1 \in Nat \ {0} /\ EndOfLine(e) + 1 <= Eof
  <2> SUFFICES ASSUME Newline(e) # Eof
               PROVE  /\ Whole!Newline(e) = Newline(e) /\ Whole!Newline(e) # Whole!Eof
                      /\ Newline(e) + 1 \in Nat \ {0} /\ Newline(e) + 1 <= Eof
    BY DEF EndOfLine, Whole!EndOfLine
  <2>1. Newline(e) \in From(e)
    BY <1>11, WholeTextIs, NewlineIs
  <2>2. Newline(e) \in Nat /\ Newline(e) < Eof
    BY <1>11, <2>1, PlacesOfWhole
  <2>3. Whole!Newline(e) = Newline(e)
    BY <1>11, NewlineWhole
  <2> QED
    BY <1>2, <2>2, <2>3
<1>16. \A line, next : Whole!Line(line, next) = Line(line, next)
  BY DEF Line, Whole!Line
<1>17. Whole!ReadLine(p) =
         CASE wb < e                                    -> Whole!NoLine("exit1")
           [] e # Whole!Eof /\ e < wb /\ Whole!text[e] = "\n" ->
                Whole!Line(Whole!LineBefore(s, e), e + 1)
           [] e # Whole!Eof /\ e < wb /\ Whole!text[e] = ";"  ->
                IF Whole!EndOfLine(e) = Whole!Eof THEN Whole!NoLine("hangs")
                ELSE Whole!Line(Whole!LineBefore(s, e), Whole!EndOfLine(e) + 1)
           [] /\ s # Whole!Eof /\ e = Whole!Eof /\ wb = Whole!Eof
              /\ Whole!Odd(Whole!Quotes(s + 1, Len(Whole!text))) -> Whole!NoLine("exit1")
           [] OTHER -> Whole!NoLine("exhausted")
  BY <1>12, <1>13 DEF Whole!ReadLine
<1>18. e + 1 \in Nat \ {0} /\ e + 1 <= Eof
  BY <1>2, <1>11
<1>19. \A line, next : Line(line, next).next = next
  BY DEF Line
<1>20. CASE text[e] = "\n" /\ ReadLine(p) = Line(LineBefore(s, e), e + 1)
  <2>1. Whole!ReadLine(p) = Whole!Line(Whole!LineBefore(s, e), e + 1)
    BY <1>11, <1>13, <1>17, <1>20
  <2>2. Whole!ReadLine(p) = ReadLine(p)
    BY <1>14, <1>16, <1>20, <2>1
  <2>3. ReadLine(p).next = e + 1
    BY <1>19, <1>20, Zenon
  <2> QED
    BY <1>18, <2>2, <2>3
<1>21. CASE /\ text[e] = ";" /\ EndOfLine(e) # Eof
            /\ ReadLine(p) = Line(LineBefore(s, e), EndOfLine(e) + 1)
  <2>1. Whole!ReadLine(p) = Whole!Line(Whole!LineBefore(s, e), Whole!EndOfLine(e) + 1)
    BY <1>11, <1>13, <1>15, <1>17, <1>21
  <2>2. Whole!ReadLine(p) = ReadLine(p)
    BY <1>14, <1>15, <1>16, <1>21, <2>1
  <2>3. ReadLine(p).next = EndOfLine(e) + 1
    BY <1>19, <1>21, Zenon
  <2> QED
    BY <1>15, <1>21, <2>2, <2>3
<1> QED
  BY <1>9, <1>20, <1>21

----------------------------------------------------------------------------
(* The steps.                                                              *)

\* The reader is somewhere in the text, or has come to its end.
Within == writing \in Writings /\ pos \in Nat \ {0} /\ pos <= Eof

\* What does not depend on the text.
LEMMA SameMeanings ==
  /\ \A mark : Whole!Inside(mark) = Inside(mark)
  /\ \A f, setting, v : Whole!Set(f, setting, v) = Set(f, setting, v)
  /\ \A piece : Whole!Operand(piece) = Operand(piece)
  /\ \A op, args : Whole!Compiled(op, args) = Compiled(op, args)
  /\ \A line : Whole!Entries(line) = Entries(line)
  /\ \A s : Whole!Last(s) = Last(s) /\ Whole!Front(s) = Front(s)
  /\ \A name : Whole!NewFunction(name) = NewFunction(name)
  /\ \A j : Whole!Nested(j) = Nested(j)
  /\ Whole!FunctionLine = FunctionLine /\ Whole!Refused = Refused /\ Whole!NoInst = NoInst
  /\ Whole!Fn = Fn /\ Whole!Marks = Marks /\ Whole!Settings = Settings /\ Whole!Opcode = Opcode
<1>1. \A mark : Whole!Inside(mark) = Inside(mark)
  BY Zenon DEF Inside, Whole!Inside
<1>2. \A piece : Whole!AtoIOf(piece) = AtoIOf(piece)
  BY Zenon DEF AtoIOf, Whole!AtoIOf
<1>3. \A f, setting, v : Whole!Set(f, setting, v) = Set(f, setting, v)
  BY <1>2, ZenonT(30) DEF Set, Whole!Set
<1>4. \A piece : Whole!Operand(piece) = Operand(piece)
  BY <1>2, Zenon DEF Operand, Whole!Operand, MAKEK, Whole!MAKEK, RKASK, Whole!RKASK, ISK, Whole!ISK,
                     BITRK, Whole!BITRK
<1>5. \A op, args : Whole!Compiled(op, args) = Compiled(op, args)
  <2>1. \A op, a, b, c : Whole!ABC(op, a, b, c) = ABC(op, a, b, c)
    BY Zenon DEF ABC, Whole!ABC
  <2>2. \A op, a, bx : Whole!ABx(op, a, bx) = ABx(op, a, bx)
    BY <2>1, Zenon DEF ABx, Whole!ABx
  <2>3. \A op, sbx : Whole!AsBx(op, sbx) = AsBx(op, sbx)
    BY <2>2 DEF AsBx, Whole!AsBx, MAXARG_sBx, Whole!MAXARG_sBx
  <2>4. Whole!HasBx = HasBx /\ Whole!HasSBx = HasSBx
    BY Zenon DEF HasBx, Whole!HasBx, HasSBx, Whole!HasSBx
  <2> QED
    BY <2>1, <2>2, <2>3, <2>4 DEF Compiled, Whole!Compiled
<1>6. \A line : Whole!Entries(line) = Entries(line)
  <2>1. \A pieces : Whole!Join(pieces) = Join(pieces)
    BY JoinWhole
  <2>2. \A line : Whole!Says(line) = Says(line)
    BY Zenon DEF Says, Whole!Says, Null, Whole!Null, Refused, Whole!Refused
  <2>3. \A pieces : Whole!NumberIn(pieces) = NumberIn(pieces)
    BY <1>2, Zenon DEF NumberIn, Whole!NumberIn
  <2> QED
    BY <2>1, <2>2, <2>3, ZenonT(30)
    DEF Entries, Whole!Entries, Null, Whole!Null, Refused, Whole!Refused,
        Number, Whole!Number, Boolean, Whole!Boolean, String, Whole!String,
        Tag, Whole!Tag, Payload, Whole!Payload, TextLine, Whole!TextLine,
        NumberLine, Whole!NumberLine, BooleanLine, Whole!BooleanLine
<1>7. \A s : Whole!Last(s) = Last(s) /\ Whole!Front(s) = Front(s)
  BY Zenon DEF Last, Whole!Last, Front, Whole!Front
<1>8. /\ \A name : Whole!NewFunction(name) = NewFunction(name)
      /\ \A j : Whole!Nested(j) = Nested(j)
  BY Zenon DEF NewFunction, Whole!NewFunction, Unset, Whole!Unset, Nested, Whole!Nested
<1>9. Whole!FunctionLine = FunctionLine /\ Whole!Refused = Refused /\ Whole!NoInst = NoInst
  BY Zenon DEF FunctionLine, Whole!FunctionLine, Nested, Whole!Nested, Refused, Whole!Refused,
               NoInst, Whole!NoInst
<1>10. Whole!Fn = Fn
  BY <1>7, Zenon DEF Fn, Whole!Fn
<1>11. Whole!Marks = Marks /\ Whole!Settings = Settings /\ Whole!Opcode = Opcode
  BY Zenon DEF Marks, Whole!Marks, Settings, Whole!Settings, Opcode, Whole!Opcode,
               ArithOps, Whole!ArithOps, CompareOps, Whole!CompareOps
<1> QED
  BY <1>1, <1>3, <1>4, <1>5, <1>6, <1>7, <1>8, <1>9, <1>10, <1>11

LEMMA WithinNext ==
  ASSUME Within, writing' = writing, pos' \in Nat \ {0}, pos' <= Eof
  PROVE  Within'
BY DEF Within, Eof, text

\* A reading that is given up is, for the whole text, where it was.
LEMMA EndWhole ==
  ASSUME Within, status = "reading", NEW how, how # "done", End(how)
  PROVE  Within' /\ UNCHANGED Whole!vars
<1>1. UNCHANGED <<writing, pos, wanted, open, functions, inst>> /\ status' # "done"
  BY DEF End
<1>2. Within'
  BY <1>1, WithinNext DEF Within
<1> QED
  BY <1>1, <1>2 DEF Whole!vars

LEMMA GoOnWhole ==
  ASSUME Within, status = "reading", NEW p \in Nat \ {0}, p <= Eof, NEW what, NEW fs,
         GoOn(p, what, fs)
  PROVE  Within' /\ Whole!GoOn(p, what, fs)
<1>1. /\ pos' = p /\ wanted' = what /\ functions' = fs
      /\ UNCHANGED <<writing, open, inst, status>>
  BY DEF GoOn
<1> QED
  BY <1>1, WithinNext DEF Whole!GoOn

LEMMA ExpectWhole ==
  ASSUME Within, Expect
  PROVE  Within' /\ (Whole!Expect \/ UNCHANGED Whole!vars)
<1>1. PICK s : s = Solid(pos) /\ s \in From(pos) \cup {Eof}
  BY WholeTextIs, SolidIs DEF Within
<1>2. status = "reading" /\ wanted \in Marks
  BY DEF Expect, Reading
<1>3. CASE s # Eof /\ text[s] = wanted
  <2>1. GoOn(s + 1, Inside(wanted), functions)
    BY <1>1, <1>3 DEF Expect
  <2>2. /\ s \in Nat /\ s < Eof /\ Eof <= Whole!Eof /\ Eof \in Nat /\ Whole!Eof \in Nat
        /\ Whole!text[s] = text[s] /\ Whole!Solid(pos) = s
    BY <1>1, <1>3, PlacesOfWhole, SolidWhole DEF Within
  <2>3. s + 1 \in Nat \ {0} /\ s + 1 <= Eof /\ s # Whole!Eof
    BY <2>2
  <2>4. Within' /\ Whole!GoOn(s + 1, Inside(wanted), functions)
    BY <1>2, <2>1, <2>3, GoOnWhole
  <2>5. Whole!Reading(Whole!Marks)
    BY <1>2, SameMeanings DEF Whole!Reading
  <2>6. Whole!Expect
    BY <1>3, <2>2, <2>3, <2>4, <2>5, SameMeanings DEF Whole!Expect
  <2> QED
    BY <2>4, <2>6
<1>4. CASE ~(s # Eof /\ text[s] = wanted)
  <2>1. \E how \in {"hangs", "exit1"} : End(how)
    BY <1>1, <1>4 DEF Expect
  <2> QED
    BY <1>2, <2>1, EndWhole
<1> QED
  BY <1>3, <1>4

LEMMA ReadSettingWhole ==
  ASSUME Within, ReadSetting
  PROVE  Within' /\ (Whole!ReadSetting \/ UNCHANGED Whole!vars)
<1>1. PICK s, v :
        /\ status = "reading" /\ wanted = "setting"
        /\ s = ReadNext(pos) /\ v = ReadNext(s.next)
        /\ \/ \E how \in {s.how, v.how, "exit1"} : how # "reading" /\ End(how)
           \/ /\ s.how = "reading" /\ s.word = "<HEAD"
              /\ GoOn(s.next, ">CODE", functions)
           \/ /\ s.how = "reading" /\ s.word \in Settings /\ v.how = "reading"
              /\ GoOn(v.next, wanted, [functions EXCEPT ![Fn] = Set(@, s.word, v)])
  BY DEF ReadSetting, Reading
<1>2. s.how # "done" /\ v.how # "done"
  BY <1>1, ReadsAre
<1>3. s.how = "reading" => Whole!ReadNext(pos) = s /\ s.next \in Nat \ {0} /\ s.next <= Eof
  BY <1>1, ReadNextWhole DEF Within
<1>4. s.how = "reading" /\ v.how = "reading" =>
        Whole!ReadNext(s.next) = v /\ v.next \in Nat \ {0} /\ v.next <= Eof
  BY <1>1, <1>3, ReadNextWhole DEF Within
<1>5. Whole!Reading({"setting"})
  BY <1>1 DEF Whole!Reading
<1>6. CASE \E how \in {s.how, v.how, "exit1"} : how # "reading" /\ End(how)
  BY <1>1, <1>2, <1>6, EndWhole
<1>7. CASE /\ s.how = "reading" /\ s.word = "<HEAD"
           /\ GoOn(s.next, ">CODE", functions)
  <2>1. Within' /\ Whole!GoOn(s.next, ">CODE", functions)
    BY <1>1, <1>3, <1>7, GoOnWhole
  <2>2. "<HEAD" \notin Whole!Settings
    BY DEF Whole!Settings
  <2>3. Whole!ReadSetting
    BY <1>3, <1>5, <1>7, <2>1, <2>2 DEF Whole!ReadSetting
  <2> QED
    BY <2>1, <2>3
<1>8. CASE /\ s.how = "reading" /\ s.word \in Settings /\ v.how = "reading"
           /\ GoOn(v.next, wanted, [functions EXCEPT ![Fn] = Set(@, s.word, v)])
  <2>1. PICK fs : fs = [functions EXCEPT ![Fn] = Set(@, s.word, v)]
    OBVIOUS
  <2>2. Within' /\ Whole!GoOn(v.next, wanted, fs)
    BY <1>1, <1>4, <1>8, <2>1, GoOnWhole
  <2>3. fs = [functions EXCEPT ![Whole!Fn] = Whole!Set(@, s.word, v)]
    BY <2>1, SameMeanings
  <2>4. s.word # "<HEAD" /\ s.word \in Whole!Settings
    BY <1>8, SameMeanings DEF Settings
  <2>5. Whole!ReadSetting
    BY <1>3, <1>4, <1>5, <1>8, <2>2, <2>3, <2>4 DEF Whole!ReadSetting
  <2> QED
    BY <2>2, <2>5
<1> QED
  BY <1>1, <1>6, <1>7, <1>8

LEMMA ReadOpcodeWhole ==
  ASSUME Within, ReadOpcode
  PROVE  Within' /\ (Whole!ReadOpcode \/ UNCHANGED Whole!vars)
<1>1. PICK s, v :
        /\ status = "reading" /\ wanted = "instruction"
        /\ s = ReadNext(pos) /\ v = ReadNext(s.next)
        /\ \/ \E how \in {s.how, v.how, "exit1"} : how # "reading" /\ End(how)
           \/ /\ s.how = "reading" /\ s.word = "<CODE"
              /\ GoOn(s.next, ">CONST", functions)
           \/ /\ s.how = "reading" /\ s.word \in Opcode /\ v.how = "reading"
              /\ pos' = v.next /\ wanted' = "operand"
              /\ inst' = [op |-> s.word, args |-> <<>>, arg |-> v.first]
              /\ UNCHANGED <<writing, open, functions, status>>
  BY DEF ReadOpcode, Reading
<1>2. s.how # "done" /\ v.how # "done"
  BY <1>1, ReadsAre
<1>3. s.how = "reading" => Whole!ReadNext(pos) = s /\ s.next \in Nat \ {0} /\ s.next <= Eof
  BY <1>1, ReadNextWhole DEF Within
<1>4. s.how = "reading" /\ v.how = "reading" =>
        Whole!ReadNext(s.next) = v /\ v.next \in Nat \ {0} /\ v.next <= Eof
  BY <1>1, <1>3, ReadNextWhole DEF Within
<1>5. Whole!Reading({"instruction"})
  BY <1>1 DEF Whole!Reading
<1>6. CASE \E how \in {s.how, v.how, "exit1"} : how # "reading" /\ End(how)
  BY <1>1, <1>2, <1>6, EndWhole
<1>7. CASE /\ s.how = "reading" /\ s.word = "<CODE"
           /\ GoOn(s.next, ">CONST", functions)
  <2>1. Within' /\ Whole!GoOn(s.next, ">CONST", functions)
    BY <1>1, <1>3, <1>7, GoOnWhole
  <2>2. "<CODE" \notin Whole!Opcode
    BY DEF Whole!Opcode, Whole!ArithOps, Whole!CompareOps
  <2>3. Whole!ReadOpcode
    BY <1>3, <1>5, <1>7, <2>1, <2>2 DEF Whole!ReadOpcode
  <2> QED
    BY <2>1, <2>3
<1>8. CASE /\ s.how = "reading" /\ s.word \in Opcode /\ v.how = "reading"
           /\ pos' = v.next /\ wanted' = "operand"
           /\ inst' = [op |-> s.word, args |-> <<>>, arg |-> v.first]
           /\ UNCHANGED <<writing, open, functions, status>>
  <2>1. Within'
    BY <1>4, <1>8, WithinNext
  <2>2. s.word # "<CODE" /\ s.word \in Whole!Opcode
    BY <1>8, SameMeanings DEF Opcode, ArithOps, CompareOps
  <2>3. Whole!ReadOpcode
    BY <1>3, <1>4, <1>5, <1>8, <2>2 DEF Whole!ReadOpcode
  <2> QED
    BY <2>1, <2>3
<1> QED
  BY <1>1, <1>6, <1>7, <1>8

LEMMA PushWhole ==
  ASSUME Within, status = "reading", NEW args, NEW p \in Nat \ {0}, p <= Eof, Push(args, p)
  PROVE  Within' /\ Whole!Push(args, p)
<1>1. /\ pos' = p /\ wanted' = "instruction" /\ inst' = NoInst
      /\ functions' = [functions EXCEPT ![Fn].code = Append(@, Compiled(inst.op, args))]
      /\ UNCHANGED <<writing, open, status>>
  BY DEF Push
<1>2. Within'
  BY <1>1, WithinNext
<1>3. inst' = Whole!NoInst
      /\ functions' = [functions EXCEPT ![Whole!Fn].code = Append(@, Whole!Compiled(inst.op, args))]
  BY <1>1, SameMeanings
<1> QED
  BY <1>1, <1>2, <1>3 DEF Whole!Push

LEMMA ReadOperandWhole ==
  ASSUME Within, ReadOperand
  PROVE  Within' /\ (Whole!ReadOperand \/ UNCHANGED Whole!vars)
<1>1. PICK q, e, args : /\ q = OperandStart(pos) /\ q \in From(pos) \cup {Eof}
                        /\ e = OperandEnd(q) /\ e \in From(q) \cup {Eof}
                        /\ args = Append(inst.args, Operand(inst.arg))
  <2>1. OperandStart(pos) \in From(pos) \cup {Eof}
    BY WholeTextIs, OperandStartIs DEF Within
  <2>2. OperandStart(pos) \in Nat
    BY <2>1, WholeTextIs DEF Within, From, Eof
  <2>3. OperandEnd(OperandStart(pos)) \in From(OperandStart(pos)) \cup {Eof}
    BY <2>2, WholeTextIs, OperandEndIs DEF Within
  <2> QED
    BY <2>1, <2>3
<1>2. status = "reading" /\ wanted = "operand"
  BY DEF ReadOperand, Reading
<1>12. text[q] = "\n" => ~(e # Eof /\ text[e] = ";")
  <2>1. e # Eof => q \in Nat /\ e \in q .. Len(text)
    BY <1>1, WholeTextIs DEF Within, From, Eof
  <2>2. e # Eof /\ q \notin q .. e - 1 => e = q
    BY <2>1, WholeTextIs DEF Within
  <2> SUFFICES ASSUME text[q] = "\n", e # Eof, text[e] = ";"
               PROVE  FALSE
    OBVIOUS
  <2>3. \A r \in q .. e - 1 : ~(text[r] \in Space \cup {";"})
    BY <1>1, <2>1, WholeTextIs, OperandEndFirst DEF Within
  <2>4. q \notin q .. e - 1
    BY <2>3, Zenon DEF Space
  <2> QED
    BY <2>2, <2>4, Zenon
<1>3. \/ \E how \in {"exit1", "exhausted", "hangs"} : End(how)
      \/ /\ inst.arg \notin Malformed /\ e # Eof
         /\ \/ text[q] = "\n" /\ Push(args, q + 1)
            \/ /\ text[q] # "\n" /\ text[e] = ";" /\ EndOfLine(e) # Eof
               /\ Push(args, EndOfLine(e) + 1)
            \/ /\ text[q] # "\n" /\ text[e] # ";" /\ Len(args) = 3 /\ Push(args, e + 1)
            \/ /\ text[q] # "\n" /\ text[e] # ";" /\ Len(args) # 3
               /\ pos' = e + 1
               /\ inst' = [inst EXCEPT !.args = args, !.arg = text[q]]
               /\ UNCHANGED <<writing, wanted, open, functions, status>>
  <2> DEFINE malformed == inst.arg \in Malformed
             newline   == text[q] = "\n"
             comment   == text[e] = ";"
             next      == /\ pos' = e + 1
                          /\ inst' = [inst EXCEPT !.args = args, !.arg = text[q]]
                          /\ UNCHANGED <<writing, wanted, open, functions, status>>
  <2>1. (CASE malformed                             -> End("exit1")
          [] ~malformed /\ e = Eof              -> End("exhausted")
          [] ~malformed /\ e # Eof /\ newline -> Push(args, q + 1)
          [] ~malformed /\ e # Eof /\ comment ->
               IF EndOfLine(e) = Eof THEN End("hangs") ELSE Push(args, EndOfLine(e) + 1)
          [] OTHER -> IF Len(args) = 3 THEN Push(args, e + 1) ELSE next)
    BY <1>1, Zenon DEF ReadOperand
  <2>2. /\ malformed \in BOOLEAN /\ newline \in BOOLEAN /\ comment \in BOOLEAN
    OBVIOUS
  <2>3. newline => ~(e # Eof /\ comment)
    BY <1>12, Zenon
  <2> HIDE DEF malformed, newline, comment, next
  <2>4. \/ \E how \in {"exit1", "exhausted", "hangs"} : End(how)
        \/ /\ ~malformed /\ e # Eof
           /\ \/ newline /\ Push(args, q + 1)
              \/ ~newline /\ comment /\ EndOfLine(e) # Eof /\ Push(args, EndOfLine(e) + 1)
              \/ ~newline /\ ~comment /\ Len(args) = 3 /\ Push(args, e + 1)
              \/ ~newline /\ ~comment /\ Len(args) # 3 /\ next
    BY <2>1, <2>2, <2>3
  <2> QED
    BY <2>4, Zenon DEF malformed, newline, comment, next
<1>4. CASE \E how \in {"exit1", "exhausted", "hangs"} : End(how)
  BY <1>2, <1>4, EndWhole
<1>5. ASSUME inst.arg \notin Malformed, e # Eof
      PROVE  /\ Whole!OperandStart(pos) = q /\ Whole!OperandEnd(q) = e /\ e # Whole!Eof
             /\ Whole!text[q] = text[q] /\ Whole!text[e] = text[e]
             /\ q + 1 \in Nat \ {0} /\ q + 1 <= Eof /\ e + 1 \in Nat \ {0} /\ e + 1 <= Eof
             /\ EndOfLine(e) # Eof =>
                  /\ Whole!EndOfLine(e) = EndOfLine(e) /\ EndOfLine(e) # Whole!Eof
                  /\ EndOfLine(e) + 1 \in Nat \ {0} /\ EndOfLine(e) + 1 <= Eof
  <2>1. Eof \in Nat /\ From(Eof) = {}
    BY WholeTextIs DEF Within, From, Eof
  <2>2. q # Eof /\ q \in From(pos) /\ e \in From(q)
    BY <1>1, <1>5, <2>1
  <2>3. /\ q \in Nat \ {0} /\ q < Eof /\ Eof <= Whole!Eof /\ Whole!Eof \in Nat
        /\ Whole!text[q] = text[q]
    BY <2>2, PlacesOfWhole DEF Within
  <2>4. e \in Nat \ {0} /\ e < Eof /\ Whole!text[e] = text[e]
    BY <2>2, <2>3, PlacesOfWhole DEF Within
  <2>5. Whole!OperandStart(pos) = q /\ Whole!OperandEnd(q) = e
    BY <1>1, <1>5, <2>2, <2>3, OperandStartWhole, OperandEndWhole DEF Within
  <2>6. ASSUME EndOfLine(e) # Eof
        PROVE  /\ Whole!EndOfLine(e) = EndOfLine(e) /\ EndOfLine(e) # Whole!Eof
               /\ EndOfLine(e) + 1 \in Nat \ {0} /\ EndOfLine(e) + 1 <= Eof
    <3>1. Newline(e) # Eof /\ EndOfLine(e) = Newline(e) /\ Whole!EndOfLine(e) = Whole!Newline(e)
      BY <2>6 DEF EndOfLine, Whole!EndOfLine
    <3>2. Newline(e) \in From(e)
      BY <2>4, <3>1, WholeTextIs, NewlineIs DEF Within
    <3>3. Newline(e) \in Nat /\ Newline(e) < Eof
      BY <2>4, <3>2, PlacesOfWhole DEF Within
    <3>4. Whole!Newline(e) = Newline(e)
      BY <2>4, <3>1, NewlineWhole DEF Within
    <3> QED
      BY <2>1, <2>3, <3>1, <3>3, <3>4
  <2>7. /\ q + 1 \in Nat \ {0} /\ q + 1 <= Eof /\ e + 1 \in Nat \ {0} /\ e + 1 <= Eof
        /\ e # Whole!Eof
    BY <2>1, <2>3, <2>4
  <2> QED
    BY <2>3, <2>4, <2>5, <2>6, <2>7
<1>6. Whole!Reading({"operand"}) /\ args = Append(inst.args, Whole!Operand(inst.arg))
  BY <1>1, <1>2, SameMeanings DEF Whole!Reading
<1> DEFINE malformed == inst.arg \in Malformed
           newline   == Whole!text[q] = "\n"
           comment   == Whole!text[e] = ";"
           next      == /\ pos' = e + 1
                        /\ inst' = [inst EXCEPT !.args = args, !.arg = Whole!text[q]]
                        /\ UNCHANGED <<WholeOf(writing), wanted, open, functions,
                                       IF status = "done" THEN status ELSE "reading">>
           Body ==
             CASE malformed                                    -> Whole!End("exit1")
               [] ~malformed /\ e = Whole!Eof              -> Whole!End("exhausted")
               [] ~malformed /\ e # Whole!Eof /\ newline -> Whole!Push(args, q + 1)
               [] ~malformed /\ e # Whole!Eof /\ comment ->
                    IF Whole!EndOfLine(e) = Whole!Eof THEN Whole!End("hangs")
                    ELSE Whole!Push(args, Whole!EndOfLine(e) + 1)
               [] OTHER -> IF Len(args) = 3 THEN Whole!Push(args, e + 1) ELSE next
<1>7. ~malformed /\ e # Eof /\ Body => Whole!ReadOperand
  <2> SUFFICES ASSUME ~malformed, e # Eof, Body
               PROVE  Whole!ReadOperand
    OBVIOUS
  <2>1. q = Whole!OperandStart(pos) /\ e = Whole!OperandEnd(q)
    BY <1>5
  <2> QED
    BY <1>6, <2>1 DEF Whole!ReadOperand
<1>8. ASSUME inst.arg \notin Malformed, e # Eof
      PROVE  /\ ~malformed /\ (newline <=> text[q] = "\n") /\ (comment <=> text[e] = ";")
             /\ newline => ~comment
  <2>1. Whole!text[q] = text[q] /\ Whole!text[e] = text[e]
    BY <1>5, <1>8
  <2> QED
    BY <1>8, <1>12, <2>1, Zenon
<1>9. CASE inst.arg \notin Malformed /\ e # Eof /\ text[q] = "\n" /\ Push(args, q + 1)
  <2>1. Within' /\ Whole!Push(args, q + 1)
    BY <1>2, <1>5, <1>9, PushWhole
  <2>2. ~malformed /\ newline /\ ~comment /\ e # Whole!Eof
    BY <1>5, <1>8, <1>9, Zenon
  <2>3. Body
    <3> HIDE DEF malformed, newline, comment, next
    <3> QED
      BY <2>1, <2>2
  <2> QED
    BY <1>7, <1>9, <2>1, <2>2, <2>3
<1>10. CASE /\ inst.arg \notin Malformed /\ e # Eof
            /\ text[q] # "\n" /\ text[e] = ";" /\ EndOfLine(e) # Eof
            /\ Push(args, EndOfLine(e) + 1)
  <2>1. Within' /\ Whole!Push(args, EndOfLine(e) + 1)
    BY <1>2, <1>5, <1>10, PushWhole
  <2>2. ~malformed /\ ~newline /\ comment /\ e # Whole!Eof
    BY <1>5, <1>8, <1>10, Zenon
  <2>3. Whole!EndOfLine(e) = EndOfLine(e) /\ EndOfLine(e) # Whole!Eof
    BY <1>5, <1>10, Zenon
  <2>4. Body
    <3> HIDE DEF malformed, newline, comment, next
    <3> QED
      BY <2>1, <2>2, <2>3
  <2> QED
    BY <1>7, <1>10, <2>1, <2>2, <2>4
<1>11. CASE /\ inst.arg \notin Malformed /\ e # Eof
            /\ text[q] # "\n" /\ text[e] # ";"
            /\ \/ Len(args) = 3 /\ Push(args, e + 1)
               \/ /\ Len(args) # 3 /\ pos' = e + 1
                  /\ inst' = [inst EXCEPT !.args = args, !.arg = text[q]]
                  /\ UNCHANGED <<writing, wanted, open, functions, status>>
  <2>1. ~malformed /\ ~newline /\ ~comment /\ e # Whole!Eof
    BY <1>5, <1>8, <1>11, Zenon
  <2>2. CASE Len(args) = 3 /\ Push(args, e + 1)
    <3>1. Within' /\ Whole!Push(args, e + 1)
      BY <1>2, <1>5, <1>11, <2>2, PushWhole
    <3>2. Body
      <4> HIDE DEF malformed, newline, comment, next
      <4> QED
        BY <2>1, <2>2, <3>1
    <3> QED
      BY <1>7, <1>11, <2>1, <3>1, <3>2
  <2>3. CASE /\ Len(args) # 3 /\ pos' = e + 1
             /\ inst' = [inst EXCEPT !.args = args, !.arg = text[q]]
             /\ UNCHANGED <<writing, wanted, open, functions, status>>
    <3>1. Within'
      BY <1>5, <1>11, <2>3, WithinNext
    <3>2. next
      BY <1>5, <1>11, <2>3
    <3>3. Body
      <4> HIDE DEF malformed, newline, comment, next
      <4> QED
        BY <2>1, <2>3, <3>2
    <3> QED
      BY <1>7, <1>11, <2>1, <3>1, <3>3
  <2> QED
    BY <1>11, <2>2, <2>3
<1> HIDE DEF Body
<1> QED
  BY <1>3, <1>4, <1>9, <1>10, <1>11

LEMMA ReadConstantWhole ==
  ASSUME Within, ReadConstant
  PROVE  Within' /\ (Whole!ReadConstant \/ UNCHANGED Whole!vars)
<1>1. PICK s :
        /\ status = "reading" /\ wanted = "constant" /\ s = ReadLine(pos)
        /\ \/ \E how \in {s.how, "exit1"} : how # "reading" /\ End(how)
           \/ s.how = "reading" /\ s.line = <<"<CONST">> /\ EndConstants(s.next)
           \/ /\ s.how = "reading" /\ s.line # <<"<CONST">> /\ s.line # <<>> /\ s.line[1] = ";"
              /\ GoOn(s.next, wanted, functions)
           \/ /\ s.how = "reading" /\ s.line # <<"<CONST">> /\ ~(s.line # <<>> /\ s.line[1] = ";")
              /\ \E entry \in Entries(s.line) : entry # Refused /\ ReadEntry(entry, s.next)
  <2>1. PICK s : /\ status = "reading" /\ wanted = "constant" /\ s = ReadLine(pos)
                 /\ \/ s.how # "reading" /\ End(s.how)
                    \/ s.how = "reading" /\ s.line = <<"<CONST">> /\ EndConstants(s.next)
                    \/ /\ s.how = "reading" /\ s.line # <<"<CONST">> /\ s.line # <<>>
                       /\ s.line[1] = ";" /\ GoOn(s.next, wanted, functions)
                    \/ /\ s.how = "reading" /\ s.line # <<"<CONST">>
                       /\ ~(s.line # <<>> /\ s.line[1] = ";")
                       /\ \E entry \in Entries(s.line) : ReadEntry(entry, s.next)
    <3>1. PICK s : /\ status = "reading" /\ wanted = "constant" /\ s = ReadLine(pos)
                   /\ CASE s.how # "reading" -> End(s.how)
                        [] s.how = "reading" /\ s.line = <<"<CONST">> -> EndConstants(s.next)
                        [] s.how = "reading" /\ s.line # <<>> /\ s.line[1] = ";" ->
                             GoOn(s.next, wanted, functions)
                        [] OTHER -> \E entry \in Entries(s.line) : ReadEntry(entry, s.next)
      BY Zenon DEF ReadConstant, Reading
    <3> DEFINE comment == s.line # <<>> /\ s.line[1] = ";"
    <3>2. s.line = <<"<CONST">> => ~comment
      <4>1. s.line = <<"<CONST">> => s.line[1] = "<CONST"
        OBVIOUS
      <4> QED
        BY <4>1, Zenon
    <3>3. (CASE s.how # "reading" -> End(s.how)
            [] s.how = "reading" /\ s.line = <<"<CONST">> -> EndConstants(s.next)
            [] s.how = "reading" /\ comment -> GoOn(s.next, wanted, functions)
            [] OTHER -> \E entry \in Entries(s.line) : ReadEntry(entry, s.next))
      BY <3>1, Zenon
    <3> HIDE DEF comment
    <3>4. \/ s.how # "reading" /\ End(s.how)
          \/ s.how = "reading" /\ s.line = <<"<CONST">> /\ EndConstants(s.next)
          \/ /\ s.how = "reading" /\ s.line # <<"<CONST">> /\ comment
             /\ GoOn(s.next, wanted, functions)
          \/ /\ s.how = "reading" /\ s.line # <<"<CONST">> /\ ~comment
             /\ \E entry \in Entries(s.line) : ReadEntry(entry, s.next)
      BY <3>2, <3>3
    <3> QED
      BY <3>1, <3>4, Zenon DEF comment
  <2>2. \A next : ReadEntry(Refused, next) => End("exit1")
    BY DEF ReadEntry, FunctionLine, Nested, Refused
  <2> QED
    BY <2>1, <2>2
<1>2. s.how # "done"
  BY <1>1, ReadsAre
<1>3. s.how = "reading" => Whole!ReadLine(pos) = s /\ s.next \in Nat \ {0} /\ s.next <= Eof
  BY <1>1, ReadLineWhole DEF Within
<1>4. Whole!Reading({"constant"})
  BY <1>1 DEF Whole!Reading
<1>5. CASE \E how \in {s.how, "exit1"} : how # "reading" /\ End(how)
  BY <1>1, <1>2, <1>5, EndWhole
<1>6. CASE s.how = "reading" /\ s.line = <<"<CONST">> /\ EndConstants(s.next)
  <2>1. /\ pos' = s.next /\ open' = Front(open)
        /\ status' = IF Len(open) = 1 THEN "done" ELSE status
        /\ UNCHANGED <<writing, wanted, functions, inst>>
    BY <1>6 DEF EndConstants
  <2>2. Within'
    BY <1>3, <1>6, <2>1, WithinNext
  <2>3. Whole!EndConstants(s.next)
    BY <1>1, <2>1, SameMeanings DEF Whole!EndConstants
  <2>4. s.line[1] # ";"
    <3>1. s.line[1] = "<CONST"
      BY <1>6
    <3> QED
      BY <3>1, Zenon
  <2>5. Whole!ReadConstant
    BY <1>3, <1>4, <1>6, <2>3, <2>4, Zenon DEF Whole!ReadConstant
  <2> QED
    BY <2>2, <2>5
<1>7. CASE /\ s.how = "reading" /\ s.line # <<"<CONST">> /\ s.line # <<>> /\ s.line[1] = ";"
           /\ GoOn(s.next, wanted, functions)
  <2>1. Within' /\ Whole!GoOn(s.next, wanted, functions)
    BY <1>1, <1>3, <1>7, GoOnWhole
  <2>2. Whole!ReadConstant
    BY <1>3, <1>4, <1>7, <2>1 DEF Whole!ReadConstant
  <2> QED
    BY <2>1, <2>2
<1>8. ASSUME s.how = "reading", s.line # <<"<CONST">>, ~(s.line # <<>> /\ s.line[1] = ";"),
             NEW entry \in Entries(s.line), entry # Refused, ReadEntry(entry, s.next)
      PROVE  Within' /\ Whole!ReadConstant
  <2>1. Within' /\ Whole!ReadEntry(entry, s.next)
    <3>1. CASE entry = FunctionLine
      <4>1. /\ pos' = s.next /\ wanted' = ">HEAD" /\ open' = Append(open, Len(functions) + 1)
            /\ functions' = Append([functions EXCEPT
                                      ![Fn].consts = Append(@, Nested(Len(functions) + 1))],
                                   NewFunction(""))
            /\ UNCHANGED <<writing, inst, status>>
        BY <1>8, <3>1 DEF ReadEntry, ReadNested, FunctionLine, Nested, Refused
      <4>2. Within'
        BY <1>3, <1>8, <4>1, WithinNext
      <4>3. Whole!ReadNested(s.next)
        BY <4>1, SameMeanings DEF Whole!ReadNested
      <4>4. Whole!ReadEntry(entry, s.next)
        BY <1>8, <3>1, <4>3, SameMeanings DEF Whole!ReadEntry
      <4> QED
        BY <4>2, <4>4
    <3>2. CASE entry # FunctionLine
      <4>1. PICK fs : /\ fs = [functions EXCEPT ![Fn].consts = Append(@, entry)]
                      /\ GoOn(s.next, wanted, fs)
        BY <1>8, <3>2 DEF ReadEntry
      <4>2. Within' /\ Whole!GoOn(s.next, wanted, fs)
        BY <1>1, <1>3, <1>8, <4>1, GoOnWhole
      <4>3. Whole!ReadEntry(entry, s.next)
        BY <1>8, <3>2, <4>1, <4>2, SameMeanings DEF Whole!ReadEntry
      <4> QED
        BY <4>2, <4>3
    <3> QED
      BY <3>1, <3>2
  <2>2. entry \in Whole!Entries(s.line)
    BY SameMeanings
  <2>3. Whole!ReadConstant
    BY <1>3, <1>4, <1>8, <2>1, <2>2 DEF Whole!ReadConstant
  <2> QED
    BY <2>1, <2>3
<1> QED
  BY <1>1, <1>5, <1>6, <1>7, <1>8

LEMMA InitWhole == Init => Within /\ Whole!Init
<1> SUFFICES ASSUME Init
             PROVE  Within /\ Whole!Init
  OBVIOUS
<1>1. /\ writing \in Writings /\ pos = 1 /\ wanted = ">HEAD" /\ open = <<1>>
      /\ functions = <<NewFunction("main")>> /\ inst = NoInst /\ status = "reading"
  BY DEF Init
<1>2. Within
  BY <1>1, WholeTextIs DEF Within, Eof
<1>3. WholeOf(writing) \in WholeWritings
  BY <1>1 DEF WholeWritings
<1> QED
  BY <1>1, <1>2, <1>3, SameMeanings DEF Whole!Init

LEMMA NextWhole == Within /\ [Next]_vars => Within' /\ [Whole!Next]_(Whole!vars)
<1> SUFFICES ASSUME Within, [Next]_vars
             PROVE  Within' /\ [Whole!Next]_(Whole!vars)
  OBVIOUS
<1>1. CASE UNCHANGED vars
  <2>1. UNCHANGED <<writing, pos, wanted, open, functions, inst, status>>
    BY <1>1 DEF vars
  <2> QED
    BY <2>1, WithinNext DEF Within, Whole!vars
<1>2. CASE Step
  <2>1. Within' /\ (Whole!Step \/ UNCHANGED Whole!vars)
    BY <1>2, ExpectWhole, ReadSettingWhole, ReadOpcodeWhole, ReadOperandWhole, ReadConstantWhole
       DEF Step, Whole!Step
  <2> QED
    BY <2>1 DEF Whole!Next
<1> QED
  BY <1>1, <1>2 DEF Next, Ended

\* The reading of a text that ends early, step by step and until it is given up,
\* is a reading of the whole text it was cut from: read_char, read_next, read_line
\* and read_args decide on nothing they have not read.
THEOREM CutsAreReadAsWhole == Spec => CutIsReadAsWhole
<1>1. Within /\ [Next]_vars => Within'
  BY NextWhole
<1>2. Within /\ [Next]_vars => [Whole!Next]_(Whole!vars)
  BY NextWhole
<1> QED
  BY <1>1, <1>2, InitWhole, PTL DEF Spec, Safe, CutIsReadAsWhole, Whole!Safe

\* If the readings of a whole text are done only at its end, those of a text that
\* was cut from it are never done: what no file of functions may lose and still be
\* taken for a program is any of its characters.
THEOREM CutsAreNeverRead == (Whole!Safe => []Whole!ReadToItsEnd) => (Spec => []CutIsNeverRead)
<1>1. Within /\ [Next]_vars => Within'
  BY NextWhole
<1>2. Within /\ Whole!ReadToItsEnd => CutIsNeverRead
  <2> SUFFICES ASSUME Within, Whole!ReadToItsEnd, writing.kind = "cut", status = "done"
               PROVE  FALSE
    BY DEF CutIsNeverRead
  <2>1. pos = Whole!Eof
    BY DEF Whole!ReadToItsEnd, WholeOf
  <2>2. Len(text) < Len(Whole!text) /\ Len(text) \in Nat /\ Len(Whole!text) \in Nat
    BY WholeTextIs DEF Within
  <2> QED
    BY <2>1, <2>2 DEF Within, Eof, Whole!Eof
<1>3. Init => Within
  BY InitWhole
<1> QED
  BY <1>1, <1>2, <1>3, CutsAreReadAsWhole, PTL DEF Spec, Safe, CutIsReadAsWhole
=============================================================================
