--------------------------- MODULE AssemblyProofs --------------------------
(***************************************************************************)
(* A theorem about the loader of Assembly, for every file: whatever the    *)
(* writer left of a program, none is built of items the file does not have.*)
(***************************************************************************)
EXTENDS Assembly, TLAPS, SequenceTheorems

\* A program is built only of what the file has.  LoadFunction compares an item
\* with EOF after it has used it, and the reader makes up the bytes past the end;
\* what saves the program is that the last int of a function would be negative.
NothingIsMadeUp == phase \in {"building", "ready"} => pos - 1 <= Len(file)

\* Nothing is loaded before bijou runs.
NotYet == {"start", "compiling", "dumping", "compiled", "failed"}

Before == phase \in NotYet => stack = <<>> /\ protos = <<>>

\* The protos the loader is in are protos it has begun.
ProtosOK ==
  /\ protos \in Seq(Range(protos))
  /\ \A j \in DOMAIN protos :
       /\ DOMAIN protos[j] = {"got", "k", "sizep", "children"}
       /\ protos[j].got \in Seq(Range(protos[j].got))
       /\ protos[j].children \in Seq(Nat)
  /\ stack \in Seq(1 .. Len(protos))
  /\ pos \in Nat

\* The number of its children is the last thing that is read of a function.
ChildrenLast ==
  \A j \in DOMAIN protos :
    protos[j].sizep # Unset =>
      Len(protos[j].got) = Len(Fields) /\ ~(Len(protos[j].k) < protos[j].got[11])

\* Once it is read, the loader has not gone past the end: an int that is missing
\* is negative and refuses the file.
NotPastEnd ==
  phase = "loading" /\ stack # <<>> /\ Cur.sizep # Unset => pos - 1 <= Len(file)

Inv == Before /\ ProtosOK /\ ChildrenLast /\ NotPastEnd /\ NothingIsMadeUp

----------------------------------------------------------------------------
(* Sequences.                                                              *)

LEMMA LastOf ==
  ASSUME NEW S, NEW s \in Seq(S), s # <<>>
  PROVE  /\ Len(s) \in 1 .. Len(s) /\ Last(s) = s[Len(s)] /\ Last(s) \in S
         /\ Front(s) \in Seq(S)
<1>1. Len(s) \in Nat \ {0}
  BY EmptySeq
<1>2. Last(s) = s[Len(s)] /\ Last(s) \in S
  BY <1>1, ElementOfSeq DEF Last
<1>3. Front(s) \in Seq(S)
  BY <1>1 DEF Front
<1> QED
  BY <1>1, <1>2, <1>3

\* One element of a sequence becomes another.
LEMMA Replaced ==
  ASSUME NEW s, s \in Seq(Range(s)), NEW i \in DOMAIN s, NEW e
  PROVE  LET q == [s EXCEPT ![i] = e]
         IN  /\ q \in Seq(Range(q)) /\ DOMAIN q = DOMAIN s /\ Len(q) = Len(s)
             /\ q[i] = e
             /\ \A j \in DOMAIN s : j # i => q[j] = s[j]
<1> DEFINE T == Range(s) \cup {e}
           q == [s EXCEPT ![i] = e]
<1>1. s \in Seq(T) /\ DOMAIN s = 1 .. Len(s) /\ Len(s) \in Nat
  BY LenProperties
<1>2. q \in Seq(T) /\ Len(q) = Len(s)
  BY <1>1, ExceptSeq
<1>3. q \in Seq(Range(q))
  BY <1>2, SeqOfRange
<1> QED
  BY <1>2, <1>3

\* A sequence grows by one element.
LEMMA Grown ==
  ASSUME NEW s, s \in Seq(Range(s)), NEW e
  PROVE  LET q == Append(s, e)
         IN  /\ q \in Seq(Range(q)) /\ Len(q) = Len(s) + 1 /\ Len(s) \in Nat
             /\ DOMAIN s = 1 .. Len(s) /\ DOMAIN q = 1 .. Len(s) + 1
             /\ q[Len(s) + 1] = e
             /\ \A j \in DOMAIN s : q[j] = s[j]
<1> DEFINE T == Range(s) \cup {e}
           q == Append(s, e)
<1>1. s \in Seq(T) /\ DOMAIN s = 1 .. Len(s) /\ Len(s) \in Nat
  BY LenProperties
<1>2. /\ q \in Seq(T) /\ Len(q) = Len(s) + 1 /\ q[Len(s) + 1] = e
      /\ \A j \in 1 .. Len(s) : q[j] = s[j]
  BY <1>1, AppendProperties
<1>3. q \in Seq(Range(q)) /\ DOMAIN q = 1 .. Len(q)
  BY <1>2, SeqOfRange, LenProperties
<1> QED
  BY <1>1, <1>2, <1>3

----------------------------------------------------------------------------
(* What is read of the function on top.                                    *)

LEMMA TakeStep ==
  ASSUME Inv, phase = "loading", stack # <<>>, NEW p, NEW n \in Nat, Take(p, n),
         DOMAIN p = {"got", "k", "sizep", "children"},
         p.got \in Seq(Range(p.got)), p.children = Cur.children,
         p.sizep # Unset => /\ Len(p.got) = Len(Fields) /\ ~(Len(p.k) < p.got[11])
                            /\ pos + n - 1 <= Len(file)
  PROVE  Inv'
<1>1. /\ protos' = [protos EXCEPT ![Last(stack)] = p]
      /\ pos' = pos + n /\ stack' = stack /\ phase' = phase /\ file' = file
  BY DEF Take
<1>2. Last(stack) \in 1 .. Len(protos) /\ 1 .. Len(protos) = DOMAIN protos
  BY LastOf, LenProperties DEF Inv, ProtosOK
<1>3. /\ protos' \in Seq(Range(protos')) /\ DOMAIN protos' = DOMAIN protos
      /\ Len(protos') = Len(protos) /\ protos'[Last(stack)] = p
      /\ \A j \in DOMAIN protos : j # Last(stack) => protos'[j] = protos[j]
  BY <1>1, <1>2, Replaced DEF Inv, ProtosOK
<1>4. ProtosOK'
  BY <1>1, <1>2, <1>3 DEF Inv, ProtosOK, Cur
<1>5. ChildrenLast'
  BY <1>1, <1>3 DEF Inv, ChildrenLast
<1>6. NotPastEnd'
  <2>1. Cur' = p
    BY <1>1, <1>3 DEF Cur
  <2>2. pos' - 1 = pos + n - 1 /\ Len(file') = Len(file)
    <3>1. pos \in Nat
      BY DEF Inv, ProtosOK
    <3> QED
      BY <1>1, <3>1
  <2>3. p.sizep # Unset => pos + n - 1 <= Len(file)
    OBVIOUS
  <2> QED
    BY <2>1, <2>2, <2>3 DEF NotPastEnd
<1>7. Before' /\ NothingIsMadeUp'
  BY <1>1 DEF Before, NotYet, NothingIsMadeUp
<1> QED
  BY <1>4, <1>5, <1>6, <1>7 DEF Inv

\* The process ends, or goes on in the file as it is.
LEMMA EndStep ==
  ASSUME Inv, NEW how, End(how), how \notin {"building", "ready"},
         how \in NotYet => phase \in NotYet,
         how = "loading" => phase \in NotYet
  PROVE  Inv'
<1>1. /\ protos' = protos /\ pos' = pos /\ stack' = stack /\ file' = file
      /\ phase' = how
  BY DEF End, loading
<1> QED
  BY <1>1 DEF Inv, Before, ProtosOK, ChildrenLast, NotPastEnd, NothingIsMadeUp, Cur

----------------------------------------------------------------------------
(* The steps.                                                              *)

\* What bijouc does, whatever becomes of the file.
LEMMA WriterStep ==
  ASSUME Inv, UNCHANGED loading, phase \in NotYet, phase' \in NotYet
  PROVE  Inv'
<1>1. protos' = protos /\ pos' = pos /\ stack' = stack /\ stack = <<>>
  BY DEF loading, Inv, Before
<1> QED
  BY <1>1 DEF Inv, Before, NotYet, ProtosOK, ChildrenLast, NotPastEnd, NothingIsMadeUp

\* What the loader wants says what it has read of the function on top.
LEMMA WhatIsWanted ==
  ASSUME Inv
  PROVE  /\ stack # <<>> => Last(stack) \in DOMAIN protos
         /\ Wanted \in Range(Fields) => stack # <<>> /\ Len(Cur.got) < Len(Fields)
         /\ Wanted = "constant" =>
              stack # <<>> /\ Len(Cur.got) = Len(Fields) /\ Len(Cur.k) < SizeK
         /\ Wanted = "children" =>
              stack # <<>> /\ Len(Cur.got) = Len(Fields) /\ Len(Cur.k) = SizeK
         /\ Wanted = "nothing" => stack # <<>>
<1> DEFINE F == {"string", "int", "char", "words"}
<1>1. Len(Fields) = 11 /\ \A x \in 1 .. 11 : Fields[x] \in F
  BY DEF Fields
<1>2. Range(Fields) \subseteq F
  BY <1>1 DEF Range, Fields
<1>3. stack # <<>> => Last(stack) \in DOMAIN protos
  BY LastOf, LenProperties DEF Inv, ProtosOK
<1>4. stack # <<>> => Len(Cur.got) \in Nat
  BY <1>3, LenProperties DEF Inv, ProtosOK, Cur
<1>5. CASE stack = <<>>
  <2>1. Wanted = "header"
    BY <1>5 DEF Wanted
  <2> QED
    BY <1>2, <2>1, <1>5
<1>6. CASE stack # <<>> /\ Len(Cur.got) < Len(Fields)
  <2>1. Wanted = Fields[Len(Cur.got) + 1]
    BY <1>6 DEF Wanted
  <2>2. Len(Cur.got) + 1 \in 1 .. 11
    BY <1>1, <1>4, <1>6
  <2> QED
    BY <1>1, <1>3, <1>6, <2>1, <2>2
<1>7. CASE stack # <<>> /\ ~(Len(Cur.got) < Len(Fields))
  <2>1. Wanted \notin F
    BY <1>7 DEF Wanted
  <2> QED
    BY <1>2, <1>3, <1>7, <2>1 DEF Wanted
<1> QED
  BY <1>5, <1>6, <1>7

\* What is missing of an int is negative.
LEMMA AnIntIsThere ==
  ASSUME Inv, NEW n \in Item(pos, "int"), ~(n < 0)
  PROVE  pos + 1 - 1 <= Len(file)
<1>1. CASE pos <= Len(file)
  BY <1>1 DEF Inv, ProtosOK
<1>2. CASE ~(pos <= Len(file))
  <2>1. PastEnd("int") = {-1}
    BY DEF PastEnd
  <2> QED
    BY <1>2, <2>1 DEF Item
<1> QED
  BY <1>1, <1>2

\* One field, or one constant, more.
LEMMA FieldStep ==
  ASSUME Inv, phase = "loading", stack # <<>>, Cur.sizep = Unset, NEW v,
         NEW n \in Nat,
         \/ Take([Cur EXCEPT !.got = Append(@, v)], n)
         \/ Take([Cur EXCEPT !.k = Append(@, v)], n)
  PROVE  Inv'
<1>1. Last(stack) \in DOMAIN protos
  BY WhatIsWanted
<1>2. /\ DOMAIN Cur = {"got", "k", "sizep", "children"}
      /\ Cur.got \in Seq(Range(Cur.got))
  BY <1>1 DEF Inv, ProtosOK, Cur
<1>3. CASE Take([Cur EXCEPT !.got = Append(@, v)], n)
  <2> DEFINE p == [Cur EXCEPT !.got = Append(@, v)]
  <2>1. /\ DOMAIN p = {"got", "k", "sizep", "children"}
        /\ p.got = Append(Cur.got, v) /\ p.children = Cur.children
        /\ p.sizep = Unset
    BY <1>2
  <2>2. p.got \in Seq(Range(p.got))
    BY <1>2, <2>1, Grown
  <2> HIDE DEF p
  <2> QED
    BY <1>3, <2>1, <2>2, TakeStep DEF p
<1>4. CASE Take([Cur EXCEPT !.k = Append(@, v)], n)
  <2> DEFINE p == [Cur EXCEPT !.k = Append(@, v)]
  <2>1. /\ DOMAIN p = {"got", "k", "sizep", "children"}
        /\ p.got = Cur.got /\ p.children = Cur.children
        /\ p.sizep = Unset
    BY <1>2
  <2> HIDE DEF p
  <2> QED
    BY <1>2, <1>4, <2>1, TakeStep DEF p
<1> QED
  BY <1>3, <1>4

\* A function is not read past the count of its children.
LEMMA NotYetCounted ==
  ASSUME Inv, stack # <<>>, Len(Cur.got) < Len(Fields) \/ Len(Cur.k) < SizeK
  PROVE  Cur.sizep = Unset
<1>1. Last(stack) \in DOMAIN protos
  BY WhatIsWanted
<1>2. Len(Fields) = 11
  BY DEF Fields
<1> QED
  BY <1>1, <1>2 DEF Inv, ChildrenLast, Cur, SizeK

LEMMA HeaderStep ==
  ASSUME Inv, LoadHeader
  PROVE  Inv'
<1>1. phase = "loading"
  BY DEF LoadHeader, Loading
<1>2. CASE End("refused")
  BY <1>2, EndStep DEF NotYet
<1>3. CASE /\ stack' = <<1>> /\ protos' = <<NewProto>> /\ pos' = pos + 1
           /\ UNCHANGED <<given, phase, compiling, file, loaded>>
  <2>1. /\ NewProto.got = <<>> /\ NewProto.children = <<>>
        /\ NewProto.sizep = Unset
        /\ DOMAIN NewProto = {"got", "k", "sizep", "children"}
    BY DEF NewProto
  <2>2. /\ protos' \in Seq(Range(protos')) /\ DOMAIN protos' = {1}
        /\ Len(protos') = 1 /\ protos'[1] = NewProto
    <3> DEFINE q == <<NewProto>>
    <3>1. /\ q \in Seq({NewProto}) /\ Len(q) = 1 /\ q[1] = NewProto
          /\ DOMAIN q = 1 .. 1
      OBVIOUS
    <3>2. q \in Seq(Range(q))
      BY <3>1, SeqOfRange
    <3>3. DOMAIN q = {1}
      BY <3>1
    <3> HIDE DEF q
    <3>4. protos' = q
      BY <1>3 DEF q
    <3> QED
      BY <3>1, <3>2, <3>3, <3>4
  <2>3. NewProto.got \in Seq(Range(NewProto.got))
    BY <2>1, EmptySeq
  <2>4. ProtosOK'
    <3>1. stack' \in Seq(1 .. Len(protos'))
      <4>1. 1 .. Len(protos') = {1}
        BY <2>2
      <4> QED
        BY <1>3, <4>1
    <3>2. pos' \in Nat
      BY <1>3 DEF Inv, ProtosOK
    <3>3. NewProto.children \in Seq(Nat)
      BY <2>1, EmptySeq
    <3> QED
      BY <2>1, <2>2, <2>3, <3>1, <3>2, <3>3 DEF ProtosOK
  <2>5. Last(stack') = 1
    BY <1>3 DEF Last
  <2>6. ChildrenLast' /\ NotPastEnd'
    BY <2>1, <2>2, <2>5 DEF ChildrenLast, NotPastEnd, Cur
  <2> QED
    BY <1>1, <1>3, <2>4, <2>6 DEF Inv, Before, NotYet, NothingIsMadeUp
<1> QED
  BY <1>2, <1>3 DEF LoadHeader

LEMMA LoadFieldStep ==
  ASSUME Inv, LoadField
  PROVE  Inv'
<1>1. phase = "loading" /\ Wanted \in Range(Fields)
  BY DEF LoadField, Loading
<1>2. stack # <<>> /\ Cur.sizep = Unset
  BY <1>1, WhatIsWanted, NotYetCounted
<1>3. PICK v : \/ End("refused") \/ End("crashed")
               \/ Take([Cur EXCEPT !.got = Append(@, v)], 1)
  BY DEF LoadField
<1>4. CASE End("refused") \/ End("crashed")
  BY <1>4, EndStep DEF NotYet
<1>5. CASE Take([Cur EXCEPT !.got = Append(@, v)], 1)
  BY <1>1, <1>2, <1>5, FieldStep
<1> QED
  BY <1>3, <1>4, <1>5

LEMMA LoadConstantStep ==
  ASSUME Inv, LoadConstant
  PROVE  Inv'
<1>1. phase = "loading" /\ Wanted = "constant"
  BY DEF LoadConstant, Loading
<1>2. stack # <<>> /\ Cur.sizep = Unset
  BY <1>1, WhatIsWanted, NotYetCounted
<1>3. \/ End("refused") \/ End("crashed")
      \/ \E v, n : n \in Nat /\ Take([Cur EXCEPT !.k = Append(@, v)], n)
  <2>1. PICK type \in Item(pos, "char") :
          CASE type \in {0, 4} -> TakeConst(Null, 1)
            [] type = 1 -> \E n \in Item(pos + 1, "number") : TakeConst(Number(n), 2)
            [] type = 2 -> \E c \in Item(pos + 1, "char") : TakeConst(Boolean(c # 0), 2)
            [] type = 3 -> \E s \in Item(pos + 1, "string") :
                             IF s = BadEscape THEN End("crashed") ELSE TakeConst(String(s), 2)
            [] OTHER -> End("refused")
    BY DEF LoadConstant
  <2>2. CASE type \in {0, 4}
    BY <2>1, <2>2 DEF TakeConst
  <2>3. CASE type = 1
    <3>1. \E n \in Item(pos + 1, "number") : TakeConst(Number(n), 2)
      BY <2>1, <2>3
    <3> QED
      BY <3>1 DEF TakeConst
  <2>4. CASE type = 2
    <3>1. \E c \in Item(pos + 1, "char") : TakeConst(Boolean(c # 0), 2)
      BY <2>1, <2>4
    <3> QED
      BY <3>1 DEF TakeConst
  <2>5. CASE type = 3
    <3>1. \E s \in Item(pos + 1, "string") :
            IF s = BadEscape THEN End("crashed") ELSE TakeConst(String(s), 2)
      BY <2>1, <2>5
    <3> QED
      BY <3>1 DEF TakeConst
  <2>6. CASE type \notin {0, 4} /\ type # 1 /\ type # 2 /\ type # 3
    BY <2>1, <2>6
  <2> QED
    BY <2>2, <2>3, <2>4, <2>5, <2>6
<1>4. CASE End("refused") \/ End("crashed")
  BY <1>4, EndStep DEF NotYet
<1>5. CASE \E v, n : n \in Nat /\ Take([Cur EXCEPT !.k = Append(@, v)], n)
  BY <1>1, <1>2, <1>5, FieldStep
<1> QED
  BY <1>3, <1>4, <1>5

LEMMA LoadNumChildrenStep ==
  ASSUME Inv, LoadNumChildren
  PROVE  Inv'
<1>1. phase = "loading" /\ Wanted = "children"
  BY DEF LoadNumChildren, Loading
<1>2. /\ stack # <<>> /\ Last(stack) \in DOMAIN protos
      /\ Len(Cur.got) = Len(Fields) /\ Len(Cur.k) = SizeK
  BY <1>1, WhatIsWanted
<1>3. PICK n \in Item(pos, "int") :
        IF n < 0 THEN End("refused") ELSE Take([Cur EXCEPT !.sizep = n], 1)
  BY DEF LoadNumChildren
<1>4. CASE n < 0
  BY <1>3, <1>4, EndStep DEF NotYet
<1>5. CASE ~(n < 0)
  <2> DEFINE p == [Cur EXCEPT !.sizep = n]
  <2>1. Take(p, 1)
    BY <1>3, <1>5
  <2>2. pos + 1 - 1 <= Len(file)
    BY <1>5, AnIntIsThere
  <2>3. /\ DOMAIN Cur = {"got", "k", "sizep", "children"}
        /\ Cur.got \in Seq(Range(Cur.got))
    BY <1>2 DEF Inv, ProtosOK, Cur
  <2>4. /\ DOMAIN p = {"got", "k", "sizep", "children"}
        /\ p.got = Cur.got /\ p.k = Cur.k /\ p.children = Cur.children
    BY <2>3
  <2>5. Len(p.got) = Len(Fields) /\ ~(Len(p.k) < p.got[11])
    <3>1. Len(p.k) = p.got[11]
      BY <1>2, <2>4 DEF SizeK
    <3>2. p.got[11] \notin Nat \/ ~(p.got[11] < p.got[11])
      OBVIOUS
    <3> QED
      BY <1>2, <2>4, <3>1, <3>2
  <2> HIDE DEF p
  <2> QED
    BY <1>1, <1>2, <2>1, <2>2, <2>3, <2>4, <2>5, TakeStep
<1> QED
  BY <1>4, <1>5

\* The next child begins.
LEMMA LoadChildStep ==
  ASSUME Inv, LoadChild
  PROVE  Inv'
<1>1. phase = "loading" /\ Wanted = "nothing"
  BY DEF LoadChild, Loading
<1>2. stack # <<>> /\ Last(stack) \in DOMAIN protos
  BY <1>1, WhatIsWanted
<1> DEFINE p == [protos[Last(stack)] EXCEPT !.children = Append(@, Len(protos) + 1)]
           r == [protos EXCEPT ![Last(stack)] = p]
<1>3. /\ protos' = Append(r, NewProto) /\ stack' = Append(stack, Len(protos) + 1)
      /\ phase' = phase /\ file' = file /\ pos' = pos
  BY DEF LoadChild
<1>4. /\ r \in Seq(Range(r)) /\ DOMAIN r = DOMAIN protos /\ Len(r) = Len(protos)
      /\ r[Last(stack)] = p
      /\ \A j \in DOMAIN protos : j # Last(stack) => r[j] = protos[j]
  <2> HIDE DEF p
  <2> QED
    BY <1>2, Replaced DEF Inv, ProtosOK
<1>5. Len(protos) \in Nat /\ DOMAIN protos = 1 .. Len(protos)
  BY LenProperties DEF Inv, ProtosOK
<1>6. LET old == protos[Last(stack)]
      IN  /\ DOMAIN p = {"got", "k", "sizep", "children"}
          /\ p.got = old.got /\ p.k = old.k /\ p.sizep = old.sizep
          /\ p.children = Append(old.children, Len(protos) + 1)
  BY <1>2 DEF Inv, ProtosOK
<1>7. p.children \in Seq(Nat)
  BY <1>2, <1>5, <1>6, AppendProperties DEF Inv, ProtosOK
<1> HIDE DEF p, r
<1>8. /\ protos' \in Seq(Range(protos')) /\ Len(protos') = Len(protos) + 1
      /\ DOMAIN protos' = 1 .. Len(protos) + 1
      /\ protos'[Len(protos) + 1] = NewProto
      /\ \A j \in DOMAIN protos : protos'[j] = r[j]
  BY <1>3, <1>4, <1>5, Grown
<1>9. /\ NewProto.got = <<>> /\ NewProto.children = <<>>
      /\ NewProto.sizep = Unset
      /\ DOMAIN NewProto = {"got", "k", "sizep", "children"}
  BY DEF NewProto
<1>10. /\ stack' \in Seq(1 .. Len(protos')) /\ stack' # <<>>
       /\ Last(stack') = Len(protos) + 1
  <2>1. stack \in Seq(1 .. Len(protos) + 1)
    <3>1. 1 .. Len(protos) \subseteq 1 .. Len(protos) + 1
      BY <1>5
    <3> QED
      BY <3>1 DEF Inv, ProtosOK
  <2>2. Len(protos) + 1 \in 1 .. Len(protos) + 1
    BY <1>5
  <2>3. /\ stack' \in Seq(1 .. Len(protos) + 1) /\ stack' # <<>>
        /\ Len(stack') = Len(stack) + 1 /\ stack'[Len(stack) + 1] = Len(protos) + 1
    BY <1>3, <2>1, <2>2, AppendProperties
  <2> QED
    BY <1>8, <2>3 DEF Last
<1>11. ProtosOK'
  <2>1. ASSUME NEW j \in DOMAIN protos'
        PROVE  /\ DOMAIN protos'[j] = {"got", "k", "sizep", "children"}
               /\ protos'[j].got \in Seq(Range(protos'[j].got))
               /\ protos'[j].children \in Seq(Nat)
    <3>1. CASE j = Len(protos) + 1
      BY <1>8, <1>9, <3>1, EmptySeq
    <3>2. CASE j \in DOMAIN protos /\ j = Last(stack)
      BY <1>2, <1>4, <1>6, <1>7, <1>8, <3>2 DEF Inv, ProtosOK
    <3>3. CASE j \in DOMAIN protos /\ j # Last(stack)
      BY <1>4, <1>8, <3>3 DEF Inv, ProtosOK
    <3> QED
      BY <1>5, <1>8, <3>1, <3>2, <3>3
  <2>2. pos' \in Nat
    BY <1>3 DEF Inv, ProtosOK
  <2> QED
    BY <1>8, <1>10, <2>1, <2>2 DEF ProtosOK
<1>12. ChildrenLast'
  <2> SUFFICES ASSUME NEW j \in DOMAIN protos', protos'[j].sizep # Unset
               PROVE  /\ Len(protos'[j].got) = Len(Fields)
                      /\ ~(Len(protos'[j].k) < protos'[j].got[11])
    BY DEF ChildrenLast
  <2>1. CASE j = Len(protos) + 1
    BY <1>8, <1>9, <2>1
  <2>2. CASE j \in DOMAIN protos /\ j = Last(stack)
    BY <1>2, <1>4, <1>6, <1>8, <2>2 DEF Inv, ChildrenLast
  <2>3. CASE j \in DOMAIN protos /\ j # Last(stack)
    BY <1>4, <1>8, <2>3 DEF Inv, ChildrenLast
  <2> QED
    BY <1>5, <1>8, <2>1, <2>2, <2>3
<1>13. NotPastEnd'
  BY <1>8, <1>9, <1>10 DEF NotPastEnd, Cur
<1> QED
  BY <1>1, <1>3, <1>11, <1>12, <1>13 DEF Inv, Before, NotYet, NothingIsMadeUp

\* A function is complete, and its parent goes on.
LEMMA LoadReturnStep ==
  ASSUME Inv, LoadReturn
  PROVE  Inv'
<1>1. phase = "loading" /\ Wanted = "nothing"
  BY DEF LoadReturn, Loading
<1>2. stack # <<>> /\ Last(stack) \in DOMAIN protos
  BY <1>1, WhatIsWanted
<1>3. /\ stack' = Front(stack) /\ phase' \in {"building", "loading"}
      /\ protos' = protos /\ pos' = pos /\ file' = file
  BY <1>1 DEF LoadReturn
<1>4. Cur.sizep # Unset
  <2>1. Len(Cur.children) \in Nat /\ Cur.sizep = Len(Cur.children)
    BY <1>2, LenProperties DEF LoadReturn, Inv, ProtosOK, Cur
  <2> QED
    BY <2>1 DEF Unset
<1>5. pos - 1 <= Len(file)
  BY <1>1, <1>2, <1>4 DEF Inv, NotPastEnd
<1>6. stack' \in Seq(1 .. Len(protos))
  BY <1>2, <1>3, LastOf DEF Inv, ProtosOK
<1> QED
  BY <1>3, <1>5, <1>6
     DEF Inv, Before, NotYet, ProtosOK, ChildrenLast, NotPastEnd, NothingIsMadeUp

LEMMA BuildStep ==
  ASSUME Inv, Build
  PROVE  Inv'
<1>1. phase = "building"
  BY DEF Build
<1>2. CASE End("crashed")
  BY <1>2, EndStep DEF NotYet
<1>3. CASE /\ phase' \in {"ready", phase}
           /\ UNCHANGED <<given, compiling, file, pos, stack, protos>>
  BY <1>1, <1>3
     DEF Inv, Before, NotYet, ProtosOK, ChildrenLast, NotPastEnd, NothingIsMadeUp
<1>4. \/ End("crashed")
      \/ /\ phase' \in {"ready", phase}
         /\ UNCHANGED <<given, compiling, file, pos, stack, protos>>
  BY DEF Build
<1> QED
  BY <1>2, <1>3, <1>4

----------------------------------------------------------------------------
(* The theorem.                                                            *)

LEMMA InvInit == Init => Inv
<1> SUFFICES ASSUME Init PROVE Inv
  OBVIOUS
<1>1. protos = <<>> /\ stack = <<>> /\ pos = 1 /\ phase = "start"
  BY DEF Init
<1>2. protos \in Seq(Range(protos)) /\ stack \in Seq(1 .. Len(protos))
  BY <1>1, EmptySeq
<1> QED
  BY <1>1, <1>2
     DEF Inv, Before, NotYet, ProtosOK, ChildrenLast, NotPastEnd, NothingIsMadeUp

LEMMA InvNext == Inv /\ [Next]_vars => Inv'
<1> SUFFICES ASSUME Inv, [Next]_vars PROVE Inv'
  OBVIOUS
<1>1. CASE Start
  BY <1>1, WriterStep DEF Start, NotYet
<1>2. CASE CompileConst
  BY <1>2, WriterStep DEF CompileConst, ReadingConsts, NotYet
<1>3. CASE RefuseConst
  BY <1>3, EndStep DEF RefuseConst, ReadingConsts, NotYet
<1>4. CASE CompileNested
  BY <1>4, WriterStep DEF CompileNested, ReadingConsts, NotYet
<1>5. CASE EndNested
  <2>1. \/ End("wild") \/ End("crashed")
        \/ UNCHANGED <<given, phase, compiling, file, loading>>
        \/ UNCHANGED <<given, phase, file, loading>>
    BY <1>5 DEF EndNested
  <2>2. phase = "compiling"
    BY <1>5 DEF EndNested
  <2> QED
    BY <2>1, <2>2, EndStep, WriterStep DEF NotYet
<1>6. CASE EndMain
  BY <1>6, EndStep DEF EndMain, NotYet
<1>7. CASE Killed
  BY <1>7, EndStep DEF Killed, NotYet
<1>8. CASE Dump
  <2>1. phase = "dumping" /\ UNCHANGED loading /\ phase' \in {"compiled", "failed"}
    BY <1>8 DEF Dump
  <2> QED
    BY <2>1, WriterStep DEF NotYet
<1>9. CASE Run
  BY <1>9, EndStep DEF Run, NotYet
<1>10. CASE LoadHeader
  BY <1>10, HeaderStep
<1>11. CASE LoadField
  BY <1>11, LoadFieldStep
<1>12. CASE LoadConstant
  BY <1>12, LoadConstantStep
<1>13. CASE LoadNumChildren
  BY <1>13, LoadNumChildrenStep
<1>14. CASE LoadChild
  BY <1>14, LoadChildStep
<1>15. CASE LoadReturn
  BY <1>15, LoadReturnStep
<1>16. CASE Build
  BY <1>16, BuildStep
<1>17. CASE UNCHANGED vars
  BY <1>17
     DEF vars, loading, Inv, Before, NotYet, ProtosOK, ChildrenLast, NotPastEnd,
         NothingIsMadeUp, Cur
<1> QED
  BY <1>1, <1>2, <1>3, <1>4, <1>5, <1>6, <1>7, <1>8, <1>9, <1>10, <1>11, <1>12,
     <1>13, <1>14, <1>15, <1>16, <1>17 DEF Next, Step, Ended

\* No program is built of a byte its file does not have: wherever the writing of
\* the file stopped, LoadFunction of load.c refuses it or the process crashes.
THEOREM NoProgramIsMadeUp == Spec => []NothingIsMadeUp
<1>1. Inv => NothingIsMadeUp
  BY DEF Inv
<1> QED
  BY <1>1, InvInit, InvNext, PTL DEF Spec
=============================================================================
