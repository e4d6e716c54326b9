--------------------------- MODULE LibraryProofs ---------------------------
(***************************************************************************)
(* Theorems about Library, for any number of registers, buffers and        *)
(* streams, any texts, and any malloc: what memory the values of a program *)
(* keep, and that a program that keeps to the contracts of the libraries   *)
(* never makes them leave it.                                              *)
(*                                                                         *)
(* The twenty functions have five shapes: the process ends, a register     *)
(* gets a plain value, a string in a new buffer, a pointer to a new        *)
(* object, or loses one.                                                   *)
(***************************************************************************)
EXTENDS Library, TLAPS, SequenceTheorems

\* What a register may hold.
IsValue(v) ==
  /\ v.tt = "number" => v.n \in Int
  /\ v.tt = "string" => v.from \in {"malloc", "recv"} /\ v.ptr \in Buffers \cup {NULL}
  /\ v.tt = "pointer" => v.from \in {"stream", "info"} /\ v.ptr \in Addresses

\* What a text is made of.
Letter == {"x", "b"} \cup UNION {Range(t) : t \in Texts}

\* The text, with its NUL, lies in a buffer of a size that was asked for.
Fits(t) == \E size \in 0 .. MaxAsked : LiesIn(t, size)

\* A buffer holds a text that ends in it.
IsBuffer(b) ==
  /\ b.text \in Seq(Letter)
  /\ b = NoBuffer \/ (b.state \in {"used", "freed"} /\ Fits(b.text))

\* How the process ends.
Failures == {"exit1", "crashed", "wild", "spins"}

Typed ==
  /\ DOMAIN regs = Regs /\ DOMAIN heap = Buffers /\ DOMAIN objects = Addresses
  /\ \A r \in Regs : IsValue(regs[r])
  /\ \A p \in Buffers : IsBuffer(heap[p])
  /\ careful \in BOOLEAN

Inv == Typed /\ StringsStay /\ PointersKeepTheirStream /\ CarefulNeverWild

\* A value that is no address.
Plain(v) == v = NoString \/ v = Null \/ \E n \in Int : v = Number(n)

\* What a new string is made of: only recv returns memory it has freed.
Fresh(buffer, from) ==
  /\ from \in {"malloc", "recv"} /\ IsBuffer(buffer)
  /\ buffer = Buffer(buffer.state, buffer.text)
  /\ from # "recv" => buffer.state = "used"

\* A string in a new buffer: what AnswerText does with a text that lies in it.
Placed(a, buffer, from) ==
  /\ \E p \in Given({p \in Buffers : heap[p].state # "used"}) :
       Store(a, String(p, buffer.text, from), [heap EXCEPT ![p] = buffer], objects)
  /\ UNCHANGED <<opens, closed>>

Shape ==
  /\ careful' \in BOOLEAN /\ (careful' => careful)
  /\ \/ \E s \in Failures : Stop(s) /\ (s \in {"wild", "spins"} => ~careful')
     \/ \E a \in Regs : \E v : Answer(a, v) /\ Plain(v)
     \/ \E a \in Regs : \E buffer, from : Placed(a, buffer, from) /\ Fresh(buffer, from)
     \/ \E a \in Regs, kind \in {"stream", "info"} : Make(a, kind)
     \/ \E a \in Regs, file \in Held("pointer") :
          /\ fclose(a, file, Null) /\ closed' = closed \cup {file.n}
          /\ careful' => Opened(file, "stream")

LEMMA FieldsOf ==
  /\ Null.tt = "null" /\ NoString.tt = "string" /\ NoString.ptr = NULL
  /\ NoString.from = "malloc"
  /\ \A n : Number(n).tt = "number" /\ Number(n).n = n
  /\ \A p, kind, n : LET v == Pointer(p, kind, n)
                     IN  v.tt = "pointer" /\ v.ptr = p /\ v.from = kind /\ v.n = n
  /\ \A p, text, from : LET v == String(p, text, from)
       IN  v.tt = "string" /\ v.ptr = p /\ v.from = from /\ v.text = text
  /\ \A t : LET v == Constant(t)
            IN  v.tt = "string" /\ v.ptr = NULL /\ v.from = "constant" /\ v.text = t
BY DEF Null, NoString, Number, Pointer, String, Constant, Value

LEMMA ObjectsDiffer ==
  /\ NoObject.kind = "nothing"
  /\ \A k, n : Object(k, n).kind = k /\ Object(k, n).opening = n
  /\ NoBuffer.state = "unused" /\ NoBuffer.text = <<>>
  /\ \A s, t : LET b == Buffer(s, t) IN b.state = s /\ b.text = t
BY DEF NoObject, Object, NoBuffer, Buffer

\* What lies in a buffer that was asked for fits, and so does a text of the program.
LEMMA FitsIs ==
  /\ \A size \in 0 .. MaxAsked : Usable(size) \in Nat /\ size <= Usable(size)
  /\ \A t, size : size \in Nat /\ Asked(size) /\ LiesIn(t, size) => Fits(t)
  /\ \A t : Len(t) \in 0 .. MaxText => Fits(t)
<1>1. \A size \in 0 .. MaxAsked : Usable(size) \in Nat /\ size <= Usable(size)
  BY LibraryAssumption
<1>2. \A t, size : size \in Nat /\ Asked(size) /\ LiesIn(t, size) => Fits(t)
  BY LibraryAssumption DEF Fits, Asked, MaxAsked
<1>3. ASSUME NEW t, Len(t) \in 0 .. MaxText
      PROVE  Fits(t)
  <2>1. PICK u \in Texts : u # <<>> /\ u \in Seq(Range(u)) /\ Len(u) <= MaxText
    BY LibraryAssumption
  <2>2. Len(u) \in Nat /\ Len(u) # 0
    BY <2>1, EmptySeq, LenProperties
  <2>3. MaxText \in Nat /\ MaxAsked \in 0 .. MaxAsked /\ Len(t) < MaxAsked
    BY <1>3, <2>1, <2>2, LibraryAssumption DEF MaxAsked
  <2>4. Len(t) < Usable(MaxAsked)
    BY <1>1, <1>3, <2>3
  <2> QED
    BY <2>3, <2>4 DEF Fits, LiesIn
<1> QED
  BY <1>1, <1>2, <1>3

LEMMA NoBufferIs == IsBuffer(NoBuffer)
BY EmptySeq, ObjectsDiffer DEF IsBuffer

----------------------------------------------------------------------------
(* The shapes keep the invariant.                                          *)

LEMMA StopStep ==
  ASSUME Inv, NEW s \in Failures, Stop(s), careful' \in BOOLEAN,
         s \in {"wild", "spins"} => ~careful'
  PROVE  Inv'
<1>1. /\ regs' = [r \in Regs |-> Null] /\ heap' = [p \in Buffers |-> NoBuffer]
      /\ objects' = [p \in Addresses |-> NoObject] /\ status' = s
  BY DEF Stop
<1>2. \A r \in Regs : regs'[r].tt = "null"
  BY <1>1, FieldsOf
<1>3. Typed'
  <2>1. \A p \in Buffers : IsBuffer(heap'[p])
    BY <1>1, NoBufferIs
  <2> QED
    BY <1>1, <1>2, <2>1 DEF Typed, IsValue
<1>4. StringsStay' /\ PointersKeepTheirStream'
  BY <1>2 DEF StringsStay, PointersKeepTheirStream, Held
<1>5. CarefulNeverWild'
  BY <1>1 DEF CarefulNeverWild
<1> QED
  BY <1>3, <1>4, <1>5 DEF Inv

\* What a store leaves: the other registers, and all the memory they refer to.
LEMMA Stored ==
  ASSUME Inv, NEW a \in Regs, NEW v, NEW heap2, NEW objects2, Store(a, v, heap2, objects2)
  PROVE  /\ DOMAIN regs' = Regs /\ DOMAIN heap' = Buffers /\ DOMAIN objects' = Addresses
         /\ regs'[a] = v /\ status' = status
         /\ \A r \in Regs : r # a => regs'[r] = regs[r]
         /\ \A r \in Regs : regs'[r].ptr \in Buffers =>
              heap'[regs'[r].ptr] = heap2[regs'[r].ptr]
         /\ \A r \in Regs : regs'[r].ptr \in Addresses =>
              objects'[regs'[r].ptr] = objects2[regs'[r].ptr]
         /\ \A p \in Buffers : heap'[p] \in {heap2[p], NoBuffer}
<1> DEFINE held == {regs'[r].ptr : r \in Regs}
<1>1. /\ regs' = [regs EXCEPT ![a] = v] /\ status' = status
      /\ heap' = [p \in Buffers |-> IF p \in held THEN heap2[p] ELSE NoBuffer]
      /\ objects' = [p \in Addresses |-> IF p \in held THEN objects2[p] ELSE NoObject]
  BY DEF Store
<1>2. \A r \in Regs : regs'[r].ptr \in held
  OBVIOUS
<1>3. /\ DOMAIN regs' = Regs /\ regs'[a] = v
      /\ \A r \in Regs : r # a => regs'[r] = regs[r]
  BY <1>1 DEF Inv, Typed
<1> HIDE DEF held
<1>4. /\ DOMAIN heap' = Buffers /\ DOMAIN objects' = Addresses
      /\ \A p \in Buffers : heap'[p] \in {heap2[p], NoBuffer}
      /\ \A p \in Buffers : p \in held => heap'[p] = heap2[p]
      /\ \A p \in Addresses : p \in held => objects'[p] = objects2[p]
  BY <1>1
<1> QED
  BY <1>1, <1>2, <1>3, <1>4

\* The memory of a new string: nothing that is in use.
LEMMA GivenIsFree ==
  ASSUME NEW free, NEW p \in Given(free)
  PROVE  p \in free
<1> DEFINE held == {regs[r].ptr : r \in Regs}
<1>1. CASE free \subseteq held
  BY <1>1 DEF Given
<1>2. CASE ~(free \subseteq held)
  <2>1. (CHOOSE q \in free \ held : TRUE) \in free \ held
    BY <1>2
  <2>2. p \in (free \cap held) \cup {CHOOSE q \in free \ held : TRUE}
    BY <1>2 DEF Given
  <2> QED
    BY <2>1, <2>2
<1> QED
  BY <1>1, <1>2

\* The invariant, for the values of the registers one by one.
LEMMA InvByRegister ==
  ASSUME Inv
  PROVE  \A r \in Regs :
           /\ IsValue(regs[r])
           /\ regs[r].tt = "string" /\ regs[r].ptr # NULL /\ regs[r].from # "recv" =>
                heap[regs[r].ptr] = Buffer("used", regs[r].text)
           /\ regs[r].tt = "pointer" /\ careful /\ regs[r].n \notin closed =>
                objects[regs[r].ptr] = Object(regs[r].from, regs[r].n)
BY DEF Inv, Typed, StringsStay, PointersKeepTheirStream, Held

\* The invariant from what holds of each register after a step.
LEMMA InvFromRegisters ==
  ASSUME Inv, status' = status, careful' \in BOOLEAN, careful' => careful,
         DOMAIN regs' = Regs, DOMAIN heap' = Buffers, DOMAIN objects' = Addresses,
         \A p \in Buffers : IsBuffer(heap'[p]),
         \A r \in Regs :
           /\ IsValue(regs'[r])
           /\ regs'[r].tt = "string" /\ regs'[r].ptr # NULL /\ regs'[r].from # "recv" =>
                heap'[regs'[r].ptr] = Buffer("used", regs'[r].text)
           /\ regs'[r].tt = "pointer" /\ careful' /\ regs'[r].n \notin closed' =>
                objects'[regs'[r].ptr] = Object(regs'[r].from, regs'[r].n)
  PROVE  Inv'
<1>1. Typed'
  BY DEF Typed
<1>2. StringsStay'
  BY DEF StringsStay, Held
<1>3. PointersKeepTheirStream'
  BY DEF PointersKeepTheirStream, Held
<1>4. CarefulNeverWild'
  BY DEF Inv, CarefulNeverWild
<1> QED
  BY <1>1, <1>2, <1>3, <1>4 DEF Inv

\* What has not been touched is as it was.
LEMMA OthersStay ==
  ASSUME Inv, NEW a \in Regs, NEW v, NEW heap2, NEW objects2, Store(a, v, heap2, objects2),
         careful' => careful,
         NEW r \in Regs, r # a,
         regs[r].ptr \in Buffers /\ regs[r].tt = "string" /\ regs[r].from # "recv" =>
           heap2[regs[r].ptr] = heap[regs[r].ptr],
         careful' /\ regs[r].tt = "pointer" /\ regs[r].n \notin closed' =>
           regs[r].n \notin closed /\ objects2[regs[r].ptr] = objects[regs[r].ptr]
  PROVE  /\ IsValue(regs'[r])
         /\ regs'[r].tt = "string" /\ regs'[r].ptr # NULL /\ regs'[r].from # "recv" =>
              heap'[regs'[r].ptr] = Buffer("used", regs'[r].text)
         /\ regs'[r].tt = "pointer" /\ careful' /\ regs'[r].n \notin closed' =>
              objects'[regs'[r].ptr] = Object(regs'[r].from, regs'[r].n)
<1>1. regs'[r] = regs[r] /\ IsValue(regs[r])
  BY Stored, InvByRegister
<1>2. regs[r].ptr \in Buffers => heap'[regs[r].ptr] = heap2[regs[r].ptr]
  BY <1>1, Stored
<1>3. regs[r].ptr \in Addresses => objects'[regs[r].ptr] = objects2[regs[r].ptr]
  BY <1>1, Stored
<1>4. ASSUME regs[r].tt = "string", regs[r].ptr # NULL, regs[r].from # "recv"
      PROVE  heap'[regs[r].ptr] = Buffer("used", regs[r].text)
  <2>1. regs[r].ptr \in Buffers
    BY <1>1, <1>4 DEF IsValue
  <2>2. heap[regs[r].ptr] = Buffer("used", regs[r].text)
    BY <1>4, InvByRegister
  <2> QED
    BY <1>2, <1>4, <2>1, <2>2
<1>5. ASSUME regs[r].tt = "pointer", careful', regs[r].n \notin closed'
      PROVE  objects'[regs[r].ptr] = Object(regs[r].from, regs[r].n)
  <2>1. regs[r].ptr \in Addresses
    BY <1>1, <1>5 DEF IsValue
  <2>2. objects[regs[r].ptr] = Object(regs[r].from, regs[r].n)
    BY <1>5, InvByRegister
  <2> QED
    BY <1>3, <1>5, <2>1, <2>2
<1> QED
  BY <1>1, <1>4, <1>5

LEMMA AnswerStep ==
  ASSUME Inv, NEW a \in Regs, NEW v, Answer(a, v), Plain(v),
         careful' \in BOOLEAN, careful' => careful
  PROVE  Inv'
<1>1. Store(a, v, heap, objects) /\ closed' = closed
  BY DEF Answer
<1>2. /\ IsValue(v) /\ v.tt # "pointer"
      /\ v.tt = "string" => v.ptr = NULL
  BY FieldsOf DEF Plain, IsValue
<1>3. \A p \in Buffers : IsBuffer(heap'[p])
  <2>1. IsBuffer(NoBuffer)
    BY NoBufferIs
  <2> QED
    BY <1>1, <2>1, Stored DEF Inv, Typed
<1>4. regs'[a] = v
  BY <1>1, Stored
<1>5. ASSUME NEW r \in Regs
      PROVE  /\ IsValue(regs'[r])
             /\ regs'[r].tt = "string" /\ regs'[r].ptr # NULL /\ regs'[r].from # "recv" =>
                  heap'[regs'[r].ptr] = Buffer("used", regs'[r].text)
             /\ regs'[r].tt = "pointer" /\ careful' /\ regs'[r].n \notin closed' =>
                  objects'[regs'[r].ptr] = Object(regs'[r].from, regs'[r].n)
  <2>1. CASE r = a
    BY <1>2, <1>4, <2>1
  <2>2. CASE r # a
    BY <1>1, <2>2, OthersStay
  <2> QED
    BY <2>1, <2>2
<1> QED
  BY <1>1, <1>3, <1>5, Stored, InvFromRegisters

LEMMA PlacedStep ==
  ASSUME Inv, NEW a \in Regs, NEW buffer, NEW from, Placed(a, buffer, from),
         Fresh(buffer, from),
         careful' \in BOOLEAN, careful' => careful
  PROVE  Inv'
<1> DEFINE free == {p \in Buffers : heap[p].state # "used"}
<1>1. PICK p \in Given(free) :
        Store(a, String(p, buffer.text, from), [heap EXCEPT ![p] = buffer], objects)
  BY DEF Placed
<1>2. closed' = closed
  BY DEF Placed
<1>3. p \in free
  BY GivenIsFree
<1>4. p \in Buffers /\ heap[p].state # "used"
  BY <1>3
<1> HIDE DEF free
<1> DEFINE heap2 == [heap EXCEPT ![p] = buffer]
           v == String(p, buffer.text, from)
<1>5. heap2[p] = buffer /\ \A q \in Buffers : q # p => heap2[q] = heap[q]
  BY <1>4 DEF Inv, Typed
<1>6. Store(a, v, heap2, objects)
  BY <1>1
<1> HIDE DEF heap2
<1>7. /\ IsValue(v) /\ v.tt = "string" /\ v.ptr = p /\ v.from = from
      /\ v.text = buffer.text
  BY <1>4, FieldsOf DEF IsValue, Fresh
<1> HIDE DEF v
<1>8. \A q \in Buffers : IsBuffer(heap'[q])
  <2>1. IsBuffer(NoBuffer)
    BY NoBufferIs
  <2>2. \A q \in Buffers : IsBuffer(heap2[q])
    BY <1>5 DEF Inv, Typed, Fresh
  <2> QED
    BY <1>6, <2>1, <2>2, Stored
<1>9. regs'[a] = v
  BY <1>6, Stored
<1>10. ASSUME NEW r \in Regs
       PROVE  /\ IsValue(regs'[r])
              /\ regs'[r].tt = "string" /\ regs'[r].ptr # NULL /\ regs'[r].from # "recv" =>
                   heap'[regs'[r].ptr] = Buffer("used", regs'[r].text)
              /\ regs'[r].tt = "pointer" /\ careful' /\ regs'[r].n \notin closed' =>
                   objects'[regs'[r].ptr] = Object(regs'[r].from, regs'[r].n)
  <2>1. CASE r = a
    <3>1. heap'[p] = buffer
      BY <1>4, <1>5, <1>6, <1>7, <1>9, Stored
    <3>2. from # "recv" => buffer = Buffer("used", v.text)
      BY <1>7 DEF Fresh
    <3> QED
      BY <1>7, <1>9, <2>1, <3>1, <3>2
  <2>2. CASE r # a
    <3>1. regs[r].ptr \in Buffers /\ regs[r].tt = "string" /\ regs[r].from # "recv" =>
            heap2[regs[r].ptr] = heap[regs[r].ptr]
      <4> SUFFICES ASSUME regs[r].ptr \in Buffers, regs[r].tt = "string", regs[r].from # "recv"
                   PROVE  heap2[regs[r].ptr] = heap[regs[r].ptr]
        OBVIOUS
      <4>1. regs[r].ptr # NULL
        BY LibraryAssumption
      <4>2. heap[regs[r].ptr].state = "used"
        BY <4>1, InvByRegister, ObjectsDiffer
      <4> QED
        BY <1>4, <1>5, <4>2
    <3> QED
      BY <1>2, <1>6, <2>2, <3>1, OthersStay
  <2> QED
    BY <2>1, <2>2
<1> QED
  BY <1>6, <1>8, <1>10, Stored, InvFromRegisters

LEMMA MakeStep ==
  ASSUME Inv, NEW a \in Regs, NEW kind \in {"stream", "info"}, Make(a, kind),
         careful' \in BOOLEAN, careful' => careful
  PROVE  Inv'
<1> DEFINE free == {p \in Addresses : objects[p].kind = "nothing"}
<1>1. PICK p \in Given(free) :
        Store(a, Pointer(p, kind, opens'), heap, [objects EXCEPT ![p] = Object(kind, opens')])
  BY DEF Make
<1>2. closed' = closed
  BY DEF Make
<1>3. p \in free
  BY GivenIsFree
<1>4. p \in Addresses /\ objects[p].kind = "nothing"
  BY <1>3
<1> HIDE DEF free
<1> DEFINE objects2 == [objects EXCEPT ![p] = Object(kind, opens')]
           v == Pointer(p, kind, opens')
<1>5. /\ objects2[p] = Object(kind, opens')
      /\ \A q \in Addresses : q # p => objects2[q] = objects[q]
  BY <1>4 DEF Inv, Typed
<1>6. Store(a, v, heap, objects2)
  BY <1>1
<1> HIDE DEF objects2
<1>7. /\ IsValue(v) /\ v.tt = "pointer" /\ v.ptr = p /\ v.from = kind /\ v.n = opens'
  BY <1>4, FieldsOf DEF IsValue
<1> HIDE DEF v
<1>8. \A q \in Buffers : IsBuffer(heap'[q])
  <2>1. IsBuffer(NoBuffer)
    BY NoBufferIs
  <2> QED
    BY <1>6, <2>1, Stored DEF Inv, Typed
<1>9. regs'[a] = v
  BY <1>6, Stored
<1>10. ASSUME NEW r \in Regs
       PROVE  /\ IsValue(regs'[r])
              /\ regs'[r].tt = "string" /\ regs'[r].ptr # NULL /\ regs'[r].from # "recv" =>
                   heap'[regs'[r].ptr] = Buffer("used", regs'[r].text)
              /\ regs'[r].tt = "pointer" /\ careful' /\ regs'[r].n \notin closed' =>
                   objects'[regs'[r].ptr] = Object(regs'[r].from, regs'[r].n)
  <2>1. CASE r = a
    <3>1. objects'[p] = Object(kind, opens')
      BY <1>4, <1>5, <1>6, <1>7, <1>9, Stored
    <3> QED
      BY <1>7, <1>9, <2>1, <3>1
  <2>2. CASE r # a
    <3>1. careful' /\ regs[r].tt = "pointer" /\ regs[r].n \notin closed' =>
            regs[r].n \notin closed /\ objects2[regs[r].ptr] = objects[regs[r].ptr]
      <4> SUFFICES ASSUME careful', regs[r].tt = "pointer", regs[r].n \notin closed
                   PROVE  objects2[regs[r].ptr] = objects[regs[r].ptr]
        BY <1>2
      <4>1. regs[r].ptr \in Addresses /\ regs[r].from \in {"stream", "info"}
        BY InvByRegister DEF IsValue
      <4>2. objects[regs[r].ptr].kind = regs[r].from
        BY InvByRegister, ObjectsDiffer
      <4> QED
        BY <1>4, <1>5, <4>1, <4>2
    <3> QED
      BY <1>6, <2>2, <3>1, OthersStay
  <2> QED
    BY <2>1, <2>2
<1> QED
  BY <1>6, <1>8, <1>10, Stored, InvFromRegisters

LEMMA CloseStep ==
  ASSUME Inv, NEW a \in Regs, NEW file \in Held("pointer"), fclose(a, file, Null),
         closed' = closed \cup {file.n}, careful' => Opened(file, "stream"),
         careful' \in BOOLEAN, careful' => careful
  PROVE  Inv'
<1> DEFINE objects2 == [objects EXCEPT ![file.ptr] = NoObject]
<1>1. Store(a, Null, heap, objects2)
  BY DEF fclose
<1>2. \A q \in Addresses : q # file.ptr => objects2[q] = objects[q]
  BY DEF Inv, Typed
<1> HIDE DEF objects2
<1>3. \A q \in Buffers : IsBuffer(heap'[q])
  <2>1. IsBuffer(NoBuffer)
    BY NoBufferIs
  <2> QED
    BY <1>1, <2>1, Stored DEF Inv, Typed
<1>4. careful' => objects[file.ptr] = Object("stream", file.n)
  BY InvByRegister DEF Held, Opened
<1>5. ASSUME NEW r \in Regs
      PROVE  /\ IsValue(regs'[r])
             /\ regs'[r].tt = "string" /\ regs'[r].ptr # NULL /\ regs'[r].from # "recv" =>
                  heap'[regs'[r].ptr] = Buffer("used", regs'[r].text)
             /\ regs'[r].tt = "pointer" /\ careful' /\ regs'[r].n \notin closed' =>
                  objects'[regs'[r].ptr] = Object(regs'[r].from, regs'[r].n)
  <2>1. CASE r = a
    BY <1>1, <2>1, Stored, FieldsOf DEF IsValue
  <2>2. CASE r # a
    <3>1. careful' /\ regs[r].tt = "pointer" /\ regs[r].n \notin closed' =>
            regs[r].n \notin closed /\ objects2[regs[r].ptr] = objects[regs[r].ptr]
      <4> SUFFICES ASSUME careful', regs[r].tt = "pointer", regs[r].n \notin closed'
                   PROVE  regs[r].n \notin closed /\ objects2[regs[r].ptr] = objects[regs[r].ptr]
        OBVIOUS
      <4>1. regs[r].n \notin closed /\ regs[r].n # file.n
        OBVIOUS
      <4>2. regs[r].ptr \in Addresses
        BY InvByRegister DEF IsValue
      <4>3. objects[regs[r].ptr].opening = regs[r].n
        BY <4>1, InvByRegister, ObjectsDiffer
      <4>4. objects[file.ptr].opening = file.n
        BY <1>4, ObjectsDiffer
      <4> QED
        BY <1>2, <4>1, <4>2, <4>3, <4>4
    <3> QED
      BY <1>1, <2>2, <3>1, OthersStay
  <2> QED
    BY <2>1, <2>2
<1> QED
  BY <1>1, <1>3, <1>5, Stored, InvFromRegisters

LEMMA ShapeStep ==
  ASSUME Inv, Shape
  PROVE  Inv'
BY StopStep, AnswerStep, PlacedStep, MakeStep, CloseStep DEF Shape

----------------------------------------------------------------------------
(* Arguments.                                                              *)

LEMMA ArgumentIs ==
  ASSUME Inv, NEW v \in Arguments
  PROVE  /\ v.tt = "number" => v.n \in Int
         /\ v.tt = "pointer" => v \in Held("pointer") /\ v.ptr \in Addresses
         /\ v.tt = "string" => \/ v \in Held("string") /\ IsValue(v) /\ v.from # "constant"
                               \/ \E t \in Texts : v = Constant(t)
<1>1. CASE \E r \in Regs : v = regs[r]
  BY <1>1, InvByRegister DEF IsValue, Held
<1>2. CASE \E t \in Texts : v = Constant(t)
  BY <1>2, FieldsOf
<1>3. CASE \E n \in Numbers : v = Number(n)
  BY <1>3, FieldsOf, LibraryAssumption
<1>4. CASE v = Null
  BY <1>4, FieldsOf
<1> QED
  BY <1>1, <1>2, <1>3, <1>4 DEF Arguments

LEMMA ConstantText ==
  ASSUME NEW t \in Texts, NEW v, v = Constant(t)
  PROVE  /\ TextAt(v) = t /\ v.text = t /\ t \in Seq(Letter)
         /\ Memory(v).state = "used"
         /\ IsNULL(v) <=> t = <<>>
<1>1. v.from = "constant" /\ v.text = t /\ v.ptr = NULL
  BY FieldsOf
<1>2. Memory(v) = Buffer("used", t)
  BY <1>1 DEF Memory
<1>3. t \in Seq(Letter)
  <2>1. t \in Seq(Range(t)) /\ Range(t) \subseteq Letter
    BY LibraryAssumption DEF Letter
  <2> QED
    BY <2>1, SeqMonotonic
<1>4. Memory(v).text = t /\ Memory(v).state = "used"
  BY <1>2 DEF Buffer
<1> QED
  BY <1>1, <1>3, <1>4 DEF TextAt, IsNULL

\* The text of a string that a careful program may hand over.
LEMMA SoundText ==
  ASSUME Inv, NEW v \in Arguments, v.tt = "string", Sound(v)
  PROVE  Readable(v) /\ TextAt(v) = v.text /\ v.text \in Seq(Letter)
<1>1. CASE v \in Held("string") /\ IsValue(v) /\ v.from # "constant"
  <2>1. v.ptr # NULL /\ v.from # "recv"
    BY <1>1 DEF Sound, IsNULL
  <2>2. v.ptr \in Buffers
    BY <1>1, <2>1 DEF IsValue
  <2>3. heap[v.ptr] = Buffer("used", v.text)
    BY <1>1, <2>1 DEF Inv, StringsStay
  <2>4. Memory(v) = heap[v.ptr]
    BY <1>1 DEF Memory
  <2>5. /\ heap[v.ptr].state = "used" /\ heap[v.ptr].text = v.text
    BY <2>3, ObjectsDiffer
  <2>6. v.text \in Seq(Letter)
    BY <2>2, <2>5 DEF Inv, Typed, IsBuffer
  <2> QED
    BY <2>1, <2>4, <2>5, <2>6 DEF Readable, TextAt, Sound
<1>2. CASE \E t \in Texts : v = Constant(t)
  BY <1>2, ConstantText DEF Readable, Sound
<1> QED
  BY <1>1, <1>2, ArgumentIs

\* A string can be read by its length, unless it is recv's.
LEMMA NotRecvReadable ==
  ASSUME Inv, NEW v \in Arguments, v.tt = "string", v.from # "recv"
  PROVE  IsNULL(v) \/ Readable(v)
<1>1. CASE v \in Held("string") /\ IsValue(v) /\ v.from # "constant"
  <2>1. CASE v.ptr = NULL
    BY <1>1, <2>1 DEF IsNULL
  <2>2. CASE v.ptr # NULL
    BY <1>1, <2>2, ObjectsDiffer DEF Inv, StringsStay, Memory, Readable
  <2> QED
    BY <2>1, <2>2
<1>2. CASE \E t \in Texts : v = Constant(t)
  BY <1>2, ConstantText DEF Readable
<1> QED
  BY <1>1, <1>2, ArgumentIs

\* Memory holds a text.
LEMMA TextIsText ==
  ASSUME Inv, NEW v \in Arguments, v.tt = "string", Readable(v)
  PROVE  TextAt(v) \in Seq(Letter) /\ Len(TextAt(v)) \in Nat
<1>1. CASE v \in Held("string") /\ IsValue(v) /\ v.from # "constant"
  <2>1. v.ptr \in Buffers
    BY <1>1 DEF Readable, IsNULL, IsValue
  <2>2. Memory(v) = heap[v.ptr]
    BY <1>1 DEF Memory
  <2>3. TextAt(v) \in Seq(Letter)
    BY <2>1, <2>2 DEF TextAt, Inv, Typed, IsBuffer
  <2> QED
    BY <2>3, LenProperties
<1>2. CASE \E t \in Texts : v = Constant(t)
  BY <1>2, ConstantText, LenProperties
<1> QED
  BY <1>1, <1>2, ArgumentIs

\* A pointer a careful program has not closed is what it was opened as.
LEMMA OpenedIsThere ==
  ASSUME Inv, NEW v \in Arguments, v.tt = "pointer", careful, NEW kind, Opened(v, kind)
  PROVE  objects[v.ptr].kind = kind
BY ArgumentIs, ObjectsDiffer DEF Opened, Inv, PointersKeepTheirStream

LEMMA ALetter == "x" \in Letter /\ "b" \in Letter
BY DEF Letter

LEMMA ATextIs ==
  ASSUME NEW k \in Nat, NEW f \in [1 .. k -> Letter]
  PROVE  f \in Seq(Letter)
BY SeqDef

LEMMA UnendedIs ==
  ASSUME NEW content \in Seq(Letter), NEW text \in Unended(content)
  PROVE  /\ text \in Seq(Letter)
         /\ \E k \in Leftover : k \in Nat /\ Len(text) = Len(content) + k
         /\ Len(text) = Len(content) => text = content
<1> DEFINE Old(k) == [i \in 1 .. k |-> "x"]
<1>1. PICK k \in Leftover : text = content \o Old(k)
  BY DEF Unended
<1>2. k \in Nat
  BY LibraryAssumption
<1>3. Old(k) \in Seq(Letter) /\ Len(Old(k)) = k
  <2>1. Old(k) \in [1 .. k -> Letter]
    BY ALetter
  <2>2. Len(Old(k)) = k
    BY <1>2
  <2> HIDE DEF Old
  <2> QED
    BY <1>2, <2>1, <2>2, ATextIs
<1> HIDE DEF Old
<1>4. text \in Seq(Letter) /\ Len(text) = Len(content) + k /\ Len(content) \in Nat
  BY <1>1, <1>3, ConcatProperties, LenProperties
<1>5. ASSUME Len(text) = Len(content)
      PROVE  text = content
  <2>1. Old(k) = <<>>
    BY <1>2, <1>3, <1>4, <1>5, EmptySeq
  <2> QED
    BY <1>1, <2>1
<1> QED
  BY <1>2, <1>4, <1>5

\* What strncpy makes of a text: it lies in its buffer when it is shorter than was asked
\* for or the size is one that ends, and is the start of the text when it has that size.
LEMMA CopiesAre ==
  ASSUME NEW text \in Seq(Letter), NEW length \in Nat, Asked(length),
         NEW copy \in Copies(text, length)
  PROVE  /\ copy \in Seq(Letter)
         /\ Len(text) < length \/ Ends(length) => LiesIn(copy, length)
         /\ Len(copy) = length => length <= Len(text) /\ copy = SubSeq(text, 1, length)
<1>1. Len(text) \in Nat
  BY LenProperties
<1>2. length \in 0 .. MaxAsked /\ Usable(length) \in Nat /\ length <= Usable(length)
  BY FitsIs, LibraryAssumption DEF Asked, MaxAsked
<1>3. CASE Len(text) < length
  <2>1. copy = text
    BY <1>3 DEF Copies
  <2> QED
    BY <1>1, <1>2, <1>3, <2>1 DEF LiesIn
<1>4. CASE ~(Len(text) < length)
  <2> DEFINE start == SubSeq(text, 1, length)
  <2>1. start \in Seq(Letter) /\ Len(start) = length
    BY <1>1, <1>4
  <2>2. copy \in Unended(start)
    BY <1>4 DEF Copies
  <2> HIDE DEF start
  <2>3. PICK k \in Leftover : k \in Nat /\ Len(copy) = length + k
    BY <2>1, <2>2, UnendedIs
  <2>4. copy \in Seq(Letter) /\ (Len(copy) = length => copy = start)
    BY <2>1, <2>2, UnendedIs
  <2>5. Ends(length) => LiesIn(copy, length)
    BY <2>3 DEF Ends, LiesIn
  <2> QED
    BY <1>1, <1>4, <2>4, <2>5 DEF start
<1> QED
  BY <1>3, <1>4

\* What comes in is a text, of as many bytes at most as were asked for.
LEMMA IncomingIs ==
  ASSUME NEW size \in Nat, NEW content \in Incoming(size)
  PROVE  content \in Seq(Letter) /\ Len(content) <= size
<1>1. PICK k \in 0 .. Min({size, MaxFile}) : content = [i \in 1 .. k |-> "b"]
  BY DEF Incoming
<1>2. Min({size, MaxFile}) \in Nat /\ Min({size, MaxFile}) <= size
  <2>1. \E x \in {size, MaxFile} : \A y \in {size, MaxFile} : x <= y
    BY LibraryAssumption
  <2>2. /\ Min({size, MaxFile}) \in {size, MaxFile}
        /\ \A y \in {size, MaxFile} : Min({size, MaxFile}) <= y
    BY <2>1, Zenon DEF Min
  <2> QED
    BY <2>2, LibraryAssumption
<1>3. k \in Nat /\ k <= size
  BY <1>1, <1>2
<1>4. content \in [1 .. k -> Letter] /\ Len(content) = k
  BY <1>1, <1>3, ALetter
<1> QED
  BY <1>3, <1>4, ATextIs

----------------------------------------------------------------------------
(* The functions and their shapes.                                         *)

LEMMA StopShape ==
  ASSUME NEW s \in Failures, Stop(s), careful' \in BOOLEAN, careful' => careful,
         s \in {"wild", "spins"} => ~careful'
  PROVE  Shape
BY DEF Shape

LEMMA NumberShape ==
  ASSUME NEW a \in Regs, NEW n \in Int, Answer(a, Number(n)),
         careful' \in BOOLEAN, careful' => careful
  PROVE  Shape
BY DEF Shape, Plain

\* A text in a new buffer, or one that does not end there, which no careful call makes.
LEMMA TextShape ==
  ASSUME NEW a \in Regs, NEW text \in Seq(Letter), NEW size, NEW state \in {"used", "freed"},
         NEW from \in {"malloc", "recv"}, AnswerText(a, text, size, state, from),
         LiesIn(text, size) => Fits(text), from # "recv" => state = "used",
         careful' \in BOOLEAN, careful' => careful /\ LiesIn(text, size)
  PROVE  Shape
<1>1. CASE LiesIn(text, size)
  <2>1. PICK buffer : buffer = Buffer(state, text)
    OBVIOUS
  <2>2. buffer.state = state /\ buffer.text = text
    BY <2>1, ObjectsDiffer
  <2>3. Fresh(buffer, from)
    BY <1>1, <2>1, <2>2 DEF Fresh, IsBuffer
  <2>4. Placed(a, buffer, from)
    BY <1>1, <2>1, <2>2 DEF AnswerText, Placed
  <2> QED
    BY <2>3, <2>4 DEF Shape
<1>2. CASE ~LiesIn(text, size)
  BY <1>2, StopShape DEF AnswerText, Failures
<1> QED
  BY <1>1, <1>2

\* What is read, whatever is left behind it: into a size that ends it always lies.
LEMMA ReadShape ==
  ASSUME NEW a \in Regs, NEW size \in Nat, NEW state \in {"used", "freed"},
         NEW from \in {"malloc", "recv"}, ReadInto(a, size, state, from),
         from # "recv" => state = "used",
         careful' \in BOOLEAN, careful' => careful /\ Ends(size)
  PROVE  Shape
<1>1. PICK content \in Incoming(size) :
        \E text \in Unended(content) : AnswerText(a, text, size, state, from)
  BY DEF ReadInto
<1>2. PICK text \in Unended(content) : AnswerText(a, text, size, state, from)
  BY <1>1
<1>3. content \in Seq(Letter) /\ Len(content) \in Nat /\ Len(content) <= size
  BY IncomingIs, LenProperties
<1>4. text \in Seq(Letter)
  BY <1>3, UnendedIs
<1>5. PICK k \in Leftover : k \in Nat /\ Len(text) = Len(content) + k
  BY <1>3, UnendedIs
<1>6. Asked(size)
  BY DEF ReadInto
<1>7. Ends(size) => LiesIn(text, size)
  <2>1. Usable(size) \in Nat
    BY <1>6, FitsIs, LibraryAssumption DEF Asked, MaxAsked
  <2> QED
    BY <1>3, <1>5, <2>1 DEF Ends, LiesIn
<1>8. LiesIn(text, size) => Fits(text)
  BY <1>6, FitsIs
<1> QED
  BY <1>2, <1>4, <1>7, <1>8, TextShape

\* Where texts are missing, the program has not been careful.
LEMMA NoTextShape ==
  ASSUME Inv, NEW x \in Arguments, NEW y \in Arguments, x.tt = "string", y.tt = "string",
         ~(Readable(x) /\ Readable(y)), NEW s \in Failures, Stop(s),
         careful' \in BOOLEAN, careful' => careful /\ Sound(x) /\ Sound(y)
  PROVE  Shape
BY SoundText, StopShape DEF Failures

LEMMA StringCatShape ==
  ASSUME Inv, NEW a \in Regs, NEW x \in Arguments, NEW y \in Arguments, StringCat(a, x, y)
  PROVE  Shape
<1> DEFINE size == Len(x.text) + Len(y.text)
           text == TextAt(x) \o TextAt(y)
<1>1. /\ x.tt = "string" /\ y.tt = "string"
      /\ careful' = (careful /\ Sound(x) /\ Sound(y) /\ size + 1 <= Usable(size))
      /\ WithTexts({x, y}, BijouString_cat(a, x, y))
  BY DEF StringCat, Calling
<1>2. careful' \in BOOLEAN
  BY <1>1
<1>3. CASE Readable(x) /\ Readable(y)
  <2>1. Len(TextAt(x)) + Len(TextAt(y)) <= MaxText /\ AnswerText(a, text, size, "used", "malloc")
    BY <1>1, <1>3 DEF WithTexts, BijouString_cat
  <2>2. TextAt(x) \in Seq(Letter) /\ TextAt(y) \in Seq(Letter)
    BY <1>1, <1>3, TextIsText
  <2>3. /\ text \in Seq(Letter) /\ Len(text) = Len(TextAt(x)) + Len(TextAt(y))
        /\ Len(text) \in Nat
    BY <2>2, ConcatProperties, LenProperties
  <2>4. careful' => LiesIn(text, size)
    <3> SUFFICES ASSUME careful' PROVE LiesIn(text, size)
      OBVIOUS
    <3>1. TextAt(x) = x.text /\ TextAt(y) = y.text
      BY <1>1, SoundText
    <3>2. Len(text) = size
      BY <2>3, <3>1
    <3>3. size + 1 <= Usable(size)
      BY <1>1
    <3> HIDE DEF size, text
    <3>4. size \in 0 .. MaxAsked
      BY <2>1, <2>3, <3>2, LibraryAssumption DEF MaxAsked
    <3>5. Usable(size) \in Nat
      BY <3>4, FitsIs
    <3> QED
      BY <2>3, <3>2, <3>3, <3>5 DEF LiesIn
  <2> HIDE DEF text, size
  <2>5. Len(text) \in 0 .. MaxText
    BY <2>1, <2>3, LibraryAssumption
  <2>6. Fits(text)
    BY <2>5, FitsIs
  <2> QED
    BY <1>1, <1>2, <2>1, <2>3, <2>4, <2>6, TextShape
<1>4. CASE ~(Readable(x) /\ Readable(y))
  <2>1. \E s \in Failures : Stop(s)
    BY <1>1, <1>4 DEF WithTexts, Failures
  <2> QED
    BY <1>1, <1>2, <1>4, <2>1, NoTextShape
<1> QED
  BY <1>3, <1>4

\* BijouString_substr as its two callers use it.
LEMMA CopyShape ==
  ASSUME Inv, NEW a \in Regs, NEW v \in Arguments, v.tt = "string", NEW begin \in Int,
         NEW length \in Int, BijouString_substr(a, v, begin, length),
         careful' \in BOOLEAN,
         careful' => /\ careful /\ Sound(v) /\ begin \in 0 .. Len(v.text)
                     /\ length > Len(v.text) - begin \/ Ends(length)
  PROVE  Shape
<1>1. CASE length < 0
  BY <1>1, StopShape DEF BijouString_substr, Failures
<1>2. CASE ~(length < 0) /\ ~Readable(v)
  <2>1. \E s \in Failures : Stop(s)
    BY <1>2 DEF BijouString_substr, WithTexts, Failures
  <2> QED
    BY <1>2, <2>1, NoTextShape
<1>3. CASE ~(length < 0) /\ Readable(v) /\ begin \notin 0 .. Len(TextAt(v))
  <2>1. Stop("wild")
    BY <1>3 DEF BijouString_substr, WithTexts
  <2> QED
    BY <1>3, <2>1, SoundText, StopShape DEF Failures
<1>4. CASE ~(length < 0) /\ Readable(v) /\ begin \in 0 .. Len(TextAt(v))
  <2> DEFINE rest == From(TextAt(v), begin)
  <2>1. /\ Asked(length)
        /\ \E text \in Copies(rest, length) : AnswerText(a, text, length, "used", "malloc")
    BY <1>4 DEF BijouString_substr, WithTexts
  <2>2. PICK text \in Copies(rest, length) : AnswerText(a, text, length, "used", "malloc")
    BY <2>1
  <2>3. rest \in Seq(Letter) /\ Len(rest) = Len(TextAt(v)) - begin
    <3>1. TextAt(v) \in Seq(Letter) /\ Len(TextAt(v)) \in Nat
      BY <1>4, TextIsText
    <3> QED
      BY <1>4, <3>1 DEF From
  <2> HIDE DEF rest
  <2>4. length \in Nat
    BY <1>4
  <2>5. text \in Seq(Letter) /\ (Len(rest) < length \/ Ends(length) => LiesIn(text, length))
    BY <2>1, <2>2, <2>3, <2>4, CopiesAre
  <2>6. careful' => Len(rest) < length \/ Ends(length)
    <3> SUFFICES ASSUME careful' PROVE Len(rest) < length \/ Ends(length)
      OBVIOUS
    <3>1. TextAt(v) = v.text /\ Len(v.text) \in Nat
      BY SoundText, LenProperties
    <3> QED
      BY <2>3, <2>4, <3>1
  <2>7. LiesIn(text, length) => Fits(text)
    BY <2>1, <2>4, FitsIs
  <2> QED
    BY <2>2, <2>5, <2>6, <2>7, TextShape
<1> QED
  BY <1>1, <1>2, <1>3, <1>4

LEMMA CharAtShape ==
  ASSUME Inv, NEW a \in Regs, NEW x \in Arguments, NEW y \in Arguments, CharAt(a, x, y)
  PROVE  Shape
<1>1. /\ x.tt = "string" /\ y.tt = "number"
      /\ careful' = (careful /\ Sound(x) /\ Ends(1))
      /\ IF OutOfRange(x, y.n)
           THEN Stop(IF IsNULL(x) \/ Readable(x) THEN "exit1" ELSE "wild")
           ELSE BijouString_substr(a, x, y.n, 1)
  BY DEF CharAt, Calling
<1>2. careful' \in BOOLEAN /\ y.n \in Int /\ (careful' => careful /\ Sound(x) /\ Ends(1))
  BY <1>1, ArgumentIs
<1>3. CASE OutOfRange(x, y.n) /\ (IsNULL(x) \/ Readable(x))
  BY <1>1, <1>2, <1>3, StopShape DEF Failures
<1>4. CASE OutOfRange(x, y.n) /\ ~(IsNULL(x) \/ Readable(x))
  BY <1>1, <1>2, <1>4, SoundText, StopShape DEF Failures
<1>5. CASE ~OutOfRange(x, y.n)
  <2>1. careful' => y.n \in 0 .. Len(x.text)
    <3> SUFFICES ASSUME careful' PROVE y.n \in 0 .. Len(x.text)
      OBVIOUS
    <3>1. x.text \in Seq(Letter)
      BY <1>1, <1>2, SoundText
    <3>2. Len(x.text) \in Nat
      BY <3>1, LenProperties
    <3> QED
      BY <1>5, <3>2 DEF OutOfRange
  <2>2. BijouString_substr(a, x, y.n, 1) /\ 1 \in Int
    BY <1>1, <1>5
  <2> QED
    BY <1>1, <1>2, <2>1, <2>2, CopyShape
<1> QED
  BY <1>3, <1>4, <1>5

LEMMA SubstrShape ==
  ASSUME Inv, NEW a \in Regs, NEW x \in Arguments, NEW y \in Arguments,
         NEW z \in Arguments, Substr(a, x, y, z)
  PROVE  Shape
<1>1. /\ x.tt = "string" /\ y.tt = "number" /\ z.tt = "number"
      /\ BijouString_substr(a, x, y.n, z.n)
  BY DEF Substr, Calling
<1>2. y.n \in Int /\ z.n \in Int
  BY <1>1, ArgumentIs
<1>3. careful' = (careful /\ (/\ Sound(x) /\ y.n \in 0 .. Len(x.text) /\ z.n >= 0
                              /\ z.n > Len(x.text) - y.n \/ Ends(z.n)))
  BY Zenon DEF Substr, Calling
<1>4. careful' \in BOOLEAN
  BY <1>3
<1>5. careful' => /\ careful /\ Sound(x) /\ y.n \in 0 .. Len(x.text)
                  /\ z.n > Len(x.text) - y.n \/ Ends(z.n)
  BY <1>3
<1> QED
  BY <1>1, <1>2, <1>4, <1>5, CopyShape

\* The loop, as its action has it.
Places(string, size) ==
  {i \in 0 .. Len(string) - 1 : i = 0 \/ (size # 0 /\ i % size = 0)}

LEMMA SearchIs ==
  ASSUME NEW a, NEW string, NEW search, Search(a, string, search)
  PROVE  LET size == Len(TextAt(search))
         IN  \/ \E i \in Places(string, size) : \E part :
                  /\ part \in Copies(From(string, i), size)
                  /\ IF LiesIn(part, size)
                       THEN BijouString_equal(part, search) /\ Answer(a, Number(i))
                       ELSE Stop("wild")
             \/ Stop("spins") /\ size = 0
             \/ Answer(a, Number(-1))
BY Zenon DEF Search, Places

\* Each part the loop makes of a text is a copy of what is left of it.
LEMMA PartIs ==
  ASSUME NEW string \in Seq(Letter), NEW size \in Nat, Asked(size),
         NEW i \in Places(string, size), NEW part \in Copies(From(string, i), size)
  PROVE  /\ i \in Nat
         /\ Ends(size) => LiesIn(part, size)
         /\ Len(part) = size => i + size <= Len(string) /\ part = SubSeq(string, i + 1, i + size)
<1>1. Len(string) \in Nat /\ i \in Nat /\ i < Len(string)
  BY LenProperties DEF Places
<1> DEFINE rest == From(string, i)
<1>2. /\ rest \in Seq(Letter) /\ Len(rest) = Len(string) - i
      /\ \A j \in 1 .. Len(rest) : rest[j] = string[i + j]
  BY <1>1 DEF From
<1> HIDE DEF rest
<1>3. /\ Ends(size) => LiesIn(part, size)
      /\ Len(part) = size => size <= Len(rest) /\ part = SubSeq(rest, 1, size)
  BY <1>2, CopiesAre DEF rest
<1>4. ASSUME Len(part) = size
      PROVE  i + size <= Len(string) /\ part = SubSeq(string, i + 1, i + size)
  <2>1. size <= Len(rest) /\ part = SubSeq(rest, 1, size)
    BY <1>3, <1>4
  <2>2. SubSeq(rest, 1, size) = SubSeq(string, i + 1, i + size)
    BY <1>1, <1>2, <2>1
  <2> QED
    BY <1>1, <1>2, <2>1, <2>2
<1> QED
  BY <1>1, <1>3, <1>4

\* What a call of index_of is.
LEMMA IndexOfIs ==
  ASSUME NEW a, NEW x, NEW y, IndexOf(a, x, y)
  PROVE  /\ x.tt = "string" /\ y.tt = "string" /\ careful' \in BOOLEAN
         /\ careful' => /\ careful /\ Sound(x) /\ Sound(y)
                        /\ y.text # <<>> /\ Ends(Len(y.text))
         /\ Readable(x) /\ Readable(y) => Asked(Len(TextAt(y))) /\ Search(a, TextAt(x), y)
         /\ ~(Readable(x) /\ Readable(y)) => \E s \in Failures : Stop(s)
<1>1. x.tt = "string" /\ y.tt = "string"
  BY DEF IndexOf, Calling
<1>2. careful' = (careful /\ Sound(x) /\ Sound(y) /\ y.text # <<>> /\ Ends(Len(y.text)))
  BY DEF IndexOf, Calling
<1>3. WithTexts({x, y}, Asked(Len(TextAt(y))) /\ Search(a, TextAt(x), y))
  BY Zenon DEF IndexOf, Calling
<1>4. Readable(x) /\ Readable(y) => Asked(Len(TextAt(y))) /\ Search(a, TextAt(x), y)
  BY <1>3, Zenon DEF WithTexts
<1>5. ~(Readable(x) /\ Readable(y)) => \E s \in Failures : Stop(s)
  BY <1>3 DEF WithTexts, Failures
<1> QED
  BY <1>1, <1>2, <1>4, <1>5

LEMMA IndexOfShape ==
  ASSUME Inv, NEW a \in Regs, NEW x \in Arguments, NEW y \in Arguments, IndexOf(a, x, y)
  PROVE  Shape
<1>1. x.tt = "string" /\ y.tt = "string"
  BY IndexOfIs
<1>2. /\ careful' \in BOOLEAN
      /\ careful' => careful /\ Sound(x) /\ Sound(y) /\ y.text # <<>> /\ Ends(Len(y.text))
  BY IndexOfIs
<1>3. CASE Readable(x) /\ Readable(y)
  <2> DEFINE size == Len(TextAt(y))
  <2>1. Asked(size) /\ Search(a, TextAt(x), y)
    BY <1>3, IndexOfIs
  <2>2. TextAt(x) \in Seq(Letter) /\ TextAt(y) \in Seq(Letter) /\ size \in Nat
    BY <1>1, <1>3, TextIsText
  <2>3. careful' => Ends(size) /\ size # 0
    BY <1>1, <1>2, <2>2, SoundText, EmptySeq
  <2>4. \/ \E i \in Places(TextAt(x), size) : \E part :
             /\ part \in Copies(From(TextAt(x), i), size)
             /\ IF LiesIn(part, size)
                  THEN BijouString_equal(part, y) /\ Answer(a, Number(i))
                  ELSE Stop("wild")
        \/ Stop("spins") /\ size = 0
        \/ Answer(a, Number(-1))
    BY <2>1, SearchIs
  <2> HIDE DEF size
  <2>5. ASSUME NEW i \in Places(TextAt(x), size), NEW part \in Copies(From(TextAt(x), i), size),
               IF LiesIn(part, size)
                 THEN BijouString_equal(part, y) /\ Answer(a, Number(i))
                 ELSE Stop("wild")
        PROVE  Shape
    <3>1. i \in Int /\ (Ends(size) => LiesIn(part, size))
      BY <2>1, <2>2, PartIs
    <3>2. CASE LiesIn(part, size)
      BY <1>2, <2>5, <3>1, <3>2, NumberShape
    <3>3. CASE ~LiesIn(part, size)
      BY <1>2, <2>3, <2>5, <3>1, <3>3, StopShape DEF Failures
    <3> QED
      BY <3>2, <3>3
  <2>6. CASE Stop("spins") /\ size = 0
    BY <1>2, <2>3, <2>6, StopShape DEF Failures
  <2>7. CASE Answer(a, Number(-1))
    BY <1>2, <2>7, NumberShape
  <2> QED
    BY <2>4, <2>5, <2>6, <2>7
<1>4. CASE ~(Readable(x) /\ Readable(y))
  <2>1. \E s \in Failures : Stop(s)
    BY <1>4, IndexOfIs
  <2> QED
    BY <1>1, <1>2, <1>4, <2>1, NoTextShape
<1> QED
  BY <1>3, <1>4

LEMMA LengthShape ==
  ASSUME Inv, NEW a \in Regs, NEW x \in Arguments, Length(a, x)
  PROVE  Shape
<1>1. /\ x.tt = "string" /\ careful' = (careful /\ Sound(x))
      /\ WithTexts({x}, Answer(a, Number(Len(TextAt(x)))))
  BY DEF Length, Calling
<1>2. careful' \in BOOLEAN /\ (careful' => careful /\ Sound(x))
  BY <1>1
<1>3. CASE Readable(x)
  <2>1. Answer(a, Number(Len(TextAt(x))))
    BY <1>1, <1>3 DEF WithTexts
  <2>2. Len(TextAt(x)) \in Int
    BY <1>1, <1>3, TextIsText
  <2> QED
    BY <1>2, <2>1, <2>2, NumberShape
<1>4. CASE ~Readable(x)
  <2>1. \E s \in Failures : Stop(s)
    BY <1>1, <1>4 DEF WithTexts, Failures
  <2> QED
    BY <1>1, <1>2, <1>4, <2>1, NoTextShape
<1> QED
  BY <1>3, <1>4

LEMMA OpenFileShape ==
  ASSUME Inv, NEW a \in Regs, NEW x \in Arguments, NEW y \in Arguments, OpenFile(a, x, y)
  PROVE  Shape
<1>1. /\ x.tt = "string" /\ y.tt = "string"
      /\ careful' = (careful /\ Sound(x) /\ Sound(y))
      /\ WithTexts({x, y}, Answer(a, Null) \/ Make(a, "stream"))
  BY DEF OpenFile, Calling
<1>2. careful' \in BOOLEAN /\ (careful' => careful /\ Sound(x) /\ Sound(y))
  BY <1>1
<1>3. CASE Readable(x) /\ Readable(y)
  BY <1>1, <1>2, <1>3 DEF WithTexts, Shape, Plain
<1>4. CASE ~(Readable(x) /\ Readable(y))
  <2>1. \E s \in Failures : Stop(s)
    BY <1>1, <1>4 DEF WithTexts, Failures
  <2> QED
    BY <1>1, <1>2, <1>4, <2>1, NoTextShape
<1> QED
  BY <1>3, <1>4

\* A pointer to something else, which no careful program hands over.
LEMMA NotThereShape ==
  ASSUME Inv, NEW x \in Arguments, x.tt = "pointer", NEW kind, objects[x.ptr].kind # kind,
         Stop("wild"), careful' \in BOOLEAN, careful' => careful /\ Opened(x, kind)
  PROVE  Shape
BY OpenedIsThere, StopShape DEF Failures

LEMMA FileCloseShape ==
  ASSUME Inv, NEW a \in Regs, NEW x \in Arguments, FileClose(a, x)
  PROVE  Shape
<1>1. /\ x.tt = "pointer" /\ careful' = (careful /\ Opened(x, "stream"))
      /\ At(x, "stream", fclose(a, x, Null) /\ closed' = closed \cup {x.n})
  BY DEF FileClose, Calling
<1>2. careful' \in BOOLEAN /\ (careful' => careful /\ Opened(x, "stream"))
  BY <1>1
<1>3. CASE objects[x.ptr].kind = "stream"
  <2>1. fclose(a, x, Null) /\ closed' = closed \cup {x.n}
    BY <1>1, <1>3 DEF At
  <2>2. x \in Held("pointer")
    BY <1>1, ArgumentIs
  <2> QED
    BY <1>2, <2>1, <2>2 DEF Shape
<1>4. CASE objects[x.ptr].kind # "stream"
  <2>1. Stop("wild")
    BY <1>1, <1>4 DEF At
  <2> QED
    BY <1>1, <1>2, <1>4, <2>1, NotThereShape
<1> QED
  BY <1>3, <1>4

LEMMA AnswerNULLShape ==
  ASSUME NEW a \in Regs, AnswerNULL(a), careful' \in BOOLEAN, careful' => careful
  PROVE  Shape
BY StopShape DEF AnswerNULL, Shape, Plain, Failures

LEMMA ReadTextShape ==
  ASSUME NEW a \in Regs, NEW size \in Int, ReadText(a, size),
         careful' \in BOOLEAN, careful' => careful /\ Ends(size)
  PROVE  Shape
<1>1. CASE size < 0
  BY <1>1, AnswerNULLShape DEF ReadText
<1>2. CASE ~(size < 0)
  <2>1. size \in Nat /\ ReadInto(a, size, "used", "malloc")
    BY <1>2 DEF ReadText
  <2> QED
    BY <2>1, ReadShape
<1> QED
  BY <1>1, <1>2

LEMMA FileReadShape ==
  ASSUME Inv, NEW a \in Regs, NEW x \in Arguments, NEW y \in Arguments, FileRead(a, x, y)
  PROVE  Shape
<1>1. /\ x.tt = "pointer" /\ y.tt = "number"
      /\ careful' = (careful /\ Opened(x, "stream") /\ Ends(y.n))
      /\ At(x, "stream", ReadText(a, y.n))
  BY DEF FileRead, Calling
<1>2. /\ careful' \in BOOLEAN /\ y.n \in Int
      /\ careful' => careful /\ Opened(x, "stream") /\ Ends(y.n)
  BY <1>1, ArgumentIs
<1>3. CASE objects[x.ptr].kind = "stream"
  BY <1>1, <1>2, <1>3, ReadTextShape DEF At
<1>4. CASE objects[x.ptr].kind # "stream"
  <2>1. Stop("wild")
    BY <1>1, <1>4 DEF At
  <2> QED
    BY <1>1, <1>2, <1>4, <2>1, NotThereShape
<1> QED
  BY <1>3, <1>4

LEMMA FileSlurpShape ==
  ASSUME Inv, NEW a \in Regs, NEW x \in Arguments, FileSlurp(a, x)
  PROVE  Shape
<1>1. PICK size \in -1 .. MaxFile :
        /\ x.tt = "pointer" /\ careful' = (careful /\ Opened(x, "stream") /\ Ends(size))
        /\ At(x, "stream", ReadText(a, size))
  BY DEF FileSlurp, Calling
<1>2. size \in Int
  BY LibraryAssumption
<1>3. careful' \in BOOLEAN /\ (careful' => careful /\ Opened(x, "stream") /\ Ends(size))
  BY <1>1
<1>4. CASE objects[x.ptr].kind = "stream"
  BY <1>1, <1>2, <1>3, <1>4, ReadTextShape DEF At
<1>5. CASE objects[x.ptr].kind # "stream"
  <2>1. Stop("wild")
    BY <1>1, <1>5 DEF At
  <2> QED
    BY <1>1, <1>3, <1>5, <2>1, NotThereShape
<1> QED
  BY <1>4, <1>5

\* A string that is not recv's is as long as its length says: nothing else is read.
LEMMA ByLengthIs ==
  ASSUME Inv, NEW v \in Arguments, v.tt = "string", NEW ACTION Effect, ByLength(v, Effect)
  PROVE  Effect \/ (Stop("wild") /\ v.from = "recv")
<1>1. CASE Effect
  BY <1>1
<1>2. CASE /\ ~IsNULL(v) /\ (Readable(v) => Len(v.text) > Len(TextAt(v)) + 1)
           /\ Stop("wild")
  <2> SUFFICES ASSUME v.from # "recv" PROVE FALSE
    BY <1>2
  <2>1. TextAt(v) = v.text /\ v.text \in Seq(Letter) /\ Readable(v)
    BY <1>2, SoundText DEF Sound
  <2>2. Len(v.text) \in Nat
    BY <2>1, LenProperties
  <2> QED
    BY <1>2, <2>1, <2>2
<1> QED
  BY <1>1, <1>2 DEF ByLength

LEMMA FileWriteShape ==
  ASSUME Inv, NEW a \in Regs, NEW x \in Arguments, NEW y \in Arguments, FileWrite(a, x, y)
  PROVE  Shape
<1> DEFINE Written == \E written \in 0 .. Len(y.text) : Answer(a, Number(written))
<1>1. /\ x.tt = "pointer" /\ y.tt = "string"
      /\ careful' = (careful /\ Opened(x, "stream") /\ y.from # "recv")
      /\ IF objects[x.ptr].kind = "stream" THEN ByLength(y, Written) ELSE Stop("wild")
  <2>1. /\ x.tt = "pointer" /\ y.tt = "string"
        /\ careful' = (careful /\ Opened(x, "stream") /\ y.from # "recv")
    BY DEF FileWrite, Calling
  <2>2. IF objects[x.ptr].kind = "stream" THEN ByLength(y, Written) ELSE Stop("wild")
    BY Zenon DEF FileWrite, Calling, At
  <2> QED
    BY <2>1, <2>2
<1>2. careful' \in BOOLEAN /\ (careful' => careful /\ Opened(x, "stream"))
  BY <1>1
<1>3. CASE objects[x.ptr].kind = "stream"
  <2>1. Written \/ (Stop("wild") /\ y.from = "recv")
    <3> HIDE DEF Written
    <3> QED
      BY <1>1, <1>3, ByLengthIs
  <2>2. CASE Written
    <3>1. PICK n \in 0 .. Len(y.text) : Answer(a, Number(n))
      BY <2>2
    <3> QED
      BY <1>2, <3>1, NumberShape
  <2>3. CASE Stop("wild") /\ y.from = "recv"
    BY <1>1, <1>2, <2>3, StopShape DEF Failures
  <2> QED
    BY <2>1, <2>2, <2>3
<1>4. CASE objects[x.ptr].kind # "stream"
  <2>1. Stop("wild")
    BY <1>1, <1>4
  <2> QED
    BY <1>1, <1>2, <1>4, <2>1, NotThereShape
<1> QED
  BY <1>3, <1>4

LEMMA FileFlushShape ==
  ASSUME Inv, NEW a \in Regs, NEW x \in Arguments, FileFlush(a, x)
  PROVE  Shape
<1>1. /\ x.tt = "pointer" /\ careful' = (careful /\ Opened(x, "stream"))
      /\ IF objects[x.ptr].kind = "stream"
           THEN \E error \in {0, -1} : Answer(a, Number(error))
           ELSE Stop("wild")
  BY DEF FileFlush, Calling, At
<1>2. careful' \in BOOLEAN /\ (careful' => careful /\ Opened(x, "stream"))
  BY <1>1
<1>3. CASE objects[x.ptr].kind = "stream"
  <2>1. \E error \in {0, -1} : Answer(a, Number(error))
    BY <1>1, <1>3
  <2> QED
    BY <1>2, <2>1, NumberShape
<1>4. CASE objects[x.ptr].kind # "stream"
  <2>1. Stop("wild")
    BY <1>1, <1>4
  <2> QED
    BY <1>1, <1>2, <1>4, <2>1, NotThereShape
<1> QED
  BY <1>3, <1>4

----------------------------------------------------------------------------
(* The network.                                                            *)

LEMMA GetaddrinfoShape ==
  ASSUME Inv, NEW a \in Regs, NEW x \in Arguments, NEW y \in Arguments, Getaddrinfo(a, x, y)
  PROVE  Shape
<1>1. /\ x.tt = "string" /\ y.tt = "string"
      /\ careful' = (careful /\ Sound(x) /\ Sound(y))
      /\ \/ Stop("exit1") \/ Make(a, "info")
         \/ Stop("wild") /\ ~(Readable(x) /\ Readable(y))
  BY DEF Getaddrinfo, Calling, Refused
<1>2. careful' \in BOOLEAN /\ (careful' => careful /\ Sound(x) /\ Sound(y))
  BY <1>1
<1>3. CASE Stop("exit1")
  BY <1>2, <1>3, StopShape DEF Failures
<1>4. CASE Make(a, "info")
  BY <1>2, <1>4 DEF Shape
<1>5. CASE Stop("wild") /\ ~(Readable(x) /\ Readable(y))
  BY <1>1, <1>2, <1>5, NoTextShape DEF Failures
<1> QED
  BY <1>1, <1>3, <1>4, <1>5

LEMMA SocketShape ==
  ASSUME Inv, NEW a \in Regs, NEW x \in Arguments, Socket(a, x)
  PROVE  Shape
<1>1. /\ x.tt = "pointer" /\ careful' = (careful /\ Opened(x, "info"))
      /\ IF objects[x.ptr].kind = "info"
           THEN Stop("exit1") \/ \E sock \in Numbers \cap Nat : Answer(a, Number(sock))
           ELSE Stop("wild")
  BY DEF Socket, Calling, At, Refused
<1>2. careful' \in BOOLEAN /\ (careful' => careful /\ Opened(x, "info"))
  BY <1>1
<1>3. CASE objects[x.ptr].kind = "info"
  BY <1>1, <1>2, <1>3, StopShape, NumberShape DEF Failures
<1>4. CASE objects[x.ptr].kind # "info"
  BY <1>1, <1>2, <1>4, NotThereShape
<1> QED
  BY <1>3, <1>4

LEMMA BindShape ==
  ASSUME Inv, NEW a \in Regs, NEW x, NEW y, Bind(a, x, y)
  PROVE  Shape
<1>1. careful' = FALSE /\ Stop("wild")
  BY DEF Bind, Calling
<1> QED
  BY <1>1, StopShape DEF Failures

LEMMA ConnectShape ==
  ASSUME Inv, NEW a \in Regs, NEW x, NEW y \in Arguments, Connect(a, x, y)
  PROVE  Shape
<1>1. /\ y.tt = "pointer" /\ careful' = (careful /\ Opened(y, "info"))
      /\ IF objects[y.ptr].kind = "info" THEN Stop("exit1") \/ Answer(a, Number(0))
                                         ELSE Stop("wild")
  BY DEF Connect, Calling, At, Refused
<1>2. careful' \in BOOLEAN /\ (careful' => careful /\ Opened(y, "info"))
  BY <1>1
<1>3. CASE objects[y.ptr].kind = "info"
  BY <1>1, <1>2, <1>3, StopShape, NumberShape DEF Failures
<1>4. CASE objects[y.ptr].kind # "info"
  BY <1>1, <1>2, <1>4, NotThereShape
<1> QED
  BY <1>3, <1>4

LEMMA ListenShape ==
  ASSUME Inv, NEW a \in Regs, NEW x, NEW y, Listen(a, x, y)
  PROVE  Shape
<1>1. careful' = careful /\ (Stop("exit1") \/ Answer(a, Number(0)))
  BY DEF Listen, Calling, Refused, Inv, Typed
<1>2. careful' \in BOOLEAN
  BY <1>1 DEF Inv, Typed
<1> QED
  BY <1>1, <1>2, StopShape, NumberShape DEF Failures

LEMMA SendShape ==
  ASSUME Inv, NEW a \in Regs, NEW x, NEW y \in Arguments, Send(a, x, y)
  PROVE  Shape
<1> DEFINE Sent == Stop("exit1") \/ \E sent \in 0 .. Len(y.text) : Answer(a, Number(sent))
<1>1. /\ y.tt = "string" /\ careful' = (careful /\ y.from # "recv")
      /\ ByLength(y, Sent)
  BY DEF Send, Calling, Refused
<1>2. careful' \in BOOLEAN /\ (careful' => careful)
  BY <1>1
<1>3. Sent \/ (Stop("wild") /\ y.from = "recv")
  <2> HIDE DEF Sent
  <2> QED
    BY <1>1, ByLengthIs
<1>4. ASSUME NEW n \in 0 .. Len(y.text), Answer(a, Number(n))
      PROVE  Shape
  BY <1>2, <1>4, NumberShape
<1>5. CASE Stop("exit1")
  BY <1>2, <1>5, StopShape DEF Failures
<1>6. CASE Stop("wild") /\ y.from = "recv"
  BY <1>1, <1>2, <1>6, StopShape DEF Failures
<1> QED
  BY <1>3, <1>4, <1>5, <1>6

LEMMA RecvShape ==
  ASSUME Inv, NEW a \in Regs, NEW x, NEW y \in Arguments, Recv(a, x, y)
  PROVE  Shape
<1>1. /\ careful' = (careful /\ Ends(y.n)) /\ y.tt = "number"
      /\ \/ Stop("exit1") \/ Answer(a, NoString)
         \/ y.n >= 0 /\ ReadInto(a, y.n, "freed", "recv")
  BY DEF Recv, Calling, Refused
<1>2. careful' \in BOOLEAN /\ y.n \in Int /\ (careful' => careful /\ Ends(y.n))
  BY <1>1, ArgumentIs
<1>3. CASE Stop("exit1")
  BY <1>2, <1>3, StopShape DEF Failures
<1>4. CASE Answer(a, NoString)
  BY <1>2, <1>4 DEF Shape, Plain
<1>5. CASE y.n \in Nat /\ ReadInto(a, y.n, "freed", "recv")
  BY <1>2, <1>5, ReadShape
<1> QED
  BY <1>1, <1>2, <1>3, <1>4, <1>5

----------------------------------------------------------------------------
(* All of them.                                                            *)
LEMMA MisuseShape ==
  ASSUME Inv, NEW x, Misuse(x)
  PROVE  Shape
<1>1. careful' = careful /\ Stop("exit1") /\ careful \in BOOLEAN
  BY DEF Misuse, Inv, Typed
<1> QED
  BY <1>1, StopShape DEF Failures

LEMMA SomeIsAnArgument == Some \in Arguments
<1>1. (CHOOSE t \in Texts : t # <<>>) \in Texts
  BY LibraryAssumption
<1> QED
  BY <1>1 DEF Some, Arguments

\* Every call has one of the shapes.
LEMMA RunningShape ==
  ASSUME Inv, Running
  PROVE  Shape
<1>1. CASE \E x \in Arguments : Misuse(x)
  BY <1>1, MisuseShape
<1>2. CASE \E a \in Regs, x \in Of("string") : OnString(a, x)
  <2>1. PICK a \in Regs, x \in Of("string") : OnString(a, x)
    BY <1>2
  <2>2. x \in Arguments /\ Some \in Arguments
    BY SomeIsAnArgument DEF Of
  <2> QED
    BY <2>1, <2>2, LengthShape, OpenFileShape, GetaddrinfoShape DEF OnString
<1>3. CASE \E a \in Regs, x \in Of("string"), y \in Of("string") : OnStrings(a, x, y)
  <2>1. PICK a \in Regs, x \in Of("string"), y \in Of("string") : OnStrings(a, x, y)
    BY <1>3
  <2>2. x \in Arguments /\ y \in Arguments
    BY DEF Of
  <2> QED
    BY <2>1, <2>2, StringCatShape, IndexOfShape DEF OnStrings
<1>4. CASE \E a \in Regs, x \in Of("string"), y \in Of("number") : OnStringNumber(a, x, y)
  <2>1. PICK a \in Regs, x \in Of("string"), y \in Of("number") : OnStringNumber(a, x, y)
    BY <1>4
  <2>2. x \in Arguments /\ y \in Arguments /\ \A n \in Numbers : Number(n) \in Arguments
    BY DEF Of, Arguments
  <2> QED
    BY <2>1, <2>2, CharAtShape, SubstrShape DEF OnStringNumber
<1>5. CASE \E a \in Regs, x \in Of("pointer") : OnPointer(a, x)
  <2>1. PICK a \in Regs, x \in Of("pointer") : OnPointer(a, x)
    BY <1>5
  <2>2. x \in Arguments
    BY DEF Of
  <2> QED
    BY <2>1, <2>2, FileCloseShape, FileSlurpShape, FileFlushShape, SocketShape DEF OnPointer
<1>6. CASE \E a \in Regs, x \in Of("pointer"), y \in Arguments : OnPointerAnd(a, x, y)
  <2>1. PICK a \in Regs, x \in Of("pointer"), y \in Arguments : OnPointerAnd(a, x, y)
    BY <1>6
  <2>2. x \in Arguments
    BY DEF Of
  <2> QED
    BY <2>1, <2>2, FileReadShape, FileWriteShape DEF OnPointerAnd
<1>7. CASE \E a \in Regs, y \in Arguments : OnNumberAnd(a, AnySocket, y)
  <2>1. PICK a \in Regs, y \in Arguments : OnNumberAnd(a, AnySocket, y)
    BY <1>7
  <2> QED
    BY <2>1, BindShape, ConnectShape, ListenShape, SendShape, RecvShape DEF OnNumberAnd
<1> QED
  BY <1>1, <1>2, <1>3, <1>4, <1>5, <1>6, <1>7 DEF Running

LEMMA InvInit == Init => Inv
<1> SUFFICES ASSUME Init PROVE Inv
  OBVIOUS
<1>1. \A r \in Regs : regs[r].tt = "null"
  BY FieldsOf DEF Init
<1>2. \A p \in Buffers : IsBuffer(heap[p])
  BY NoBufferIs DEF Init
<1>3. Typed
  BY <1>1, <1>2 DEF Init, Typed, IsValue
<1> QED
  BY <1>1, <1>3
     DEF Init, Inv, StringsStay, PointersKeepTheirStream, CarefulNeverWild, Held

LEMMA InvNext == Inv /\ [Next]_vars => Inv'
<1> SUFFICES ASSUME Inv, [Next]_vars PROVE Inv'
  OBVIOUS
<1>1. CASE Running
  BY <1>1, RunningShape, ShapeStep
<1>2. CASE UNCHANGED vars
  BY <1>2
     DEF vars, Inv, Typed, StringsStay, PointersKeepTheirStream, CarefulNeverWild, Held
<1> QED
  BY <1>1, <1>2 DEF Next, Over

\* A string keeps its memory and its text for as long as a register holds it, unless
\* it is recv's: nothing the libraries do takes its buffer (string.c:24-49).
THEOREM StringsHold == Spec => []StringsStay
<1>1. Inv => StringsStay
  BY DEF Inv
<1> QED
  BY <1>1, InvInit, InvNext, PTL DEF Spec

\* A pointer that is not closed points to what was opened for it, however often
\* addresses are given again (io.c:60-76).
THEOREM PointersHold == Spec => []PointersKeepTheirStream
<1>1. Inv => PointersKeepTheirStream
  BY DEF Inv
<1> QED
  BY <1>1, InvInit, InvNext, PTL DEF Spec

\* Whatever the sizes malloc rounds to and the bytes it leaves, a program that keeps
\* to the contracts makes no library leave its memory, nor index_of loop for ever.
THEOREM ContractsSuffice == Spec => []CarefulNeverWild
<1>1. Inv => CarefulNeverWild
  BY DEF Inv
<1> QED
  BY <1>1, InvInit, InvNext, PTL DEF Spec

\* What index_of answers a careful program is an index at which the text stands: the
\* loop compares what follows each place with all of the text, so that no part that is
\* shorter, or goes on, is taken for it (lib/string.c:103-110).
THEOREM IndexHolds == Spec => IndexIsFound
<1>1. ASSUME Inv, status' = "running" /\ careful', NEW a \in Regs,
             regs'[a].tt = "number" /\ regs'[a].n >= 0,
             NEW x \in Held("string") \cup {Constant(t) : t \in Texts},
             NEW y \in Held("string") \cup {Constant(t) : t \in Texts},
             IndexOf(a, x, y)
      PROVE  StandsAt(x.text, y.text, regs'[a].n)
  <2>1. x \in Arguments /\ y \in Arguments
    BY DEF Held, Arguments
  <2>2. /\ x.tt = "string" /\ y.tt = "string" /\ Sound(x) /\ Sound(y)
        /\ Readable(x) /\ Readable(y) => Asked(Len(TextAt(y))) /\ Search(a, TextAt(x), y)
    <3>1. IndexOf(a, x, y)
      BY <1>1
    <3> QED
      BY <1>1, <3>1, IndexOfIs
  <2>3. /\ Readable(x) /\ TextAt(x) = x.text /\ x.text \in Seq(Letter)
        /\ Readable(y) /\ TextAt(y) = y.text /\ y.text \in Seq(Letter)
    BY <1>1, <2>1, <2>2, SoundText
  <2> DEFINE size == Len(y.text)
  <2>4. Asked(size) /\ Search(a, x.text, y) /\ size \in Nat
    BY <2>2, <2>3, LenProperties
  <2>5. ~Stop("wild") /\ ~Stop("spins")
    BY <1>1 DEF Stop
  <2>6. \/ \E i \in Places(x.text, size) : \E part :
             /\ part \in Copies(From(x.text, i), size)
             /\ BijouString_equal(part, y) /\ Answer(a, Number(i))
        \/ Answer(a, Number(-1))
    BY <2>3, <2>4, <2>5, SearchIs
  <2>7. \A n : Answer(a, Number(n)) => regs'[a].n = n
    BY <1>1, Stored, FieldsOf DEF Answer
  <2>8. PICK i \in Places(x.text, size) :
          /\ \E part \in Copies(From(x.text, i), size) : BijouString_equal(part, y)
          /\ regs'[a].n = i
    BY <1>1, <2>6, <2>7
  <2> PICK part \in Copies(From(x.text, i), size) : BijouString_equal(part, y)
    BY <2>8
  <2>9. Len(part) = size /\ part = y.text
    BY <2>3 DEF BijouString_equal
  <2>10. i + size <= Len(x.text) /\ part = SubSeq(x.text, i + 1, i + size)
    BY <2>3, <2>4, <2>8, <2>9, PartIs
  <2> QED
    BY <2>8, <2>9, <2>10 DEF StandsAt
<1>2. Inv /\ [Next]_vars =>
        (status' = "running" /\ careful' =>
           \A a \in Regs : regs'[a] # regs[a] /\ regs'[a].tt = "number" /\ regs'[a].n >= 0 =>
             \A x, y \in Held("string") \cup {Constant(t) : t \in Texts} :
               IndexOf(a, x, y) => StandsAt(x.text, y.text, regs'[a].n))
  BY <1>1
<1> QED
  BY <1>2, InvInit, InvNext, PTL DEF Spec, IndexIsFound

----------------------------------------------------------------------------
(* The types.                                                              *)

Tags == {"null", "number", "string", "pointer"}

ObjectUpTo(n) == [kind : Kinds, opening : 0 .. n]

\* What TypeOK says beyond the invariant: there is nothing that was not opened.
Counted ==
  /\ opens \in 0 .. MaxOpens /\ closed \subseteq 1 .. opens
  /\ objects \in [Addresses -> ObjectUpTo(opens)]
  /\ \A r \in Regs : /\ regs[r].tt \in Tags
                     /\ regs[r].tt = "pointer" => regs[r].n \in 1 .. opens
  /\ status \in {"running"} \cup Failures

LEMMA ObjectIs ==
  ASSUME NEW n \in Nat
  PROVE  /\ NoObject \in ObjectUpTo(n)
         /\ \A kind \in {"stream", "info"}, k \in 0 .. n : Object(kind, k) \in ObjectUpTo(n)
         /\ \A m \in 0 .. n : ObjectUpTo(m) \subseteq ObjectUpTo(n)
<1>1. 0 \in 0 .. n /\ \A m \in 0 .. n : 0 .. m \subseteq 0 .. n
  OBVIOUS
<1>2. NoObject \in ObjectUpTo(n)
  BY <1>1 DEF NoObject, Object, ObjectUpTo, Kinds
<1>3. \A kind \in {"stream", "info"}, k \in 0 .. n : Object(kind, k) \in ObjectUpTo(n)
  BY DEF Object, ObjectUpTo, Kinds
<1>4. \A m \in 0 .. n : ObjectUpTo(m) \subseteq ObjectUpTo(n)
  BY <1>1 DEF ObjectUpTo
<1> QED
  BY <1>2, <1>3, <1>4

LEMMA StoreCounted ==
  ASSUME Inv, Counted, NEW a \in Regs, NEW v, NEW heap2, NEW objects2,
         Store(a, v, heap2, objects2),
         opens' \in Nat, opens <= opens', opens' <= MaxOpens, closed' \subseteq 1 .. opens',
         objects2 \in [Addresses -> ObjectUpTo(opens')],
         v.tt \in Tags, v.tt = "pointer" => v.n \in 1 .. opens'
  PROVE  Counted'
<1> DEFINE held == {regs'[r].ptr : r \in Regs}
<1>1. PICK n \in Nat : n = opens'
  OBVIOUS
<1>2. objects' = [p \in Addresses |-> IF p \in held THEN objects2[p] ELSE NoObject]
  BY DEF Store
<1>3. objects' \in [Addresses -> ObjectUpTo(n)]
  <2> HIDE DEF held
  <2> QED
    BY <1>1, <1>2, ObjectIs
<1>4. ASSUME NEW r \in Regs
      PROVE  regs'[r].tt \in Tags /\ (regs'[r].tt = "pointer" => regs'[r].n \in 1 .. n)
  <2>1. CASE r = a
    BY <1>1, <2>1, Stored
  <2>2. CASE r # a
    <3>1. regs'[r] = regs[r]
      BY <2>2, Stored
    <3>2. opens \in Nat
      BY DEF Counted
    <3> QED
      BY <1>1, <3>1, <3>2 DEF Counted
  <2> QED
    BY <2>1, <2>2
<1>5. status' \in {"running"} \cup Failures
  BY Stored DEF Counted
<1>6. opens' \in 0 .. MaxOpens
  BY LibraryAssumption
<1> QED
  BY <1>1, <1>3, <1>4, <1>5, <1>6 DEF Counted

LEMMA CountedIs ==
  ASSUME Counted
  PROVE  opens \in Nat /\ opens <= MaxOpens
BY LibraryAssumption DEF Counted

LEMMA ShapeCounted ==
  ASSUME Inv, Counted, Shape
  PROVE  Counted'
<1>1. opens \in Nat /\ opens <= MaxOpens
  BY CountedIs
<1>2. CASE \E s \in Failures : Stop(s)
  <2>1. PICK s \in Failures : Stop(s)
    BY <1>2
  <2>2. \A r \in Regs : regs'[r].tt = "null"
    BY <2>1, FieldsOf DEF Stop
  <2>3. objects' \in [Addresses -> ObjectUpTo(0)]
    BY <2>1, ObjectIs DEF Stop
  <2>4. opens' = 0 /\ closed' = {} /\ status' = s
    BY <2>1 DEF Stop
  <2> QED
    BY <2>2, <2>3, <2>4, LibraryAssumption DEF Counted, Tags
<1>3. CASE \E a \in Regs : \E v : Answer(a, v) /\ Plain(v)
  <2>1. PICK a \in Regs : \E v : Answer(a, v) /\ Plain(v)
    BY <1>3
  <2>2. PICK v : Answer(a, v) /\ Plain(v)
    BY <2>1
  <2>3. v.tt \in Tags /\ v.tt # "pointer"
    BY <2>2, FieldsOf DEF Plain, Tags
  <2>4. Store(a, v, heap, objects) /\ opens' = opens /\ closed' = closed
    BY <2>2 DEF Answer
  <2> QED
    BY <1>1, <2>3, <2>4, StoreCounted DEF Counted
<1>4. CASE \E a \in Regs : \E buffer, from : Placed(a, buffer, from)
  <2>1. PICK a \in Regs : \E buffer, from : Placed(a, buffer, from)
    BY <1>4
  <2>2. PICK buffer, from : Placed(a, buffer, from)
    BY <2>1
  <2>3. PICK p : Store(a, String(p, buffer.text, from), [heap EXCEPT ![p] = buffer], objects)
    BY <2>2 DEF Placed
  <2>4. opens' = opens /\ closed' = closed
    BY <2>2 DEF Placed
  <2>5. String(p, buffer.text, from).tt = "string"
    BY FieldsOf
  <2>6. String(p, buffer.text, from).tt \in Tags /\ String(p, buffer.text, from).tt # "pointer"
    BY <2>5 DEF Tags
  <2> QED
    BY <1>1, <2>3, <2>4, <2>6, StoreCounted DEF Counted
<1>5. CASE \E a \in Regs, kind \in {"stream", "info"} : Make(a, kind)
  <2>1. PICK a \in Regs, kind \in {"stream", "info"} : Make(a, kind)
    BY <1>5
  <2> DEFINE free == {p \in Addresses : objects[p].kind = "nothing"}
  <2>2. PICK p \in Given(free) :
          Store(a, Pointer(p, kind, opens'), heap, [objects EXCEPT ![p] = Object(kind, opens')])
    BY <2>1 DEF Make
  <2>3. p \in Addresses
    BY <2>2, GivenIsFree
  <2>4. opens' = opens + 1 /\ opens < MaxOpens /\ closed' = closed
    BY <2>1 DEF Make
  <2>5. PICK n \in Nat : n = opens' /\ n <= MaxOpens /\ opens <= n /\ n \in 1 .. n
    BY <1>1, <2>4, LibraryAssumption
  <2>6. [objects EXCEPT ![p] = Object(kind, opens')] \in [Addresses -> ObjectUpTo(n)]
    <3>1. objects \in [Addresses -> ObjectUpTo(n)]
      BY <1>1, <2>5, ObjectIs DEF Counted
    <3>2. Object(kind, n) \in ObjectUpTo(n)
      BY <2>5, ObjectIs
    <3> QED
      BY <2>3, <2>5, <3>1, <3>2
  <2>7. Pointer(p, kind, opens').tt \in Tags /\ Pointer(p, kind, opens').n = n
    BY <2>5, FieldsOf DEF Tags
  <2>8. closed' \subseteq 1 .. opens'
    BY <1>1, <2>4 DEF Counted
  <2> QED
    BY <2>2, <2>5, <2>6, <2>7, <2>8, StoreCounted
<1>6. CASE \E a \in Regs, file \in Held("pointer") :
             fclose(a, file, Null) /\ closed' = closed \cup {file.n}
  <2>1. PICK a \in Regs, file \in Held("pointer") :
          fclose(a, file, Null) /\ closed' = closed \cup {file.n}
    BY <1>6
  <2>2. /\ Store(a, Null, heap, [objects EXCEPT ![file.ptr] = NoObject])
        /\ opens' = opens
    BY <2>1 DEF fclose
  <2>3. file.n \in 1 .. opens
    BY DEF Held, Counted
  <2>4. [objects EXCEPT ![file.ptr] = NoObject] \in [Addresses -> ObjectUpTo(opens)]
    BY <1>1, ObjectIs DEF Counted
  <2>5. Null.tt \in Tags /\ Null.tt # "pointer"
    BY FieldsOf DEF Tags
  <2>6. closed' \subseteq 1 .. opens'
    BY <2>1, <2>2, <2>3 DEF Counted
  <2>7. opens' \in Nat /\ opens <= opens' /\ opens' <= MaxOpens
    BY <1>1, <2>2
  <2> QED
    BY <1>1, <2>2, <2>4, <2>5, <2>6, <2>7, StoreCounted
<1> QED
  BY <1>2, <1>3, <1>4, <1>5, <1>6 DEF Shape

LEMMA CountedInit == Init => Counted
<1> SUFFICES ASSUME Init PROVE Counted
  OBVIOUS
<1>1. \A r \in Regs : regs[r].tt = "null"
  BY FieldsOf DEF Init
<1>2. objects \in [Addresses -> ObjectUpTo(0)]
  BY ObjectIs DEF Init
<1> QED
  BY <1>1, <1>2, LibraryAssumption DEF Init, Counted, Tags

LEMMA CountedNext == Inv /\ Counted /\ [Next]_vars => Counted'
<1> SUFFICES ASSUME Inv, Counted, [Next]_vars PROVE Counted'
  OBVIOUS
<1>1. CASE Running
  BY <1>1, RunningShape, ShapeCounted
<1>2. CASE UNCHANGED vars
  BY <1>2 DEF vars, Counted
<1> QED
  BY <1>1, <1>2 DEF Next, Over

\* Whatever the program calls, each register holds a value of its tag, a pointer is
\* from an opening that took place, nothing is closed that was not opened, and every
\* text lies in its buffer with its NUL, or the process has left its memory
\* (string.c:24-49, io.c:84-141).
THEOREM LibraryTypes == Spec => []TypeOK
<1>1. Inv /\ Counted => TypeOK
  BY DEF Inv, Counted, Typed, IsValue, IsBuffer, Fits, TypeOK, Tags, ObjectUpTo, Failures
<1> QED
  BY <1>1, InvInit, InvNext, CountedInit, CountedNext, PTL DEF Spec
=============================================================================
