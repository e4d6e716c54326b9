------------------------------- MODULE Values -------------------------------
(***************************************************************************)
(* The tagged values of Bijou (TValue, bijou.h) and the operators on them  *)
(* (value.c, number.c, string.c).                                          *)
(*                                                                         *)
(* A value is a pair of its tag and its payload.  The payload is a C union *)
(* which the code often reads without looking at the tag, or before it was *)
(* written: every operator below therefore yields the SET of the outcomes  *)
(* a build can produce, and the caller picks one.                          *)
(***************************************************************************)
EXTENDS Integers, Sequences

CONSTANTS
  Nums,      \* the numbers of the model
  Strings,   \* the texts of strings
  Pointers   \* what a pointer may hold, e.g. the address of a C object

ASSUME NumsAssumption == Nums \subseteq Int

(* What a function value may run (BijouFunction): a block of the program,  *)
(* one of the functions vm->functions holds, by its index, or a function   *)
(* of a loaded library, by its name.  A function built from a pointer past *)
(* the end of vm->functions is a stray one.                                *)

\* setup_internal_functions: print, println, sin, cos, tan, exp, log, ceil,
\* floor, rand and rand_int take this many arguments; -1 is any number.
InternalArity == <<-1, -1, 1, 1, 1, 1, 1, 1, 1, 0, 1>>
Printers      == {0, 1}

Stray == <<"stray", 0>>

Callees(blocks) ==
  ({"block"} \X blocks) \cup ({"internal"} \X (0 .. Len(InternalArity) - 1))
  \cup ({"external"} \X Strings) \cup {Stray}

None == <<"none", 0>>
Null == <<"null", 0>>

\* What malloc leaves in a register or in a global nothing was stored in: any
\* tag over any payload.
Junk == <<"junk", 0>>

Number(n)   == <<"number", n>>
Boolean(b)  == <<"boolean", b>>
String(s)   == <<"string", s>>
Function(f) == <<"function", f>>

\* The values a constant table can hold after bijou_load.
ConstValue == {Null} \cup ({"number"} \X Nums) \cup ({"boolean"} \X BOOLEAN)
                     \cup ({"string"} \X Strings)

PlainValue == ConstValue \cup {None, Junk} \cup ({"pointer"} \X Pointers)

\* The values of a program with these blocks.
ValueOver(blocks) == PlainValue \cup ({"function"} \X Callees(blocks))

Tag(v)     == v[1]
Payload(v) == v[2]

\* Junk may carry the tag a test looks for.
MayBe(tag, v) == Tag(v) \in {tag, "junk"}

AnyNumber == {"number"} \X Nums

----------------------------------------------------------------------------
(* TValue_num_add ... TValue_num_rem and TValue_num_unm.                   *)
(*                                                                         *)
(* A result that is no integer of the model (a quotient, a power, a sum    *)
(* that left Nums) is represented by every number of the model.            *)

Represented(n) == IF n \in Nums THEN {Number(n)} ELSE AnyNumber

Magnitude(n) == IF n < 0 THEN -n ELSE n

\* The remainder of C: it has the sign of the dividend.
Remainder(x, y) == IF x < 0 THEN -(Magnitude(x) % Magnitude(y))
                            ELSE x % Magnitude(y)

\* Mutant: the operands of a subtraction are swapped.
NumberResultsSwapped(op, x, y) ==
  CASE op = "add" -> Represented(x + y)
    [] op = "sub" -> Represented(y - x)
    [] op = "mul" -> Represented(x * y)
    [] op = "rem" -> IF y = 0 THEN {} ELSE Represented(Remainder(x, y))
    [] OTHER      -> AnyNumber

NumberResults(op, x, y) ==
  CASE op = "add" -> Represented(x + y)
    [] op = "sub" -> Represented(x - y)
    [] op = "mul" -> Represented(x * y)
    [] op = "rem" -> IF y = 0 THEN {} ELSE Represented(Remainder(x, y))
    [] OTHER      -> AnyNumber

\* The result None tells the caller that an operand was no number.
ArithResults(op, v, w) ==
  IF Tag(v) = "number" /\ Tag(w) = "number"
    THEN NumberResults(op, Payload(v), Payload(w))
    ELSE {None} \cup {n \in AnyNumber : MayBe("number", v) /\ MayBe("number", w)}

\* The integer division behind "rem" traps on a divisor that truncates to 0.
ArithMayTrap(op, v, w) ==
  /\ op = "rem"
  /\ MayBe("number", v) /\ MayBe("number", w)
  /\ w \in {Number(0), Junk}

UnmResults(v) ==
  IF Tag(v) = "number" THEN Represented(-Payload(v))
  ELSE {None} \cup {n \in AnyNumber : v = Junk}

----------------------------------------------------------------------------
(* Truth and order.  bvalue() reads four bytes of the payload whatever the *)
(* tag says: of a number, the low half of its mantissa; of a string or a   *)
(* function, half of an address; of the rest, what the union held before.  *)

\* bijou_load gives an empty string no buffer: its address is NULL.
Empty == String("")

BoolReadings(v) ==
  CASE Tag(v) = "boolean"                             -> {Payload(v)}
    [] Tag(v) \in {"string", "function"} /\ v # Empty -> {TRUE}
    [] OTHER                                          -> BOOLEAN

\* TValue_num_lt and its sisters leave the payload of their result unwritten
\* when an operand is no number, and the caller reads it all the same.
CompareResults(op, v, w) ==
  IF Tag(v) = "number" /\ Tag(w) = "number"
    THEN LET x == Payload(v)  y == Payload(w)
         IN  {\/ op = "lt" /\ x < y
              \/ op = "le" /\ x <= y
              \/ op = "gt" /\ x > y
              \/ op = "ge" /\ x >= y}
    ELSE BOOLEAN

(* TValue_equal.  Booleans are compared as long doubles, most bytes of     *)
(* which nothing wrote: unlike ones differ, like ones may.  Values of the  *)
(* last tags are equal when the two PARAMETERS are one object: never.      *)
EqualResults(v, w) ==
  CASE v = Junk \/ w = Junk                    -> BOOLEAN
    [] Tag(v) # Tag(w)                         -> {FALSE}
    [] Tag(v) \in {"null", "number", "string"} -> {v = w}
    [] Tag(v) = "boolean"                      -> {FALSE, v = w}
    [] OTHER                                   -> {FALSE}

\* strcmp(NULL, NULL), or strcmp of an address that was never written.
EqualMayTrap(v, w) ==
  /\ MayBe("string", v) /\ MayBe("string", w)
  /\ \/ v = Junk \/ w = Junk
     \/ v = Empty /\ w = Empty
=============================================================================
