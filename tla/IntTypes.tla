------------------------------ MODULE IntTypes ------------------------------
(***************************************************************************)
(* The built-in functions of the integer types INT1 .. INT8 and UINT1 ..   *)
(* UINT8, eight instances of one template, over the Datum that carries     *)
(* their arguments and results.  The functions have no state: an action is *)
(* one call, on any arguments, and the next one follows when it has        *)
(* returned.  OID is a UINT4 without arithmetic and bit operators.         *)
(*                                                                         *)
(* The C++ types have BitsOf[size] bits.  What counts is how the widths    *)
(* lie to each other: the operands of the narrow types are promoted to     *)
(* int (INT4), whose range holds every product of two operands except some *)
(* of UINT2; and a UINT1 can be larger than the number of bits of any type.*)
(***************************************************************************)
EXTENDS Integers, Bitwise

CONSTANTS
  BitsOf,       \* bits of a type of 1, 2, 4 and 8 bytes
  Corners,      \* bound: arguments are at most this far from a corner
  MoveFirst     \* the compiler moves `buffer' before it evaluates strlen()

ASSUME IntTypesAssumption ==
  /\ BitsOf \in [{1, 2, 4, 8} -> Nat]
  /\ 2 * BitsOf[1] < BitsOf[4] /\ 2 * BitsOf[2] = BitsOf[4] /\ BitsOf[4] < BitsOf[8]
  /\ 2 ^ (BitsOf[1] - 1) >= BitsOf[8]
  /\ Corners \in Nat
  /\ MoveFirst \in BOOLEAN

VARIABLE call     \* the call that is under way, and its outcome

\* The eight instances of the template: the size in bytes and the signedness of
\* the C++ type that each file declares its variables with.
INT1 == [size |-> 1, signed |-> TRUE]
INT2 == [size |-> 2, signed |-> TRUE]
INT4 == [size |-> 4, signed |-> TRUE]
INT8 == [size |-> 8, signed |-> TRUE]
UINT1 == [size |-> 1, signed |-> FALSE]
UINT2 == [size |-> 2, signed |-> FALSE]
UINT4 == [size |-> 4, signed |-> FALSE]
UINT8 == [size |-> 8, signed |-> FALSE]

MinOf(t) == IF t.signed THEN -(2 ^ (BitsOf[t.size] - 1)) ELSE 0
MaxOf(t) == 2 ^ (IF t.signed THEN BitsOf[t.size] - 1 ELSE BitsOf[t.size]) - 1
InRange(t, n) == MinOf(t) <= n /\ n <= MaxOf(t)

\* The arguments that are tried: those near the ends of the range and near 0.
Args(t) ==
  {n \in (MinOf(t) .. MinOf(t) + Corners) \union (-Corners .. Corners)
          \union (MaxOf(t) - Corners .. MaxOf(t)) : InRange(t, n)}

-----------------------------------------------------------------------------
(***************************************************************************)
(* Datum: a value is kept in 64 bits, sign-extended if its type is signed, *)
(* and cut to the width of the type that it is read as.                    *)
(***************************************************************************)
From(n) == n % 2 ^ BitsOf[8]

GetUnsigned(t, rep) == rep % 2 ^ BitsOf[t.size]                      \* mutant
Get(t, rep) ==
  LET low == rep % 2 ^ BitsOf[t.size]
  IN IF low > MaxOf(t) THEN low - 2 ^ BitsOf[t.size] ELSE low

\* Conversion of a number to type t.
Cast(t, n) == Get(t, n % 2 ^ BitsOf[t.size])

\* The type in which C++ computes with operands of type t.
Promoted(t) == IF t.size < INT4.size THEN INT4 ELSE t

\* The results of a computation whose exact result is n: a signed type that
\* cannot hold n makes it undefined.
Computed(t, n) ==
  IF Promoted(t).signed /\ ~InRange(Promoted(t), n) THEN Args(t) ELSE {Cast(t, n)}

-----------------------------------------------------------------------------
ArithOps == {"add", "sub", "mul", "div", "mod", "neg"}
CompareOps == {"eq", "ne", "lt", "le", "gt", "ge"}
BitOps == {"not", "and", "or", "xor", "lsh", "rsh"}
TextOps == {"in", "out"}

Abs(n) == IF n < 0 THEN -n ELSE n

\* Division rounds towards zero.
Quotient(a, b) == (IF (a < 0) = (b < 0) THEN 1 ELSE -1) * (Abs(a) \div Abs(b))
Remainder(a, b) == a - Quotient(a, b) * b

\* The processor's division instruction traps when the quotient does not fit.
Traps(t, a, b) == ~InRange(Promoted(t), Quotient(a, b))

Arithmetic(t, op, a, b) ==
  CASE op = "add" -> Computed(t, a + b)
    [] op = "sub" -> Computed(t, a - b)
    [] op = "mul" -> Computed(t, a * b)
    [] op = "neg" -> Computed(t, -a)
    [] op = "div" -> Computed(t, Quotient(a, b))
    [] op = "mod" -> Computed(t, Remainder(a, b))

Truth(p) == IF p THEN 1 ELSE 0

Comparison(op, a, b) ==
  Truth(CASE op = "eq" -> a = b [] op = "ne" -> a # b
          [] op = "lt" -> a < b [] op = "le" -> a <= b
          [] op = "gt" -> a > b [] op = "ge" -> a >= b)

\* The shift count is a UINT1 that is read as a number of type t.
ShiftCount(t, b) == Get(t, From(b))
ShiftDefined(t, b) == ShiftCount(t, b) \in 0 .. BitsOf[Promoted(t).size] - 1

\* >> copies the sign of the promoted operand.
ShiftsInZeros(t, a, n) == (a % 2 ^ BitsOf[t.size]) \div 2 ^ n        \* mutant
ShiftedRight(t, a, n) == a \div 2 ^ n

Bitwise(t, op, a, b) ==
  CASE op = "not" -> {Cast(t, -a - 1)}
    [] op = "and" -> {Cast(t, From(a) & From(b))}
    [] op = "or"  -> {Cast(t, From(a) | From(b))}
    [] op = "xor" -> {Cast(t, From(a) ^^ From(b))}
    [] op = "lsh" -> IF ShiftDefined(t, b) THEN {Cast(t, a * 2 ^ ShiftCount(t, b))}
                                           ELSE Args(t)
    [] op = "rsh" -> IF ShiftDefined(t, b) THEN {Cast(t, ShiftedRight(t, a, ShiftCount(t, b)))}
                                           ELSE Args(t)

\* SimpleAtoiWrapper(): narrow types, unsigned ones too, are read as an int and
\* then compared with the ends of the range.
UpperEndOnly(t, n) == n <= MaxOf(t)                                  \* mutant
Parses(t, n) == InRange(Promoted(t), n) /\ InRange(t, n)

-----------------------------------------------------------------------------
NoCall == [op |-> "none", type |-> INT4, a |-> 0, b |-> 0, out |-> "none", res |-> 0]

Init == call = NoCall

\* The types that are instances of the template.
IntegerTypes == {INT1, INT2, INT4, INT8, UINT1, UINT2, UINT4, UINT8}

\* op is called on Datums that hold a and b, and ends with this outcome.
Ends(t, op, a, b, out, res) ==
  call' = [op |-> op, type |-> t, a |-> a, b |-> b, out |-> out, res |-> res]

Starts == call.op = "none"
Return == ~Starts /\ call.out # "crash" /\ call' = NoCall

\* A call with a NULL argument.
NullCall(t, ops) ==
  /\ Starts
  /\ \E op \in ops : Ends(t, op, 0, 0, "null", 0)

ArithmeticCall(t) ==
  /\ Starts
  /\ \E op \in ArithOps, x, y \in Args(t) :
       LET a == Get(t, From(x))
           b == Get(t, From(y))
           divides == op \in {"div", "mod"}
       IN \/ divides /\ b = 0 /\ Ends(t, op, a, b, "error", 0)
          \/ divides /\ b # 0 /\ Traps(t, a, b) /\ Ends(t, op, a, b, "crash", 0)
          \/ /\ divides => b # 0 /\ ~Traps(t, a, b)
             /\ \E r \in Arithmetic(t, op, a, b) :
                  Ends(t, op, a, b, "value", Get(t, From(r)))

CompareCall(t) ==
  /\ Starts
  /\ \E op \in CompareOps, x, y \in Args(t) :
       LET a == Get(t, From(x))
           b == Get(t, From(y))
       IN Ends(t, op, a, b, "value", Comparison(op, a, b))

BitCall(t) ==
  /\ Starts
  /\ \E op \in BitOps, x \in Args(t) :
     \E y \in IF op \in {"lsh", "rsh"} THEN MinOf(UINT1) .. MaxOf(UINT1) ELSE Args(t) :
     \E r \in Bitwise(t, op, Get(t, From(x)), y) :
       Ends(t, op, Get(t, From(x)), y, "value", Get(t, From(r)))

\* A text is the number it says.  The output function passes `buffer' on and
\* takes the length of what is in it in one argument list.
TextCall(t) ==
  /\ Starts
  /\ \/ \E n \in Args(INT8) \union Args(t) \union {MinOf(t) - 1, MaxOf(t) + 1} :
          IF Parses(t, n) THEN Ends(t, "in", n, 0, "value", Get(t, From(n)))
                          ELSE Ends(t, "in", n, 0, "error", 0)
     \/ \E x \in Args(t) :
          Ends(t, "out", x, 0, IF MoveFirst THEN "crash" ELSE "value", Get(t, From(x)))

Numbers(t) ==
  NullCall(t, TextOps \union ArithOps) \/ TextCall(t) \/ ArithmeticCall(t)

BitsAndOrder(t) ==
  NullCall(t, CompareOps \union BitOps) \/ CompareCall(t) \/ BitCall(t)

OID_calls == NullCall(UINT4, TextOps \union CompareOps) \/ TextCall(UINT4) \/ CompareCall(UINT4)
INT1_numbers == Numbers(INT1)
INT1_bits == BitsAndOrder(INT1)
INT2_numbers == Numbers(INT2)
INT2_bits == BitsAndOrder(INT2)
INT4_numbers == Numbers(INT4)
INT4_bits == BitsAndOrder(INT4)
INT8_numbers == Numbers(INT8)
INT8_bits == BitsAndOrder(INT8)
UINT1_numbers == Numbers(UINT1)
UINT1_bits == BitsAndOrder(UINT1)
UINT2_numbers == Numbers(UINT2)
UINT2_bits == BitsAndOrder(UINT2)
UINT4_numbers == Numbers(UINT4)
UINT4_bits == BitsAndOrder(UINT4)
UINT8_numbers == Numbers(UINT8)
UINT8_bits == BitsAndOrder(UINT8)

IntNext ==
  \/ INT1_numbers \/ INT1_bits \/ INT2_numbers \/ INT2_bits
  \/ INT4_numbers \/ INT4_bits \/ INT8_numbers \/ INT8_bits
  \/ UINT1_numbers \/ UINT1_bits \/ UINT2_numbers \/ UINT2_bits
  \/ UINT4_numbers \/ UINT4_bits \/ UINT8_numbers \/ UINT8_bits
  \/ OID_calls

-----------------------------------------------------------------------------
Returned(ops) ==
  call.type \in IntegerTypes /\ call.out = "value" /\ call.op \in ops

\* The result on the integers, of the functions that have one.
Exact ==
  CASE call.op = "add" -> call.a + call.b
    [] call.op = "sub" -> call.a - call.b
    [] call.op = "mul" -> call.a * call.b
    [] call.op = "neg" -> -call.a

\* Promotion to int, the conversion back and the passage through a Datum never
\* disturb a result that the type can hold; and an unsigned type that C++ does
\* not promote computes modulo its size.
ExactWhenItFits ==
  Returned({"add", "sub", "mul", "neg"}) =>
    /\ InRange(call.type, Exact) => call.res = Exact
    /\ ~call.type.signed /\ call.type.size >= INT4.size =>
         call.res = Exact % 2 ^ BitsOf[call.type.size]

\* The functions on bits agree with each other and with arithmetic, in every
\* type and for all signs: what two operands share and what either has add up
\* to their sum, ^ is the difference of the two, and ~ leaves nothing of the
\* operand and fills the rest.  And a shift by a count that C++ defines is what
\* the count says, although lsh and rsh read the UINT1 with getters of their
\* own and shift narrow operands as ints: one that loses no bit is a product,
\* which the shift back undoes, sign and all.
BitsAgree ==
  /\ Returned({"and"}) =>
       \A or \in Bitwise(call.type, "or", call.a, call.b),
          xor \in Bitwise(call.type, "xor", call.a, call.b) :
         /\ call.res + or = call.a + call.b
         /\ or - call.res = xor
  /\ Returned({"not"}) =>
       /\ Bitwise(call.type, "and", call.a, call.res) = {0}
       /\ Bitwise(call.type, "xor", call.a, call.res) = {Cast(call.type, -1)}
  /\ Returned({"lsh"}) /\ call.b < BitsOf[Promoted(call.type).size] =>
       LET product == call.a * 2 ^ call.b
       IN InRange(call.type, product) =>
            /\ call.res = product
            /\ Bitwise(call.type, "rsh", product, call.b) = {call.a}

\* The input function takes exactly the numbers of its type, although it reads
\* the narrow unsigned ones as signed ints, and what the output function prints
\* is read back as the same number.
TextMatchesRange ==
  /\ call.type \in IntegerTypes /\ call.op = "in" =>
       (call.out = "null" \/ (call.out = "value" <=> InRange(call.type, call.a)))
  /\ Returned(TextOps) => call.res = call.a /\ Parses(call.type, call.res)

\* No call ends the process.  The code does not keep this: the least INT4 or
\* INT8 divided by -1 traps.
NoTrap == call.out # "crash"
=============================================================================
