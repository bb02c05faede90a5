----------------------------- MODULE TextTypes -----------------------------
(***************************************************************************)
(* The built-in functions of VARCHAR, CHAR and BOOL, beside those of the   *)
(* integer types.  A text is a sequence of character codes; a CHAR(n) is   *)
(* stored with spaces up to length n.  A length is a FieldOffset, an INT2. *)
(***************************************************************************)
EXTENDS IntTypes, Sequences, FiniteSetsExt

CONSTANTS
  Chars,        \* character codes
  MaxText,      \* bound: length of the text that is given to a function of one
  MaxPair,      \* bound: length of the texts that are compared or joined
  MaxParam      \* bound: type parameter, beside those at the limit

ASSUME TextAssumption ==
  /\ Chars \subseteq 0 .. 127
  /\ MaxText \in Nat /\ MaxPair \in Nat /\ MaxParam \in Nat

NUL == 0
Space == 32
Texts(n) == UNION {[1 .. k -> Chars] : k \in 0 .. n}

\* Lengths at the limit of a FieldOffset, and texts of such a length.
LongLengths == MaxOf(INT2) - 1 .. MaxOf(INT2) + 1
LongTexts == UNION {{[i \in 1 .. k |-> c] : k \in LongLengths} : c \in Chars}
Params == 0 .. MaxParam \union LongLengths

VARCHAR == [text |-> "VARCHAR"]
CHAR == [text |-> "CHAR"]
BOOL == [text |-> "BOOL"]

\* The comparisons that ignore case.
VARCHAR_ci == [text |-> "VARCHAR", ci |-> TRUE]
CHAR_ci == [text |-> "CHAR", ci |-> TRUE]

Spaces(n) == [i \in 1 .. n |-> Space]
Pad(s, n) == s \o Spaces(n - Len(s))

\* The loop that takes spaces off the end while the text is longer than n.
TrimAtLimit(s, n) ==                                                 \* mutant
  SubSeq(s, 1, Min({i \in 0 .. Len(s) : /\ i >= Min({n - 1, Len(s)}) \/ i >= n
                                        /\ \A j \in i + 1 .. Len(s) : s[j] = Space}))
TrimDownTo(s, n) ==
  SubSeq(s, 1, Min({i \in 0 .. Len(s) : /\ i >= Min({n, Len(s)})
                                        /\ \A j \in i + 1 .. Len(s) : s[j] = Space}))

OneSpaceLess(s) ==                                                   \* mutant
  IF s # <<>> /\ s[Len(s)] = Space THEN SubSeq(s, 1, Len(s) - 1) ELSE s
remove_trailing_space(s) == TrimDownTo(s, 0)

\* substr(0, n)
Cut(s, n) == SubSeq(s, 1, Min({n, Len(s)}))

-----------------------------------------------------------------------------
\* Results of the functions on texts that are not NULL; a set without elements
\* is an error.
VARCHAR_in(s, n) == {t \in {TrimDownTo(s, n)} : Len(t) <= n}
CHAR_in(s, n) == {Pad(t, n) : t \in VARCHAR_in(s, n)}

NotPadded(s, n) == Cut(s, IF n = 0 THEN Len(s) ELSE n)               \* mutant
VARCHAR_to_CHAR(s, n) ==
  LET size == IF n = 0 THEN Len(s) ELSE n IN Pad(Cut(s, size), size)

CHAR_to_VARCHAR(s, n) ==
  LET t == remove_trailing_space(s) IN Cut(t, IF n = 0 THEN Len(t) ELSE n)

VARCHAR_length(s) == Cast(INT2, Len(s))
VARCHAR_concat(s, t) == {u \in {s \o t} : Len(u) <= MaxOf(INT2)}
CHAR_typlen(n) == {k \in {n} : k <= MaxOf(INT2)}

-----------------------------------------------------------------------------
\* Comparison of string_views: negative, 0 or positive.
Before(s, t) ==
  \E i \in 0 .. Min({Len(s), Len(t)}) :
    /\ \A j \in 1 .. i : s[j] = t[j]
    /\ IF i = Len(s) THEN i < Len(t) ELSE i < Len(t) /\ s[i + 1] < t[i + 1]
Compare(s, t) == CASE s = t -> 0 [] Before(s, t) -> -1 [] OTHER -> 1

Lower(c) == IF c \in 65 .. 90 THEN c + 32 ELSE c

\* strncasecmp(3): the first n characters, up to a NUL that both have.
strncasecmp(s, t, n) ==
  LET diff == {i \in 1 .. n : /\ Lower(s[i]) # Lower(t[i])
                              /\ \A j \in 1 .. i - 1 :
                                   Lower(s[j]) = Lower(t[j]) /\ s[j] # NUL}
  IN IF diff = {} THEN 0 ELSE LET i == Min(diff) IN Lower(s[i]) - Lower(t[i])

PrefixOnly(s, t) == strncasecmp(s, t, Min({Len(s), Len(t)}))         \* mutant
string_compare_ci(s, t) ==
  LET res == strncasecmp(s, t, Min({Len(s), Len(t)}))
  IN IF res = 0 THEN Len(s) - Len(t) ELSE res

string_equal_ci(s, t) == Len(s) = Len(t) /\ strncasecmp(s, t, Len(s)) = 0

\* What the functions of CHAR compare.
Operand(ty, s) == IF ty.text = "CHAR" THEN remove_trailing_space(s) ELSE s

TextCompare(ty, op, s, t) ==
  LET a == Operand(ty, s)
      b == Operand(ty, t)
      equals == Truth(string_equal_ci(a, b))
  IN IF ty \notin {VARCHAR_ci, CHAR_ci} THEN Comparison(op, Compare(a, b), 0)
     ELSE CASE op = "eq" -> equals
            [] op = "ne" -> 1 - equals
            [] OTHER     -> Comparison(op, string_compare_ci(a, b), 0)

-----------------------------------------------------------------------------
\* The functions of BOOL take NULL for an argument.
Null == -1
Bools == {0, 1, Null}

NullPrevails(a, b) ==                                                \* mutant
  IF Null \in {a, b} THEN Null ELSE Truth(1 \in {a, b})
BOOL_or(a, b) == IF a = Null THEN IF b = Null \/ b = 0 THEN Null ELSE 1
                 ELSE IF a = 1 THEN 1 ELSE b
BOOL_and(a, b) == IF a = Null THEN IF b = Null \/ b = 1 THEN Null ELSE 0
                  ELSE IF a = 0 THEN 0 ELSE b
BOOL_not(a) == IF a = Null THEN Null ELSE 1 - a
BOOL_compare(op, a, b) == IF Null \in {a, b} THEN Null ELSE Comparison(op, a, b)

-----------------------------------------------------------------------------
\* A call that ends with a text of a set, or with an error if there is none.
EndsOneOf(ty, op, a, b, results) ==
  IF results = {} THEN Ends(ty, op, a, b, "error", 0)
  ELSE \E r \in results : Ends(ty, op, a, b, "value", r)

TextNull ==
  \/ NullCall(VARCHAR, CompareOps \union TextOps \union {"cast", "length", "concat"})
  \/ NullCall(CHAR, CompareOps \union TextOps \union {"cast"})
  \/ NullCall(VARCHAR_ci, CompareOps) \/ NullCall(CHAR_ci, CompareOps)
  \/ NullCall(BOOL, TextOps)

VARCHAR_calls ==
  /\ Starts
  /\ \/ \E s \in Texts(MaxText) \union LongTexts, n \in Params :
          \/ EndsOneOf(VARCHAR, "in", s, n, VARCHAR_in(s, n))
          \/ Ends(VARCHAR, "cast", s, n, "value", VARCHAR_to_CHAR(s, n))
     \/ \E s \in Texts(MaxText) \union LongTexts :
          \/ Ends(VARCHAR, "out", s, 0, "value", s)
          \/ Ends(VARCHAR, "length", s, 0, "value", VARCHAR_length(s))
     \/ \E s, t \in Texts(MaxPair) \union LongTexts :
          EndsOneOf(VARCHAR, "concat", s, t, VARCHAR_concat(s, t))

CHAR_calls ==
  /\ Starts
  /\ \/ \E s \in Texts(MaxText) \union LongTexts, n \in Params :
          \/ EndsOneOf(CHAR, "in", s, n, CHAR_in(s, n))
          \/ Ends(CHAR, "cast", s, n, "value", CHAR_to_VARCHAR(s, n))
     \/ \E s \in Texts(MaxText) \union LongTexts : Ends(CHAR, "out", s, 0, "value", s)
     \/ \E n \in Params : EndsOneOf(CHAR, "typlen", n, 0, CHAR_typlen(n))
     \/ Ends(CHAR, "typlen", Null, 0, "error", 0)

\* eq .. ge and, for VARCHAR, __STRING_eq.
CompareTexts(ty) ==
  /\ Starts
  /\ \E op \in CompareOps, s, t \in Texts(MaxPair) :
       Ends(ty, op, s, t, "value", TextCompare(ty, op, s, t))

VARCHAR_compare == CompareTexts(VARCHAR)
VARCHAR_compare_ci == CompareTexts(VARCHAR_ci)
CHAR_compare == CompareTexts(CHAR)
CHAR_compare_ci == CompareTexts(CHAR_ci)

\* SimpleAtob(): a text is one of those that mean 0 or 1, or another.
BOOL_text ==
  /\ Starts
  /\ \/ \E n \in {0, 1} : Ends(BOOL, "in", n, 0, "value", n)
     \/ Ends(BOOL, "in", 2, 0, "error", 0)
     \/ \E a \in {0, 1} : Ends(BOOL, "out", a, 0, "value", a)

BOOL_calls ==
  /\ Starts
  /\ \E a, b \in Bools :
       \/ Ends(BOOL, "or", a, b, "value", BOOL_or(a, b))
       \/ Ends(BOOL, "and", a, b, "value", BOOL_and(a, b))
       \/ b = 0 /\ Ends(BOOL, "not", a, b, "value", BOOL_not(a))
       \/ \E op \in CompareOps : Ends(BOOL, op, a, b, "value", BOOL_compare(op, a, b))

TextNext ==
  \/ TextNull
  \/ VARCHAR_calls \/ VARCHAR_compare \/ VARCHAR_compare_ci
  \/ CHAR_calls \/ CHAR_compare \/ CHAR_compare_ci
  \/ BOOL_text \/ BOOL_calls

Next == IntNext \/ TextNext \/ Return

Spec == Init /\ [][Next]_call

-----------------------------------------------------------------------------
Is(ty, ops) == call.type = ty /\ call.op \in ops /\ call.out = "value"

\* A text as the user means it: without the spaces at its end.
Meant(s) == CHOOSE t \in {Cut(s, i) : i \in 0 .. Len(s)} :
              /\ t = <<>> \/ t[Len(t)] # Space
              /\ \A i \in Len(t) + 1 .. Len(s) : s[i] = Space

\* An input function takes a text if what is meant fits in n characters; CHAR
\* is then as long as n, VARCHAR has the spaces that were given as far as they
\* fit, and neither loses anything else.
InputKeepsText ==
  call.op = "in" /\ call.type \in {VARCHAR, CHAR} /\ call.out # "null" =>
    /\ call.out = "value" <=> Len(Meant(call.a)) <= call.b
    /\ call.out = "value" =>
         /\ Meant(call.res) = Meant(call.a)
         /\ Len(call.res) = IF call.type = CHAR THEN call.b
                            ELSE Min({Len(call.a), call.b})

\* A cast to the other type and back gives the same value: what was added to it
\* is taken away, as long as it is not cut off.
CastsInvert ==
  /\ Is(CHAR, {"cast"}) /\ call.b = 0 =>
       VARCHAR_to_CHAR(call.res, Len(call.a)) = call.a
  /\ Is(VARCHAR, {"cast"}) /\ Len(call.a) <= call.b =>
       CHAR_to_VARCHAR(call.res, 0) = Meant(call.a)

\* VARCHAR_length() is the length of every text that concatenation makes.
LengthsAdd ==
  Is(VARCHAR, {"concat"}) =>
    VARCHAR_length(call.res) = VARCHAR_length(call.a) + VARCHAR_length(call.b)

\* A text survives what is done to it: input and casts add and take away spaces
\* at its end only, and joined texts have the sum of their lengths, right up to
\* the largest length that a field can have.
TextKept == InputKeepsText /\ CastsInvert /\ LengthsAdd

\* How far a CHAR is padded never decides a comparison: it comes out as on the
\* VARCHARs that an implicit cast makes of the operands.
PaddingInvisible ==
  \A ty \in {CHAR, CHAR_ci} :
    Is(ty, CompareOps) =>
      LET a == CHAR_to_VARCHAR(call.a, 0)
          wide == Pad(call.b, Len(call.b) + 2)
          varchar == IF ty = CHAR THEN VARCHAR ELSE VARCHAR_ci
      IN /\ call.res = TextCompare(ty, call.op, call.a, wide)
         /\ call.res = TextCompare(varchar, call.op, a, CHAR_to_VARCHAR(wide, 0))

\* The order that ignores case is an order, and agrees with the equality that
\* does, although the two are computed apart: eq_ci holds if the texts are the
\* same but for case, and otherwise exactly one of lt_ci and gt_ci; and lt_ci
\* passes over a third text.
OrderIgnoresCase ==
  \A ty \in {VARCHAR_ci, CHAR_ci} : Is(ty, {"lt"}) =>
    LET a == call.a
        b == call.b
        Folded(s) == [i \in DOMAIN Operand(ty, s) |-> Lower(Operand(ty, s)[i])]
        R(op, s, t) == TextCompare(ty, op, s, t) = 1
    IN /\ R("eq", a, b) <=> Folded(a) = Folded(b)
       /\ R("eq", a, b) <=> R("le", a, b) /\ R("ge", a, b)
       /\ R("ne", a, b) <=> R("lt", a, b) # R("gt", a, b)
       /\ R("lt", a, b) = R("gt", b, a)
       /\ call.res = 1 => \A c \in Texts(MaxPair) : R("lt", b, c) => R("lt", a, c)

\* NULL stands for a truth value that is not known: AND, OR and NOT answer what
\* they would answer whichever it is, and NULL only when that differs, on
\* either side; so the laws that rewrite conditions hold for NULL too.
UnknownsRight ==
  Is(BOOL, {"or", "and", "not"}) =>
    LET Known(x) == IF x = Null THEN {0, 1} ELSE {x}
        answers == {CASE call.op = "or"  -> Truth(1 \in {x, y})
                      [] call.op = "and" -> Truth(0 \notin {x, y})
                      [] call.op = "not" -> 1 - x : x \in Known(call.a), y \in Known(call.b)}
    IN /\ call.res = IF answers = {0, 1} THEN Null ELSE CHOOSE x \in answers : TRUE
       /\ call.op = "or" =>
            BOOL_not(call.res) = BOOL_and(BOOL_not(call.a), BOOL_not(call.b))

\* VARCHAR_length() is the length of the text.  The code does not keep this:
\* input and casts take a type parameter that an INT2 cannot hold, and the
\* length of the text they make is then cut to 16 bits.
LengthRight == Is(VARCHAR, {"length"}) => call.res = Len(call.a)
=============================================================================
