----------------------------- MODULE InitReader -----------------------------
(***************************************************************************)
(* InitDataFileReader: next() takes a line of the init data file apart,    *)
(* token by token, and returns what kind of line it was; FindNextToken()   *)
(* goes through the line character by character.  A token in quotes may    *)
(* hold spaces, and quotes and backslashes behind a backslash; then it is  *)
(* put together in a buffer of ParseLimit characters.                      *)
(*                                                                         *)
(* A character is a string of length 1, but "D" stands for the word data   *)
(* and "T" for the word table; "1" is any digit, and the number of digits  *)
(* of a number is its value.                                               *)
(***************************************************************************)
EXTENDS Integers, Sequences, FiniteSets

CONSTANTS
  Files,        \* the init data files: sequences of lines
  Missing,      \* the file that cannot be opened
  ParseLimit    \* parse_limit

Quote == "\""
Backslash == "\\"
Blank == " "

ASSUME InitReaderAssumption == ParseLimit \in Nat \ {0}

VARIABLES
  file,          \* the file
  read,          \* the lines of it that getline() has returned
  m_last_state,
  m_schema,      \* the types of the fields, or NoSchema
  pc,            \* where next() is
  line,          \* the line, and its kind as far as it is known
  kind,
  start_pos,     \* where the next token begins
  fields,        \* the tokens behind the first one
  s, i,          \* FindNextToken(): where the token begins, and the next character
  parse_buf,     \* the characters in the buffer
  escaped,       \* cstr is parse_buf
  token,         \* what it returns
  delivered      \* the lines that next() has returned so far

reader == <<file, read, m_last_state, m_schema, delivered>>
parse == <<line, kind, fields>>
scan == <<s, i, parse_buf, escaped>>
vars == <<reader, pc, parse, start_pos, scan, token>>

NoSchema == <<>>
NoToken == <<"none">>

Init ==
  /\ file \in Files \union {Missing}
  /\ read = 0
  /\ m_last_state = "Table"
  /\ m_schema = NoSchema
  /\ pc = "idle"
  /\ line = <<>> /\ kind = "none" /\ fields = <<>>
  /\ start_pos = 0
  /\ s = 0 /\ i = 0 /\ parse_buf = <<>> /\ escaped = FALSE
  /\ token = NoToken
  /\ delivered = <<>>

\* str[k]
At(k) == line[k + 1]
Slice(a, b) == SubSeq(line, a + 1, b)
AtEnd(k) == k = Len(line)

\* absl::SimpleAtoi() passes over white space on both sides.
Digits(t) == {k \in DOMAIN t : t[k] = "1"}
IsNumber(t) ==
  /\ Digits(t) # {}
  /\ \A k \in DOMAIN t : t[k] \in {"1", Blank}
  /\ \A j, k \in Digits(t) : j .. k \subseteq Digits(t)
Value(t) == Cardinality(Digits(t))

\* The types: the input function of INT takes numbers only; whether the one of
\* TEXT takes a token, throws or returns NULL depends on the type parameter.
TypeName(n) == CASE n = 1 -> "INT" [] n = 2 -> "TEXT" [] OTHER -> "unknown"

Ended == {"Eof", "Error"}
Return(st) == m_last_state' = st /\ pc' = "idle"
Fail == Return("Error") /\ UNCHANGED delivered
Throw == pc' = "thrown" /\ UNCHANGED <<m_last_state, delivered>>
Crash == pc' = "crashed" /\ UNCHANGED <<m_last_state, delivered>>
Deliver(k, f) ==
  Return(k) /\ delivered' = Append(delivered, [kind |-> k, fields |-> f])

-----------------------------------------------------------------------------
\* next() again, after the end.
CallAgain == pc = "idle" /\ m_last_state \in Ended /\ UNCHANGED vars

\* getline() leaves the line empty at the end, where eof() holds, and if the
\* file could not be opened, where it does not.
Eof == file # Missing /\ read = Len(file)

ReadNothing ==
  /\ pc = "idle" /\ m_last_state \notin Ended
  /\ file # Missing => read = Len(file)
  /\ Return(IF Eof THEN "Eof" ELSE "Error")
  /\ UNCHANGED <<file, read, m_schema, delivered, parse, start_pos, scan, token>>

ReadEmptyLine ==
  /\ pc = "idle" /\ m_last_state \notin Ended
  /\ file # Missing /\ read < Len(file) /\ file[read + 1] = <<>>
  /\ read' = read + 1
  /\ Return(IF Eof THEN "Eof" ELSE "Error")
  /\ UNCHANGED <<file, m_schema, delivered, parse, start_pos, scan, token>>

ReadLine ==
  /\ pc = "idle" /\ m_last_state \notin Ended
  /\ file # Missing /\ read < Len(file) /\ file[read + 1] # <<>>
  /\ read' = read + 1
  /\ line' = file[read + 1] /\ kind' = "none" /\ fields' = <<>>
  /\ start_pos' = 0
  /\ pc' = "token"
  /\ UNCHANGED <<file, m_last_state, m_schema, delivered, scan, token>>

-----------------------------------------------------------------------------
Returns(t, pos) == token' = t /\ start_pos' = pos /\ pc' = "got"
ReturnsNone == Returns(NoToken, start_pos)

FindNextToken ==
  /\ pc = "token"
  /\ s' = start_pos /\ i' = start_pos + 1
  /\ parse_buf' = <<>> /\ escaped' = FALSE
  /\ \/ start_pos >= Len(line) /\ ReturnsNone
     \/ /\ start_pos < Len(line)
        /\ pc' = IF At(start_pos) = Quote THEN "quoted" ELSE "plain"
        /\ UNCHANGED <<start_pos, token>>
  /\ UNCHANGED <<reader, parse>>

PlainChar ==
  /\ pc = "plain"
  /\ \/ /\ i < Len(line) /\ At(i) # Blank
        /\ i' = i + 1
        /\ UNCHANGED <<start_pos, token, pc>>
     \/ /\ AtEnd(i)
        /\ Returns(Slice(s, i), i)
        /\ UNCHANGED i
     \/ /\ i < Len(line) /\ At(i) = Blank
        /\ Returns(Slice(s, i), i + 1)
        /\ UNCHANGED i
  /\ UNCHANGED <<reader, parse, s, parse_buf, escaped>>

InQuotes(c) == pc = "quoted" /\ i < Len(line) /\ At(i) = c

\* The closing quote.
QuotedText == IF escaped THEN parse_buf ELSE Slice(s + 1, i)

ClosingQuote ==
  /\ InQuotes(Quote)
  /\ \/ AtEnd(i + 1) /\ Returns(QuotedText, i + 1)
     \/ ~AtEnd(i + 1) /\ At(i + 1) = Blank /\ Returns(QuotedText, i + 2)
     \/ ~AtEnd(i + 1) /\ At(i + 1) # Blank /\ ReturnsNone
  /\ UNCHANGED <<reader, parse, scan>>

\* A backslash: what was read so far goes to the buffer.
Buffered == IF escaped THEN parse_buf ELSE Slice(s + 1, i)

\* A buffer with n characters takes no more.
FullLate(n) == n > ParseLimit                                        \* mutant
Full(n) == n >= ParseLimit

CanEscape ==
  /\ i + 1 < Len(line) /\ At(i + 1) \in {Backslash, Quote}
  /\ ~Full(Len(Buffered))

Escape ==
  /\ InQuotes(Backslash)
  /\ \/ /\ ~CanEscape
        /\ ReturnsNone
        /\ UNCHANGED scan
     \/ /\ CanEscape
        /\ parse_buf' = Append(Buffered, At(i + 1))
        /\ escaped' = TRUE
        /\ i' = i + 2
        /\ UNCHANGED <<s, pc, start_pos, token>>
  /\ UNCHANGED <<reader, parse>>

OnlyWithBuffer == IF escaped THEN i + 1 ELSE i                       \* mutant
NextChar == i + 1

BufferFull == escaped /\ Full(Len(parse_buf))

QuotedChar ==
  /\ pc = "quoted" /\ i < Len(line) /\ At(i) \notin {Quote, Backslash}
  /\ \/ /\ BufferFull
        /\ ReturnsNone
        /\ UNCHANGED scan
     \/ /\ ~BufferFull
        /\ parse_buf' = IF escaped THEN Append(parse_buf, At(i)) ELSE parse_buf
        /\ i' = NextChar
        /\ UNCHANGED <<s, escaped, pc, start_pos, token>>
  /\ UNCHANGED <<reader, parse>>

\* No closing quote: ASSERT(false) throws, or is not compiled.
Unterminated ==
  /\ pc = "quoted" /\ AtEnd(i)
  /\ \/ Throw /\ UNCHANGED <<start_pos, token>>
     \/ ReturnsNone /\ UNCHANGED <<m_last_state, delivered>>
  /\ UNCHANGED <<file, read, m_schema, parse, scan>>

-----------------------------------------------------------------------------
\* next() with the first token.
FirstToken ==
  /\ pc = "got" /\ kind = "none"
  /\ \/ /\ token = <<"D">> /\ kind' = "Data" /\ pc' = "data"
        /\ UNCHANGED <<m_last_state, delivered>>
     \/ /\ token = <<"T">> /\ kind' = "Table" /\ pc' = "token"
        /\ UNCHANGED <<m_last_state, delivered>>
     \/ token \notin {<<"D">>, <<"T">>} /\ Fail /\ UNCHANGED kind
  /\ UNCHANGED <<file, read, m_schema, line, fields, start_pos, scan, token>>

NotEnoughIsFine == FALSE                                             \* mutant
FieldMissing == Len(fields) # Len(m_schema)

\* The loop over the fields of a data line.  A line that is the first of its
\* file has no schema to go by.
DataLoop ==
  /\ pc = "data"
  /\ \/ m_schema = NoSchema /\ Crash
     \/ /\ m_schema # NoSchema /\ ~AtEnd(start_pos)
        /\ IF Len(fields) = Len(m_schema) THEN Fail
           ELSE pc' = "token" /\ UNCHANGED <<m_last_state, delivered>>
     \/ m_schema # NoSchema /\ AtEnd(start_pos) /\ FieldMissing /\ Fail
     \/ /\ m_schema # NoSchema /\ AtEnd(start_pos) /\ ~FieldMissing
        /\ \/ Deliver("Data", fields)
           \/ Fail            \* the record is too long
  /\ UNCHANGED <<file, read, m_schema, parse, start_pos, scan, token>>

DataField ==
  /\ pc = "got" /\ kind = "Data"
  /\ \/ token = NoToken /\ Fail /\ UNCHANGED fields
     \/ /\ token # NoToken
        /\ \/ /\ m_schema[Len(fields) + 1] = "TEXT" \/ IsNumber(token)
              /\ fields' = Append(fields, token)
              /\ pc' = "data"
              /\ UNCHANGED <<m_last_state, delivered>>
           \/ /\ m_schema[Len(fields) + 1] = "TEXT" \/ ~IsNumber(token)
              /\ Throw
              /\ UNCHANGED fields
           \/ m_schema[Len(fields) + 1] = "TEXT" /\ Fail /\ UNCHANGED fields
  /\ UNCHANGED <<file, read, m_schema, line, kind, start_pos, scan, token>>

\* The ID of the table, and the type and the type parameter of each field.
TableToken ==
  /\ pc = "got" /\ kind = "Table"
  /\ \/ (token = NoToken \/ ~IsNumber(token)) /\ Fail /\ UNCHANGED fields
     \/ /\ token # NoToken /\ IsNumber(token)
        /\ fields' = Append(fields, token)
        /\ pc' = IF Len(fields') % 2 = 1 /\ AtEnd(start_pos) THEN "table" ELSE "token"
        /\ UNCHANGED <<m_last_state, delivered>>
  /\ UNCHANGED <<file, read, m_schema, line, kind, start_pos, scan, token>>

\* The schema.  One without fields is a null pointer.  ComputeLayout() throws if
\* it does not find a type, or if a TEXT is too long; for a record that is too
\* long it returns without a layout, and the ASSERT behind it throws, or is not
\* compiled.
LineTypes == [k \in 1 .. Len(fields) \div 2 |-> TypeName(Value(fields[2 * k]))]
TypesIn == {LineTypes[k] : k \in DOMAIN LineTypes}

TableLine ==
  /\ pc = "table"
  /\ m_schema' = LineTypes
  /\ \/ LineTypes = NoSchema /\ Crash
     \/ TypesIn \intersect {"unknown", "TEXT"} # {} /\ Throw
     \/ LineTypes # NoSchema /\ "unknown" \notin TypesIn /\ Deliver("Table", fields)
  /\ UNCHANGED <<file, read, parse, start_pos, scan, token>>

NextLine ==
  \/ ReadNothing \/ ReadEmptyLine \/ ReadLine
  \/ FindNextToken \/ PlainChar
  \/ ClosingQuote \/ Escape \/ QuotedChar \/ Unterminated
  \/ FirstToken \/ DataLoop \/ DataField \/ TableToken \/ TableLine

\* An exception ends the reader, and so does a crash.
Gone == pc \in {"thrown", "crashed"} /\ UNCHANGED vars

Next == NextLine \/ CallAgain \/ Gone

\* next() runs to its end, and LoadInitFile() calls it until it returns Eof or
\* Error.
Spec == Init /\ [][Next]_vars /\ WF_vars(NextLine)

-----------------------------------------------------------------------------
(***************************************************************************)
(* What a token is, without going through it character by character.       *)
(***************************************************************************)
\* A character is escaped by an odd number of backslashes right before it.
IsEscaped(from, k) ==
  LET before == {j \in from + 1 .. k : \A l \in j .. k - 1 : At(l) = Backslash}
  IN Cardinality(before) % 2 = 0

IsOpen(from, k) == At(k) \in {Quote, Backslash} /\ ~IsEscaped(from, k)

Smallest(S) == CHOOSE k \in S : \A l \in S : k <= l

PlainEnd(from) == Smallest({k \in from + 1 .. Len(line) : AtEnd(k) \/ At(k) = Blank})

Closings(from) == {k \in from + 1 .. Len(line) - 1 : At(k) = Quote /\ IsOpen(from, k)}
Close(from) == Smallest(Closings(from))

\* The backslashes in front of the closing quote, and the text without them.
Escapes(from) ==
  {k \in from + 1 .. Close(from) - 1 : At(k) = Backslash /\ IsOpen(from, k)}
Text(from) ==
  LET Kept(k) == k \notin Escapes(from)
      places == SelectSeq([k \in 1 .. Close(from) - from - 1 |-> from + k], Kept)
  IN [k \in DOMAIN places |-> At(places[k])]

WellQuoted(from) ==
  /\ Closings(from) # {}
  /\ AtEnd(Close(from) + 1) \/ At(Close(from) + 1) = Blank
  /\ \A k \in Escapes(from) : At(k + 1) \in {Quote, Backslash}
  /\ Escapes(from) # {} => Len(Text(from)) <= ParseLimit

\* The position behind a token that ends before position k, and its blank.
Behind(k) == IF AtEnd(k) THEN k ELSE k + 1

-----------------------------------------------------------------------------
\* FindNextToken() returns the token that begins at its position, with every
\* escape undone and nothing lost at the change to the buffer, and goes on
\* behind the one blank that follows; it returns none exactly if there is none.
TokenExact ==
  pc = "got" =>
    IF s >= Len(line) THEN token = NoToken
    ELSE IF At(s) # Quote
      THEN token = Slice(s, PlainEnd(s)) /\ start_pos = Behind(PlainEnd(s))
      ELSE IF WellQuoted(s)
        THEN token = Text(s) /\ start_pos = Behind(Close(s) + 1)
        ELSE token = NoToken

LastTable(k) ==
  CHOOSE j \in 1 .. k : /\ delivered[j].kind = "Table"
                        /\ \A l \in j + 1 .. k : delivered[l].kind # "Table"

\* A data line that is returned has a value for each column of the last table
\* line before it, and no more; and next() returns Eof only when it has returned
\* every line of the file.
DeliveredRight ==
  /\ \A k \in DOMAIN delivered :
       delivered[k].kind = "Data" =>
         Len(delivered[LastTable(k)].fields) = 1 + 2 * Len(delivered[k].fields)
  /\ m_last_state = "Eof" => file # Missing /\ Len(delivered) = Len(file)

\* Whatever is in the file, the reader comes to its end.
ReaderEnds == <>(m_last_state \in Ended \/ pc \in {"thrown", "crashed"})

\* No file makes the reader use a null pointer.  The code does not keep this:
\* see a data line before the first table line, and a table without columns.
NeverCrashes == pc # "crashed"
=============================================================================
