-------------------------- MODULE VolatileCatFile --------------------------
(***************************************************************************)
(* One in-memory catalog file of VolatileCatCache (InmemFile) and the      *)
(* iterators over it.  Records are appended to a byte array at MAXALIGNed  *)
(* offsets; an update that does not fit in the space of the old record     *)
(* marks it invalid and appends the new one.  Iterators keep two 16-bit    *)
(* indexes, so the arithmetic on them is modulo IdxMod.                    *)
(***************************************************************************)
EXTENDS Integers, Sequences

CONSTANTS
  Iters,       \* the iterators a caller may have at the same time
  IdxMod,      \* 2^16 in the code
  Alignment,   \* MAXALIGN's unit
  Lens,        \* the lengths a record may have
  Vals,        \* what a byte of a record may hold
  Zero         \* a byte that no record was copied to

ASSUME VolatileCatFileAssumption ==
  /\ IdxMod \in Nat /\ IdxMod >= 2
  /\ Alignment \in Nat \ {0}
  /\ Lens \subseteq Nat \ {0}
  /\ Zero \notin Vals

VARIABLES
  m_valid, m_offsets, m_bytes,   \* the file
  iter,       \* the iterators; on: the last NextCatEntry() returned true
  \* History: the entry and the record that each slot was last written with,
  \* and the entries an iterator has found at its start and returned since.
  slot, start, seen

vars == <<m_valid, m_offsets, m_bytes, iter, slot, start, seen>>

file == <<m_valid, m_offsets, m_bytes, slot>>

Records == [val : Vals, len : Lens]

\* EndIterateCatEntry() leaves an iterator without a file.
NoIter == [open |-> FALSE, nextidx |-> 0, endidx |-> 0, on |-> FALSE]

MAXALIGN(n) == ((n + Alignment - 1) \div Alignment) * Alignment

\* The largest number of records: the iterators need one more index, for
\* "past the end".
EveryIndex == IdxMod - 1                                             \* mutant
Limit == IdxMod - 2

IsFull == Len(m_offsets) >= Limit

EntriesIn(valid, slots) == {slots[i].id : i \in {j \in DOMAIN valid : valid[j]}}

Init ==
  /\ m_valid = <<>> /\ m_offsets = <<>> /\ m_bytes = <<>> /\ slot = <<>>
  /\ iter = [it \in Iters |-> NoIter]
  /\ start = [it \in Iters |-> {}]
  /\ seen = [it \in Iters |-> {}]

-----------------------------------------------------------------------------
\* memcpy of rec to bytes[offset ..].
Copied(bytes, offset, rec) ==
  [b \in DOMAIN bytes |->
     IF b \in offset + 1 .. offset + rec.len THEN rec.val ELSE bytes[b]]

\* resize() of the byte array, with its new bytes set to zero.
Resized(bytes, size) ==
  [b \in 1 .. size |-> IF b \in DOMAIN bytes THEN bytes[b] ELSE Zero]

NewSize(rec) == MAXALIGN(Len(m_bytes) + rec.len)

\* The new slot goes behind the slots whose valid flags are given.
AppendTo(valid, id, rec) ==
  LET offset == Len(m_bytes)
  IN /\ m_valid' = Append(valid, TRUE)
     /\ m_offsets' = Append(m_offsets, offset)
     /\ m_bytes' = Copied(Resized(m_bytes, NewSize(rec)), offset, rec)
     /\ slot' = Append(slot, [id |-> id, rec |-> rec])

\* A full file makes AppendRecord() throw before it has changed anything.
AppendRecord(rec) ==
  /\ ~IsFull
  /\ AppendTo(m_valid, Len(slot) + 1, rec)
  /\ UNCHANGED <<iter, start, seen>>

-----------------------------------------------------------------------------
\* from: the entries the iteration should return.
StartAt(it, idx, from) ==
  /\ ~iter[it].open
  /\ iter' = [iter EXCEPT ![it] =
                [open |-> TRUE, nextidx |-> idx,
                 endidx |-> Len(m_offsets) % IdxMod, on |-> FALSE]]
  /\ start' = [start EXCEPT ![it] = from]
  /\ seen' = [seen EXCEPT ![it] = {}]
  /\ UNCHANGED file

MinSlotId == 1                                                       \* mutant
FirstIdx == 0

IterateCatEntry(it) == StartAt(it, FirstIdx, EntriesIn(m_valid, slot))

\* From the record ID of a record of this file.
IterateCatEntryFrom(it) ==
  \E sid \in 0 .. Len(m_offsets) - 1 :
    StartAt(it, sid,
            EntriesIn([i \in DOMAIN m_valid |-> m_valid[i] /\ i > sid], slot))

\* Where an iteration ends: at the records there were when it began.
EndIdx(it) == iter[it].endidx

AnySlot(i) == TRUE                                                   \* mutant
IsValid(i) == m_valid[i + 1]

\* The next valid record before the end of the iteration ...
NextFound(it) ==
  \E i \in iter[it].nextidx .. EndIdx(it) - 1 :
    /\ IsValid(i)
    /\ \A j \in iter[it].nextidx .. i - 1 : ~IsValid(j)
    /\ iter' = [iter EXCEPT ![it].nextidx = (i + 1) % IdxMod, ![it].on = TRUE]
    /\ seen' = [seen EXCEPT ![it] = @ \union {slot[i + 1].id}]

\* ... or none is left.
NextNone(it) ==
  /\ \A i \in iter[it].nextidx .. EndIdx(it) - 1 : ~IsValid(i)
  /\ iter' = [iter EXCEPT ![it].nextidx = (EndIdx(it) + 1) % IdxMod,
                          ![it].on = FALSE]
  /\ UNCHANGED seen

NextCatEntry(it) ==
  /\ iter[it].open
  /\ NextFound(it) \/ NextNone(it)
  /\ UNCHANGED <<file, start>>

EndIterateCatEntry(it) ==
  /\ iter[it].open
  /\ iter' = [iter EXCEPT ![it] = NoIter]
  /\ start' = [start EXCEPT ![it] = {}]
  /\ seen' = [seen EXCEPT ![it] = {}]
  /\ UNCHANGED file

-----------------------------------------------------------------------------
CurIdx(it) == iter[it].nextidx - 1

\* The bytes GetCurrentCatEntry() points to that belong to the record.
GetCurrentCatEntry(it) ==
  LET i == CurIdx(it) + 1
  IN SubSeq(m_bytes, m_offsets[i] + 1, m_offsets[i] + slot[i].rec.len)

GetCurrentCatEntryRecordId(it) == [sid |-> CurIdx(it)]

\* The space of slot i: up to the next record, or to the end of the file.
LengthToFileEnd(i) == Len(m_bytes) - m_offsets[i]                    \* mutant
LengthOf(i) ==
  IF i = Len(m_offsets) THEN Len(m_bytes) - m_offsets[i]
                        ELSE m_offsets[i + 1] - m_offsets[i]

UpdateInPlace(i, rec) ==
  /\ rec.len <= LengthOf(i)
  /\ m_bytes' = Copied(m_bytes, m_offsets[i], rec)
  /\ slot' = [slot EXCEPT ![i].rec = rec]
  /\ UNCHANGED <<m_valid, m_offsets>>

\* The old record is invalid before AppendRecord() is called; when the file is
\* full, that call throws and only this first half has happened.
UpdateMoves(i, rec) ==
  /\ rec.len > LengthOf(i)
  /\ ~IsFull
  /\ AppendTo([m_valid EXCEPT ![i] = FALSE], slot[i].id, rec)

UpdateFails(i, rec) ==
  /\ rec.len > LengthOf(i)
  /\ IsFull
  /\ m_valid' = [m_valid EXCEPT ![i] = FALSE]
  /\ UNCHANGED <<m_offsets, m_bytes, slot>>

\* Only FinishInitCatalog() updates records, and its iterator is then the only
\* one; it calls nothing but NextCatEntry() on that iterator afterwards.
UpdateCurrentCatEntry(it, rec) ==
  /\ iter[it].on
  /\ \A other \in Iters \ {it} : ~iter[other].open
  /\ LET i == CurIdx(it) + 1
     IN UpdateInPlace(i, rec) \/ UpdateMoves(i, rec) \/ UpdateFails(i, rec)
  /\ iter' = [iter EXCEPT ![it].on = FALSE]
  /\ UNCHANGED <<start, seen>>

Next ==
  \/ \E rec \in Records : AppendRecord(rec)
  \/ \E it \in Iters :
       \/ IterateCatEntry(it)
       \/ IterateCatEntryFrom(it)
       \/ NextCatEntry(it)
       \/ EndIterateCatEntry(it)
       \/ \E rec \in Records : UpdateCurrentCatEntry(it, rec)

Spec == Init /\ [][Next]_vars

-----------------------------------------------------------------------------
\* The three arrays fit together, records begin aligned and in order
\* (AppendRecord() asserts it) and iterator indexes are 16-bit numbers.
TypeOK ==
  /\ m_valid \in Seq(BOOLEAN)
  /\ m_offsets \in Seq(Nat)
  /\ m_bytes \in Seq(Vals \union {Zero})
  /\ slot \in Seq([id : Nat, rec : Records])
  /\ DOMAIN m_valid = DOMAIN m_offsets /\ DOMAIN slot = DOMAIN m_offsets
  /\ MAXALIGN(Len(m_bytes)) = Len(m_bytes)
  /\ iter \in [Iters -> [open : BOOLEAN, nextidx : 0 .. IdxMod - 1,
                         endidx : 0 .. IdxMod - 1, on : BOOLEAN]]
  /\ start \in [Iters -> SUBSET Nat]
  /\ seen \in [Iters -> SUBSET Nat]

\* Updating a record in place, and appending one, leaves every other record of
\* the file as it was written: a reader of a slot gets the bytes that were last
\* written to it.
RecordsIntact ==
  \A i \in DOMAIN m_offsets :
    \A b \in m_offsets[i] + 1 .. m_offsets[i] + slot[i].rec.len :
      b \in DOMAIN m_bytes /\ m_bytes[b] = slot[i].rec.val

\* The record under an iterator is a valid one of the file, for as long as the
\* caller may ask for it: the asserts of GetCurrentCatEntry() hold.
CurrentIsValid ==
  \A it \in Iters : iter[it].on =>
    CurIdx(it) + 1 \in DOMAIN m_valid /\ m_valid[CurIdx(it) + 1]

\* An iteration never returns an entry twice, not even one that its own updates
\* have moved to the end of the file, and not after it has ended.
\* FinishInitCatalog() treats a second appearance as a fatal error.
NoEntryTwice ==
  [][\A it \in Iters :
       iter'[it].on /\ iter'[it] # iter[it] =>
         slot[iter'[it].nextidx].id \notin seen[it]]_vars

\* An iteration that has ended has returned every entry there was when it
\* began: entries are not lost by the updates made on the way.
ScanComplete ==
  \A it \in Iters :
    iter[it].open /\ iter[it].nextidx > iter[it].endidx =>
      start[it] \subseteq seen[it]

\* VolatileCatCache.h on UpdateCurrentCatEntry(): "Updates the current catalog
\* entry pointed by the iterator".  Entries are never removed, so none may
\* disappear from the file.
EntriesKept ==
  [][EntriesIn(m_valid, slot) \subseteq EntriesIn(m_valid', slot')]_vars

\* The record ID of a record that exists is a valid one; tdb_base.h: slot 0 is
\* INVALID_SID.
RecordIdsValid ==
  \A it \in Iters : iter[it].on => GetCurrentCatEntryRecordId(it).sid # 0
=============================================================================
