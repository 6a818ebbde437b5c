--------------------------- MODULE WriteAheadLog ---------------------------
(* The write-ahead log of the Dart engine: the file _wal.log and the objects *)
(* of class WriteAheadLog that write it (engine/wal.dart).                   *)
(*                                                                           *)
(* The file is a sequence of cells, each as wide as one serialised entry.  A *)
(* cell holds an entry, or Torn: bytes that _deserializeEntry rejects (half  *)
(* an entry, the zeros of a hole, the rest of an entry another one was       *)
(* written over).  The checksum is taken to detect every such cell.          *)
EXTENDS Integers, Sequences, FiniteSets

CONSTANTS Collections,  \* names of collections
          Ids,          \* document ids
          Values,       \* documents: the values of the field maps
          None,         \* no document: the value of a delete, a missing id
          Torn,         \* bytes nothing can be decoded from
          Encoded,      \* the value read back after a value was serialised
          Handles       \* the WriteAheadLog objects of one process

VARIABLES walFile,      \* the cells of _wal.log
          sequence      \* _sequence, of each WriteAheadLog object

MaybeValue == Values \cup {None}

ASSUME NoneAssumption == None \notin Values
ASSUME HandlesAssumption == Handles \in Nat

\* Serialising maps a value the format has no type for to another one (a list
\* to null, a character to its low eight bits); what was read back is stable.
ASSUME EncodedAssumption ==
  /\ Encoded \in [MaybeValue -> MaybeValue]
  /\ Encoded[None] = None
  /\ \A v \in Values : Encoded[v] \in Values
  /\ \A v \in Values : Encoded[Encoded[v]] = Encoded[v]

Entry == [seq : Nat, coll : Collections, id : Ids, val : MaybeValue]

ASSUME TornAssumption == Torn \notin Entry

WalTypeOK == /\ walFile \in Seq(Entry \cup {Torn})
             /\ sequence \in [1..Handles -> Nat]

-----------------------------------------------------------------------------
\* readUncommitted: the entries before the first cell that cannot be decoded.
Readable(file) ==
  IF \A k \in DOMAIN file : file[k] # Torn
  THEN file
  ELSE SubSeq(file, 1, (CHOOSE k \in DOMAIN file :
                          /\ file[k] = Torn
                          /\ \A j \in 1..(k-1) : file[j] # Torn) - 1)

\* readUncommitted also moves a counter that is behind the file.
Bumped(n, entries) ==
  CHOOSE m \in {n} \cup {entries[k].seq : k \in DOMAIN entries} :
    \A x \in {n} \cup {entries[k].seq : k \in DOMAIN entries} : x <= m

\* The elements of a sequence at the given positions, in their order.  (What
\* SelectSeq yields, without its recursion: facts about it can be proved.)
Picked(s, positions) ==
  [n \in 1..Cardinality(positions) |->
     s[CHOOSE k \in positions : Cardinality({j \in positions : j <= k}) = n]]

RemainingAndLast(entries, n) ==  \* mutant: the committed entry stays
  Picked(entries, {k \in DOMAIN entries : entries[k].seq >= n})

OthersRemain(entries, n) ==  \* mutant: the entries of failed calls stay as well
  Picked(entries, {k \in DOMAIN entries : entries[k].seq # n})

\* commit keeps the entries with a greater number than the committed one.
Remaining(entries, n) ==
  Picked(entries, {k \in DOMAIN entries : entries[k].seq > n})

\* The outcomes of writing cells at an offset of the file through a
\* descriptor that was opened earlier: FileMode.append fixes the offset when
\* the file is opened, so the file may be shorter by now (the gap reads as
\* zeros) or longer (old cells are overwritten, and the cell after the last
\* one survives only if the new cells end where it starts).
WriteAt(file, offset, cells) ==
  LET end   == offset + Len(cells)
      size  == IF end > Len(file) THEN end ELSE Len(file)
      exact == [k \in 1..size |-> IF k > offset /\ k <= end
                                  THEN cells[k - offset]
                                  ELSE IF k <= Len(file) THEN file[k] ELSE Torn]
  IN  {exact} \cup (IF end < Len(file) THEN {[exact EXCEPT ![end + 1] = Torn]}
                                       ELSE {})

\* replay applied to the documents of collection c: the last entry of an id
\* wins; the values are the ones that come back from the bytes of the log.
Touched(entries) == {entries[k].coll : k \in DOMAIN entries}

ReplayedPuts(docs, entries, c) ==  \* mutant: deletes are not replayed
  [i \in Ids |->
     LET hits == {k \in DOMAIN entries : /\ entries[k].coll = c
                                         /\ entries[k].id = i
                                         /\ entries[k].val # None}
     IN  IF hits = {} THEN docs[i]
         ELSE Encoded[entries[CHOOSE k \in hits : \A j \in hits : j <= k].val]]

Replayed(docs, entries, c) ==
  [i \in Ids |->
     LET hits == {k \in DOMAIN entries : entries[k].coll = c /\ entries[k].id = i}
     IN  IF hits = {} THEN docs[i]
         ELSE Encoded[entries[CHOOSE k \in hits : \A j \in hits : j <= k].val]]

-----------------------------------------------------------------------------
\* logWrite and logDelete up to their await: the counter moves at once.
NextSequence(h) == sequence' = [sequence EXCEPT ![h] = @ + 1]

ResetBelow(h) == sequence' = [sequence EXCEPT ![h] = -1]  \* mutant

\* clear, after its await.
ResetSequence(h) == sequence' = [sequence EXCEPT ![h] = 0]
=============================================================================
