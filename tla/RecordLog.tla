------------------------------ MODULE RecordLog ------------------------------
(* The append-only file of the Rust engine (rust/src/storage/format.rs and   *)
(* engine.rs): how records are laid out in it, and what the two readers,     *)
(* read_at and scan_all, get out of it.                                      *)
(*                                                                           *)
(* A file is its length in bytes and the records in it, each with the offset *)
(* it starts at; bytes that belong to no record are what an interrupted      *)
(* write_all left.                                                           *)
EXTENDS Integers, Sequences, FiniteSets

CONSTANTS Collections,  \* names of collections
          Ids,          \* record ids
          Values,       \* payloads
          Nothing,      \* no payload, no offset, no record
          NameLength,   \* bytes of a collection name and an id together
          Length        \* bytes of each payload

Documents == Collections \X Ids
MaybeValue == Values \cup {Nothing}

ASSUME DocumentsAssumption == Collections # {} /\ Ids # {}
ASSUME LengthAssumption == NameLength \in Nat /\ Length \in [Values -> Nat]

\* A delete is a record without payload, the tombstone.
Kinds  == {"insert", "update", "delete"}
Record == [kind : Kinds, doc : Documents, data : MaybeValue]
Placed == [kind : Kinds, doc : Documents, data : MaybeValue, at : Nat]
File   == [bytes : Nat, records : Seq(Placed)]

\* Nothing is the None of an Option, apart from every Some.
ASSUME NothingAssumption ==
  /\ Nothing \notin Values /\ Nothing \notin Nat
  /\ Nothing \notin Placed /\ Nothing \notin File
  /\ Nothing \notin [Ids -> MaybeValue]

EmptyFile == [bytes |-> 0, records |-> << >>]

-----------------------------------------------------------------------------
\* The readers take RecordHeader::SIZE bytes for a header; to_bytes writes
\* fewer.
SIZE == 29
Written == 24

Body(r) == NameLength + (IF r.data = Nothing THEN 0 ELSE Length[r.data])

\* write_all of a record at the end of a file, and of bytes that are none.
AppendedTo(file, r) ==
  [bytes   |-> file.bytes + Written + Body(r),
   records |-> Append(file.records, [kind |-> r.kind, doc |-> r.doc,
                                     data |-> r.data, at |-> file.bytes])]
Spoilt(file, n) == [file EXCEPT !.bytes = @ + n]

NextHeaderToo(file, r) ==  \* mutant: the header behind the record is read as well
  r.at + SIZE + Body(r) + SIZE <= file.bytes

\* read_at: header and body of the record that starts at the offset, if the
\* file goes on that far.  At any other offset the magic byte is missing.
WholeFor(file, r) == r.at + SIZE + Body(r) <= file.bytes

RecordsAt(file, offset) ==
  {k \in DOMAIN file.records : /\ file.records[k].at = offset
                               /\ WholeFor(file, file.records[k])}
ReadAt(file, offset) ==
  IF RecordsAt(file, offset) = {} THEN Nothing
  ELSE file.records[CHOOSE k \in RecordsAt(file, offset) : TRUE]

\* scan_all: from offset 0 on, as long as a record starts where the one before
\* it was taken to end.
ScanStart(file, k) ==
  IF k = 1 THEN 0
  ELSE file.records[k-1].at + SIZE + Body(file.records[k-1])

Scannable(file, k) == /\ file.records[k].at = ScanStart(file, k)
                      /\ WholeFor(file, file.records[k])
ScanAll(file) ==
  LET good == {n \in 0..Len(file.records) : \A k \in 1..n : Scannable(file, k)}
  IN  SubSeq(file.records, 1, CHOOSE n \in good : \A m \in good : m <= n)

\* compact: of each document the last record, if it is no tombstone.
WithTombstones(records) ==  \* mutant: tombstones are kept
  {k \in DOMAIN records :
     \A j \in DOMAIN records : records[j].doc = records[k].doc => j <= k}

EveryVersion(records) ==  \* mutant: the records that were replaced are kept
  {k \in DOMAIN records : records[k].kind # "delete"}

LatestOf(records) ==
  {k \in DOMAIN records :
     /\ records[k].kind # "delete"
     /\ \A j \in DOMAIN records : records[j].doc = records[k].doc => j <= k}
=============================================================================
