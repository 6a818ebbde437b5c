---------------------------- MODULE DatabaseProofs ----------------------------
(* Theorems about the Rust engine, for every value of its constants.         *)
EXTENDS Database, SequenceTheorems, FiniteSetTheorems, WellFoundedInduction, TLAPS

-----------------------------------------------------------------------------
(* Types.  The files the handle and the compaction work on are there, their  *)
(* records follow one another, and one thread compacts at a time.            *)

Sound(f) ==
  /\ \A k \in DOMAIN f.records :
       /\ f.records[k].kind = "delete" <=> f.records[k].data = Nothing
       /\ f.records[k].at + Written + Body(f.records[k]) <= f.bytes
  /\ \A j, k \in DOMAIN f.records :
       j < k => f.records[j].at + Written + Body(f.records[j]) <= f.records[k].at

SoundFiles == /\ file # Nothing => Sound(file)
              /\ compacted # Nothing => Sound(compacted)
              /\ orphan # Nothing => Sound(orphan)

Writing(t) == call[t].pc \in {"collect", "unexact", "unordered", "append", "primary",
                              "exact", "ordered", "notify"}

SoundCall(t) ==
  /\ Writing(t) => /\ call[t].kind = "delete" <=> call[t].data = Nothing
                   /\ call[t].doc \in Home[t]
  /\ call[t].pc \in {"exact", "ordered"} => call[t].kind # "delete"
  /\ call[t].pc \in {"collect", "unexact", "unordered"} => call[t].kind # "insert"
  /\ \A k \in DOMAIN call[t].records :
       call[t].records[k].kind = "delete" <=> call[t].records[k].data = Nothing
  /\ Compacting(t) => call[t].left \subseteq LatestOf(call[t].records)

SoundCalls == \A t \in Threads : SoundCall(t)

HasFiles ==
  /\ up \/ ~AllIdle => Handle # Nothing
  /\ orphan # Nothing => \E t \in Threads : call[t].pc \in {"compact_rename", "compact_reopen"}
  /\ \A t \in Threads :
       /\ call[t].pc \in {"compact_write", "compact_remove", "compact_rename"}
            => compacted # Nothing
       /\ call[t].pc = "compact_reopen" => file # Nothing
  /\ \A t, u \in Threads : Compacting(t) /\ Compacting(u) => t = u

\* Only a subscriber has events in its channel.
Listening == \A c \in Watched : mirror[c] = Nothing => queue[c] = << >>

TypeInv == TypeOK /\ SoundFiles /\ SoundCalls /\ HasFiles /\ Listening

-----------------------------------------------------------------------------
(* Facts about the operators on files and records.                           *)

LEMMA PayloadBytes ==
  /\ NameLength \in Nat
  /\ \A v \in MaybeValue : v # Nothing => v \in Values /\ Length[v] \in Nat
  /\ \A r \in Placed : Body(r) \in Nat
  BY LengthAssumption DEF MaybeValue, Placed, Body

LEMMA IdleType == Idle \in Call
<1>1. NoDocument \in Documents
  <2>1. PICK c \in Collections, i \in Ids : TRUE
    BY DocumentsAssumption
  <2>2. <<c, i>> \in Documents
    BY DEF Documents
  <2>3. QED
    BY <2>2 DEF NoDocument
<1>2. << >> \in Seq(Placed)
  OBVIOUS
<1>3. QED
  BY <1>1, <1>2 DEF Idle, Call, Kinds, MaybeValue

LEMMA EmptyFileSound == EmptyFile \in File /\ EmptyFile # Nothing /\ Sound(EmptyFile)
<1>1. << >> \in Seq(Placed) /\ DOMAIN << >> = {}
  OBVIOUS
<1>2. EmptyFile \in File /\ EmptyFile.records = << >>
  BY <1>1 DEF EmptyFile, File
<1>3. QED
  BY <1>1, <1>2, NothingAssumption DEF Sound

\* Anything with the fields of a record, as the operators take it.
IsRecord(r) == r.kind \in Kinds /\ r.doc \in Documents /\ r.data \in MaybeValue

LEMMA RecordsOfFile ==
  ASSUME NEW f \in File
  PROVE  /\ f.bytes \in Nat /\ f.records \in Seq(Placed) /\ Len(f.records) \in Nat
         /\ DOMAIN f.records = 1..Len(f.records)
         /\ \A k \in DOMAIN f.records : /\ f.records[k] \in Placed
                                       /\ f.records[k].at \in Nat
                                       /\ Body(f.records[k]) \in Nat
                                       /\ IsRecord(f.records[k])
<1>1. f.bytes \in Nat /\ f.records \in Seq(Placed)
  BY DEF File
<1>2. /\ Len(f.records) \in Nat /\ DOMAIN f.records = 1..Len(f.records)
      /\ \A k \in DOMAIN f.records : f.records[k] \in Placed
  BY <1>1
<1>3. QED
  BY <1>1, <1>2, PayloadBytes DEF Placed, IsRecord

LEMMA AppendedSound ==
  ASSUME NEW f \in File, NEW r, IsRecord(r)
  PROVE  /\ AppendedTo(f, r) \in File
         /\ AppendedTo(f, r) # Nothing
         /\ AppendedTo(f, r).bytes = f.bytes + Written + Body(r)
         /\ Len(AppendedTo(f, r).records) = Len(f.records) + 1
         /\ \A k \in DOMAIN f.records : AppendedTo(f, r).records[k] = f.records[k]
         /\ AppendedTo(f, r).records[Len(f.records) + 1] =
              [kind |-> r.kind, doc |-> r.doc, data |-> r.data, at |-> f.bytes]
         /\ Sound(f) /\ (r.kind = "delete" <=> r.data = Nothing)
              => Sound(AppendedTo(f, r))
<1> DEFINE new == [kind |-> r.kind, doc |-> r.doc, data |-> r.data, at |-> f.bytes]
<1> DEFINE g == AppendedTo(f, r)
<1>1. f.bytes \in Nat /\ f.records \in Seq(Placed) /\ Body(r) \in Nat
  BY LengthAssumption DEF File, IsRecord, Body, MaybeValue
<1>2. new \in Placed
  BY <1>1 DEF Placed, IsRecord
<1>3. g = [bytes |-> f.bytes + Written + Body(r), records |-> Append(f.records, new)]
  BY DEF AppendedTo
<1>4. Body(new) = Body(r)
  BY DEF Body
<1> HIDE DEF new
<1>5. /\ Append(f.records, new) \in Seq(Placed)
      /\ Len(Append(f.records, new)) = Len(f.records) + 1
      /\ \A k \in DOMAIN f.records : Append(f.records, new)[k] = f.records[k]
      /\ Append(f.records, new)[Len(f.records) + 1] = new
  BY <1>1, <1>2, AppendProperties
<1> HIDE DEF g
<1>6. g \in File /\ g.records = Append(f.records, new) /\ g.bytes = f.bytes + Written + Body(r)
  BY <1>1, <1>3, <1>5 DEF File, Written
<1>7. g # Nothing
  BY <1>6, NothingAssumption
<1>8. ASSUME Sound(f), r.kind = "delete" <=> r.data = Nothing PROVE Sound(g)
  <2>1. new.at = f.bytes /\ (new.kind = "delete" <=> new.data = Nothing)
    BY <1>8 DEF new
  <2>2. DOMAIN f.records = 1..Len(f.records) /\ DOMAIN g.records = 1..(Len(f.records) + 1)
    BY <1>1, <1>5, <1>6
  <2>3. \A k \in DOMAIN f.records : f.records[k].at \in Nat /\ Body(f.records[k]) \in Nat
    BY RecordsOfFile
  <2>4. ASSUME NEW k \in DOMAIN g.records
        PROVE  /\ g.records[k].kind = "delete" <=> g.records[k].data = Nothing
               /\ g.records[k].at + Written + Body(g.records[k]) <= g.bytes
    <3>1. CASE k \in DOMAIN f.records
      <4>1. g.records[k] = f.records[k]
        BY <1>5, <1>6, <3>1
      <4>2. /\ f.records[k].kind = "delete" <=> f.records[k].data = Nothing
            /\ f.records[k].at + Written + Body(f.records[k]) <= f.bytes
        BY <1>8, <3>1 DEF Sound
      <4>3. g.bytes = f.bytes + 24 + Body(r)
        BY <1>6 DEF Written
      <4>4. f.records[k].at \in Nat /\ Body(f.records[k]) \in Nat
        BY <2>3, <3>1
      <4>5. f.records[k].at + Written + Body(f.records[k]) <= g.bytes
        <5> DEFINE at   == f.records[k].at
                   body == Body(f.records[k])
                   more == Body(r)
        <5>1. at \in Nat /\ body \in Nat /\ more \in Nat /\ f.bytes \in Nat
          BY <1>1, <4>4
        <5>2. at + 24 + body <= f.bytes
          BY <4>2 DEF Written
        <5> HIDE DEF at, body, more
        <5>3. at + 24 + body <= f.bytes + 24 + more
          BY <5>1, <5>2
        <5>4. QED
          BY <4>3, <5>3 DEF Written, at, body, more
      <4>6. QED
        BY <4>1, <4>2, <4>5
    <3>2. CASE k = Len(f.records) + 1
      <4>1. g.records[k] = new
        BY <1>5, <1>6, <3>2
      <4>2. f.bytes + Written + Body(r) <= g.bytes
        BY <1>1, <1>6 DEF Written
      <4>3. QED
        BY <1>4, <2>1, <4>1, <4>2
    <3>3. QED
      BY <1>1, <2>2, <3>1, <3>2
  <2>5. ASSUME NEW j \in DOMAIN g.records, NEW k \in DOMAIN g.records, j < k
        PROVE  g.records[j].at + Written + Body(g.records[j]) <= g.records[k].at
    <3>1. j \in DOMAIN f.records /\ g.records[j] = f.records[j]
      BY <1>1, <1>5, <1>6, <2>2, <2>5
    <3>2. CASE k \in DOMAIN f.records
      BY <1>5, <1>6, <1>8, <2>5, <3>1, <3>2 DEF Sound
    <3>3. CASE k = Len(f.records) + 1
      BY <1>5, <1>6, <1>8, <2>1, <3>1, <3>3 DEF Sound
    <3>4. QED
      BY <1>1, <2>2, <3>2, <3>3
  <2>6. QED
    BY <2>4, <2>5 DEF Sound
<1>9. QED
  BY <1>3, <1>5, <1>6, <1>7, <1>8 DEF g, new

LEMMA SpoiltSound ==
  ASSUME NEW f \in File, NEW n \in Nat
  PROVE  /\ Spoilt(f, n) \in File
         /\ Spoilt(f, n) # Nothing
         /\ Spoilt(f, n).records = f.records
         /\ Sound(f) => Sound(Spoilt(f, n))
<1>1. /\ Spoilt(f, n) \in File /\ Spoilt(f, n).records = f.records
      /\ Spoilt(f, n).bytes = f.bytes + n
  BY DEF Spoilt, File
<1>2. ASSUME Sound(f) PROVE Sound(Spoilt(f, n))
  <2>1. \A k \in DOMAIN f.records :
          f.bytes \in Nat /\ f.records[k].at \in Nat /\ Body(f.records[k]) \in Nat
    BY RecordsOfFile
  <2>2. \A k \in DOMAIN f.records :
          f.records[k].at + Written + Body(f.records[k]) <= f.bytes + n
    BY <1>2, <2>1 DEF Sound, Written
  <2>3. QED
    BY <1>1, <1>2, <2>2 DEF Sound
<1>3. QED
  BY <1>1, <1>2, NothingAssumption

Less == {pair \in Nat \X Nat : pair[1] < pair[2]}

\* A set of naturals with a bound has a greatest element, if it has any.
LEMMA GreatestNatural ==
  ASSUME NEW bound \in Nat, NEW T \in SUBSET (0..bound), T # {}
  PROVE  \E m \in T : \A n \in T : n <= m
<1> DEFINE S == {bound - n : n \in T}
<1>1. IsWellFoundedOn(Less, Nat)
  <2>1. IsWellFoundedOn(OpToRel(<, Nat), Nat)
    BY NatLessThanWellFounded
  <2>2. OpToRel(<, Nat) = Less
    BY DEF OpToRel, Less
  <2>3. QED
    BY <2>1, <2>2
<1>2. S \in SUBSET Nat /\ S # {}
  OBVIOUS
<1>3. PICK s \in S : \A n \in S : ~ (<<n, s>> \in Less)
  BY <1>1, <1>2, WFMin, Zenon
<1>4. PICK m \in T : s = bound - m
  BY <1>3
<1>5. ASSUME NEW n \in T, ~ (n <= m) PROVE FALSE
  <2>1. bound - n \in S /\ <<bound - n, s>> \in Less
    BY <1>4, <1>5 DEF Less
  <2>2. QED
    BY <1>3, <2>1
<1>6. QED
  BY <1>5

\* scan_all returns the records of the file up to one it does not find whole.
LEMMA ScanPrefix ==
  ASSUME NEW f \in File
  PROVE  /\ ScanAll(f) \in Seq(Placed)
         /\ Len(ScanAll(f)) <= Len(f.records)
         /\ \A k \in DOMAIN ScanAll(f) : k \in DOMAIN f.records /\ ScanAll(f)[k] = f.records[k]
         /\ \A k \in DOMAIN ScanAll(f) : Scannable(f, k)
         /\ Len(ScanAll(f)) < Len(f.records) => ~ Scannable(f, Len(ScanAll(f)) + 1)
<1> DEFINE good == {n \in 0..Len(f.records) : \A k \in 1..n : Scannable(f, k)}
<1> DEFINE most == CHOOSE n \in good : \A m \in good : m <= n
<1>1. f.records \in Seq(Placed) /\ Len(f.records) \in Nat
  BY DEF File
<1>2. good \in SUBSET (0..Len(f.records)) /\ 0 \in good
  BY <1>1
<1>3. \E n \in good : \A m \in good : m <= n
  BY ZenonT(40), <1>1, <1>2, GreatestNatural
<1>4. most \in good /\ \A m \in good : m <= most
  BY <1>3
<1>5. ScanAll(f) = SubSeq(f.records, 1, most)
  BY DEF ScanAll
<1>6. most \in 0..Len(f.records) /\ \A k \in 1..most : Scannable(f, k)
  BY <1>4
<1>7. ASSUME most < Len(f.records), Scannable(f, most + 1) PROVE FALSE
  <2>1. most + 1 \in good
    BY <1>1, <1>6, <1>7
  <2>2. QED
    BY SMTT(20), <1>4, <1>6, <2>1
<1> HIDE DEF most, good
<1>8. /\ SubSeq(f.records, 1, most) \in Seq(Placed)
      /\ Len(SubSeq(f.records, 1, most)) = most
      /\ \A k \in 1..most : SubSeq(f.records, 1, most)[k] = f.records[k]
  BY <1>1, <1>6
<1>9. QED
  BY <1>1, <1>5, <1>6, <1>7, <1>8

LEMMA OpenedSound ==
  ASSUME NEW f \in File \cup {Nothing}, f # Nothing => Sound(f)
  PROVE  /\ Opened(f) \in File /\ Opened(f) # Nothing /\ Sound(Opened(f))
         /\ f # Nothing => Opened(f) = f
  BY EmptyFileSound DEF Opened

-----------------------------------------------------------------------------
(* Frames.                                                                   *)

Others(t) == \A u \in Threads : u # t => call'[u] = call[u]

LEMMA CallFields ==
  ASSUME call \in [Threads -> Call], NEW t \in Threads
  PROVE  /\ \A new : Become(t, new) => Others(t) /\ call'[t] = new
         /\ \A new \in Call : Become(t, new) => call' \in [Threads -> Call]
         /\ \A step : Goto(t, step) => Others(t) /\ call'[t] = [call[t] EXCEPT !.pc = step]
<1>1. ASSUME NEW new, Become(t, new) PROVE Others(t) /\ call'[t] = new
  BY <1>1 DEF Become, Others
<1>2. ASSUME NEW new \in Call, Become(t, new) PROVE call' \in [Threads -> Call]
  BY <1>2 DEF Become
<1>3. ASSUME NEW step, Goto(t, step)
      PROVE  Others(t) /\ call'[t] = [call[t] EXCEPT !.pc = step]
  BY <1>1, <1>3 DEF Goto
<1>4. QED
  BY <1>1, <1>2, <1>3

\* The groups of variables of TypeOK.
DiskType == /\ file \in File \cup {Nothing}
            /\ compacted \in File \cup {Nothing}
            /\ orphan \in File \cup {Nothing}
            /\ writeOffset \in Nat
            /\ up \in BOOLEAN
IndexType == /\ primary \in [Documents -> Nat \cup {Nothing}]
             /\ exact \in SUBSET Entries /\ ordered \in SUBSET Entries
EventType == /\ queue \in [Watched -> Seq(Event)]
             /\ mirror \in [Watched -> [Ids -> MaybeValue] \cup {Nothing}]
             /\ missed \in SUBSET Watched
HistoryType == /\ acked \in [Documents -> MaybeValue]
               /\ trusted \in BOOLEAN
               /\ faults \in 0..MaxFaults

LEMMA TypeParts ==
  /\ TypeOK <=> /\ DiskType /\ IndexType /\ EventType /\ HistoryType
                /\ call \in [Threads -> Call]
  /\ TypeOK' <=> /\ DiskType' /\ IndexType' /\ EventType' /\ HistoryType'
                 /\ call' \in [Threads -> Call]
  BY DEF TypeOK, DiskType, IndexType, EventType, HistoryType

LEMMA Unchanged ==
  /\ DiskType /\ UNCHANGED <<disk, orphan, up, writeOffset>> => DiskType'
  /\ IndexType /\ UNCHANGED indexes => IndexType'
  /\ EventType /\ UNCHANGED events => EventType'
  /\ Listening /\ UNCHANGED events => Listening'
  /\ HistoryType /\ UNCHANGED history => HistoryType'
  BY DEF DiskType, IndexType, EventType, Listening, HistoryType, disk, indexes, events, history

\* Only one thread's record changes, and soundly.
LEMMA SoundCallsStep ==
  ASSUME SoundCalls, NEW t \in Threads, Others(t), SoundCall(t)'
  PROVE  SoundCalls'
  BY DEF SoundCalls, SoundCall, Writing, Compacting, Others

\* A step of one thread that leaves the files alone and does not take up a
\* compaction, or a part of it that needs another file.
LEMMA HasFilesStep ==
  ASSUME HasFiles, NEW t \in Threads, Others(t), UNCHANGED <<disk, orphan>>,
         up' => up \/ ~AllIdle,
         call'[t].pc # "idle" => up \/ ~AllIdle,
         Compacting(t)' => Compacting(t) \/ \A u \in Threads : ~Compacting(u),
         \A step \in {"compact_rename", "compact_reopen"} :
           call[t].pc = step \/ call'[t].pc = step => call'[t].pc = call[t].pc,
         call'[t].pc \in {"compact_write", "compact_remove"}
           => call[t].pc \in {"compact_write", "compact_remove"}
  PROVE  HasFiles'
<1>1. UNCHANGED <<file, compacted, orphan, Handle>>
  BY DEF disk, Handle
<1>2. up' \/ ~AllIdle' => up \/ ~AllIdle
  BY DEF Others, AllIdle, At
<1>3. orphan' # Nothing => \E u \in Threads : call'[u].pc \in {"compact_rename", "compact_reopen"}
  BY <1>1 DEF HasFiles, Others
<1>4. ASSUME NEW u \in Threads
      PROVE  /\ call'[u].pc \in {"compact_write", "compact_remove", "compact_rename"}
                  => compacted' # Nothing
             /\ call'[u].pc = "compact_reopen" => file' # Nothing
  BY <1>1 DEF HasFiles, Others
<1>5. ASSUME NEW u \in Threads, NEW w \in Threads, Compacting(u)', Compacting(w)'
      PROVE  u = w
  BY <1>5 DEF HasFiles, Others, Compacting
<1>6. QED
  BY <1>1, <1>2, <1>3, <1>4, <1>5 DEF HasFiles

\* A step of a call: files and history stay.
LEMMA CallStep ==
  ASSUME TypeInv, NEW t \in Threads, Others(t), call' \in [Threads -> Call],
         SoundCall(t)', UNCHANGED <<disk, orphan, up, writeOffset>>,
         IndexType', EventType', Listening', HistoryType',
         call'[t].pc # "idle" => up \/ ~AllIdle,
         Compacting(t)' => Compacting(t) \/ \A u \in Threads : ~Compacting(u),
         \A step \in {"compact_rename", "compact_reopen"} :
           call[t].pc = step \/ call'[t].pc = step => call'[t].pc = call[t].pc,
         call'[t].pc \in {"compact_write", "compact_remove"}
           => call[t].pc \in {"compact_write", "compact_remove"}
  PROVE  TypeInv'
<1>1. DiskType'
  BY TypeParts, Unchanged DEF TypeInv
<1>2. SoundFiles'
  BY DEF TypeInv, SoundFiles, disk
<1>3. HasFiles'
  BY HasFilesStep DEF TypeInv
<1>4. QED
  BY <1>1, <1>2, <1>3, SoundCallsStep, TypeParts DEF TypeInv

-----------------------------------------------------------------------------
(* The types, action by action.                                              *)

WriteSteps == {"collect", "unexact", "unordered", "append", "primary", "exact",
               "ordered", "notify"}

LEMMA WriteStep ==
  ASSUME TypeInv, NEW t \in Threads, NEW new \in Call, Become(t, new),
         UNCHANGED <<disk, orphan, up, writeOffset>>, IndexType', EventType', HistoryType',
         Listening',
         (At(t, "idle") /\ up) \/ call[t].pc \in WriteSteps,
         new.pc \in WriteSteps \cup {"idle"},
         new.pc # "idle" => /\ new.kind = "delete" <=> new.data = Nothing
                            /\ new.doc \in Home[t],
         new.pc \in {"exact", "ordered"} => new.kind # "delete",
         new.pc \in {"collect", "unexact", "unordered"} => new.kind # "insert",
         new.records \in {call[t].records, << >>}
  PROVE  TypeInv'
<1>1. Others(t) /\ call'[t] = new /\ call' \in [Threads -> Call]
  BY CallFields DEF TypeInv, TypeOK
<1>2. SoundCall(t)'
  <2>1. \A k \in DOMAIN new.records :
          new.records[k].kind = "delete" <=> new.records[k].data = Nothing
    BY DEF TypeInv, SoundCalls, SoundCall
  <2>2. QED
    BY <1>1, <2>1 DEF SoundCall, Writing, Compacting, WriteSteps
<1>3. new.pc # "idle" => up \/ ~AllIdle
  BY DEF WriteSteps, AllIdle, At
<1>4. QED
  BY <1>1, <1>2, <1>3, CallStep DEF WriteSteps, Compacting, At

LEMMA TypeBegin ==
  ASSUME TypeInv, NEW t \in Threads, NEW step \in {"collect", "append"}, NEW k \in Kinds,
         NEW d \in Documents, NEW v \in MaybeValue, k = "delete" <=> v = Nothing,
         step = "collect" => k # "insert",
         Begin(t, step, k, d, v)
  PROVE  TypeInv'
<1> DEFINE new == [Idle EXCEPT !.pc = step, !.kind = k, !.doc = d, !.data = v]
<1>1. /\ new \in Call /\ new.pc = step /\ new.kind = k /\ new.doc = d /\ new.data = v
      /\ new.records = << >>
  BY IdleType DEF Call, Idle
<1>2. Become(t, new) /\ d \in Home[t] /\ At(t, "idle") /\ up
  BY DEF Begin
<1> HIDE DEF new
<1>3. /\ IndexType' /\ EventType' /\ Listening' /\ HistoryType'
      /\ UNCHANGED <<disk, orphan, up, writeOffset>>
  BY TypeParts, Unchanged DEF Begin, TypeInv
<1>4. QED
  BY <1>1, <1>2, <1>3, WriteStep DEF WriteSteps

LEMMA TypeStart ==
  ASSUME TypeInv, NEW t \in Threads, NEW d \in Documents,
         \/ \E v \in Values : Put(t, d, v) \/ Update(t, d, v)
         \/ Delete(t, d)
  PROVE  TypeInv'
<1>1. \A v \in Values : v \in MaybeValue /\ v # Nothing
  BY NothingAssumption DEF MaybeValue
<1>2. Nothing \in MaybeValue
  BY DEF MaybeValue
<1>3. QED
  BY <1>1, <1>2, TypeBegin DEF Put, Update, Delete, Kinds

\* What a call under way has.
LEMMA CallType ==
  ASSUME TypeInv, NEW t \in Threads
  PROVE  /\ call[t] \in Call /\ call \in [Threads -> Call]
         /\ call[t].pc \in WriteSteps =>
              /\ call[t].kind = "delete" <=> call[t].data = Nothing
              /\ call[t].doc \in Home[t]
         /\ call[t].pc \in {"exact", "ordered"} => call[t].kind # "delete"
         /\ call[t].pc \in {"collect", "unexact", "unordered"} => call[t].kind # "insert"
         /\ call[t].doc \in Documents /\ call[t].kind \in Kinds
         /\ call[t].data \in MaybeValue /\ call[t].offset \in Nat
         /\ call[t].entries \in SUBSET Entries /\ call[t].current \in SUBSET Entries
         /\ call[t].records \in Seq(Placed)
         /\ call[t].doc[1] \in Collections /\ call[t].doc[2] \in Ids
         /\ call[t].doc = <<call[t].doc[1], call[t].doc[2]>>
<1>1. call[t] \in Call /\ SoundCall(t)
  BY DEF TypeInv, TypeOK, SoundCalls
<1>2. \A d \in Documents : d[1] \in Collections /\ d[2] \in Ids /\ d = <<d[1], d[2]>>
  BY DEF Documents
<1>3. QED
  BY <1>1, <1>2 DEF TypeInv, TypeOK, Call, SoundCall, Writing, WriteSteps

LEMMA TypeCollect ==
  ASSUME TypeInv, NEW t \in Threads, Collect(t)
  PROVE  TypeInv'
<1> DEFINE found == {e \in exact : e[1] = call[t].doc}
<1> DEFINE new == [call[t] EXCEPT !.pc = IF found = {} THEN AfterUnindex(t) ELSE "unexact",
                                  !.entries = found]
<1>1. found \in SUBSET Entries
  BY DEF TypeInv, TypeOK
<1>2. /\ new \in Call /\ new.pc \in {"append", "notify", "unexact"}
      /\ new.kind = call[t].kind /\ new.doc = call[t].doc /\ new.data = call[t].data
      /\ new.records = call[t].records
  BY ZenonT(40), <1>1, CallType DEF Call, AfterUnindex
<1>3. Become(t, new) /\ At(t, "collect")
  BY DEF Collect
<1> HIDE DEF new
<1>4. /\ IndexType' /\ EventType' /\ Listening' /\ HistoryType'
      /\ UNCHANGED <<disk, orphan, up, writeOffset>>
  BY TypeParts, Unchanged DEF Collect, TypeInv
<1>5. QED
  BY <1>2, <1>3, <1>4, CallType, WriteStep DEF WriteSteps, At

LEMMA TypeIndexSteps ==
  ASSUME TypeInv, NEW t \in Threads,
         UnindexExact(t) \/ UnindexOrdered(t) \/ IndexExact(t) \/ IndexOrdered(t)
  PROVE  TypeInv'
<1>1. /\ EventType' /\ Listening' /\ HistoryType' /\ UNCHANGED <<disk, orphan, up, writeOffset>>
      /\ call[t].pc \in {"unexact", "unordered", "exact", "ordered"}
  BY TypeParts, Unchanged
     DEF TypeInv, UnindexExact, UnindexOrdered, IndexExact, IndexOrdered, At
<1>2. ASSUME NEW new, Become(t, new), new \in Call,
             new.kind = call[t].kind, new.doc = call[t].doc, new.data = call[t].data,
             new.records = call[t].records,
             new.pc \in WriteSteps,
             new.pc \in {"exact", "ordered"} => call[t].pc \in {"exact", "ordered"},
             new.pc \in {"unexact", "unordered"} => call[t].pc \in {"unexact", "unordered"},
             new.pc # "collect",
             IndexType'
      PROVE  TypeInv'
  BY <1>1, <1>2, CallType, WriteStep DEF WriteSteps
<1>3. CASE UnindexExact(t)
  <2>1. PICK e \in call[t].entries :
          /\ exact' = exact \ {e}
          /\ Become(t, [call[t] EXCEPT !.pc = "unordered", !.current = {e},
                                       !.entries = @ \ {e}])
    BY <1>3 DEF UnindexExact
  <2> DEFINE new == [call[t] EXCEPT !.pc = "unordered", !.current = {e}, !.entries = @ \ {e}]
  <2>2. /\ new \in Call /\ new.pc = "unordered" /\ new.pc \in WriteSteps /\ new.kind = call[t].kind
        /\ new.doc = call[t].doc /\ new.data = call[t].data /\ new.records = call[t].records
    BY ZenonT(40), CallType DEF Call, WriteSteps
  <2>3. IndexType'
    BY <1>3, <2>1, CallType DEF UnindexExact, IndexType, TypeInv, TypeOK
  <2>4. Become(t, new) /\ call[t].pc = "unexact"
    BY <1>3, <2>1 DEF UnindexExact, At
  <2> HIDE DEF new
  <2>5. QED
    BY <1>2, <2>2, <2>3, <2>4
<1>4. CASE UnindexOrdered(t) \/ IndexOrdered(t)
  <2> DEFINE step == IF call[t].entries = {}
                     THEN IF UnindexOrdered(t) THEN AfterUnindex(t) ELSE "notify"
                     ELSE IF UnindexOrdered(t) THEN "unexact" ELSE "exact"
  <2> DEFINE new == [call[t] EXCEPT !.pc = step, !.current = {}]
  <2>1. Become(t, new)
    BY <1>4 DEF UnindexOrdered, IndexOrdered, At
  <2>2. /\ step \in {"append", "notify", "unexact", "exact"}
        /\ step = "exact" => call[t].pc = "ordered"
        /\ step = "unexact" => call[t].pc = "unordered"
    BY <1>4 DEF AfterUnindex, UnindexOrdered, IndexOrdered, At
  <2> HIDE DEF step
  <2>3. /\ new \in Call /\ new.pc = step /\ new.pc \in WriteSteps /\ new.kind = call[t].kind
        /\ new.doc = call[t].doc /\ new.data = call[t].data /\ new.records = call[t].records
    BY ZenonT(40), <2>2, CallType DEF Call, WriteSteps
  <2>4. IndexType'
    BY <1>4, CallType DEF UnindexOrdered, IndexOrdered, IndexType, TypeInv, TypeOK
  <2> HIDE DEF new
  <2>5. QED
    BY <1>2, <2>1, <2>2, <2>3, <2>4
<1>5. CASE IndexExact(t)
  <2>1. PICK e \in FirstOf(call[t].entries, call[t].data) :
          /\ exact' = exact \cup {e}
          /\ Become(t, [call[t] EXCEPT !.pc = "ordered", !.current = {e},
                                       !.entries = @ \ {e}])
    BY <1>5 DEF IndexExact
  <2> DEFINE new == [call[t] EXCEPT !.pc = "ordered", !.current = {e}, !.entries = @ \ {e}]
  <2>2. e \in call[t].entries
    BY <2>1 DEF FirstOf
  <2>3. /\ new \in Call /\ new.pc = "ordered" /\ new.pc \in WriteSteps /\ new.kind = call[t].kind
        /\ new.doc = call[t].doc /\ new.data = call[t].data /\ new.records = call[t].records
    BY ZenonT(40), <2>2, CallType DEF Call, WriteSteps
  <2>4. IndexType'
    BY <1>5, <2>1, <2>2, CallType DEF IndexExact, IndexType, TypeInv, TypeOK
  <2>5. Become(t, new) /\ call[t].pc = "exact"
    BY <1>5, <2>1 DEF IndexExact, At
  <2> HIDE DEF new
  <2>6. QED
    BY <1>2, <2>3, <2>4, <2>5
<1>6. QED
  BY <1>3, <1>4, <1>5

LEMMA EntriesOf ==
  \A d \in Documents, v \in MaybeValue : v # Nothing => EntriesFor(d, v) \in SUBSET Entries
<1> SUFFICES ASSUME NEW d \in Documents, NEW v \in MaybeValue, v # Nothing
             PROVE  EntriesFor(d, v) \in SUBSET Entries
  OBVIOUS
<1>1. v \in Values
  BY DEF MaybeValue
<1>2. EntriesFor(d, v) \in {EntriesFor(x, y) : x \in Documents, y \in Values}
  BY <1>1
<1>3. Entries = UNION {EntriesFor(x, y) : x \in Documents, y \in Values}
  BY DEF EntriesFor, Entries
<1>4. QED
  BY <1>2, <1>3

LEMMA TypeSetPrimary ==
  ASSUME TypeInv, NEW t \in Threads, SetPrimary(t)
  PROVE  TypeInv'
<1> DEFINE more == IF call[t].kind = "delete" THEN {}
                   ELSE EntriesFor(call[t].doc, call[t].data)
<1> DEFINE step == IF call[t].kind = "delete" THEN "collect"
                   ELSE IF more = {} THEN "notify" ELSE "exact"
<1> DEFINE new == [call[t] EXCEPT !.entries = more, !.pc = step]
<1>1. At(t, "primary") /\ Become(t, new)
  BY DEF SetPrimary
<1>2. call[t].pc \in WriteSteps
  BY <1>1 DEF At, WriteSteps
<1>3. more \in SUBSET Entries
  BY <1>2, CallType, EntriesOf
<1>4. /\ step \in WriteSteps /\ step \notin {"ordered", "unexact", "unordered"}
      /\ step = "exact" => call[t].kind # "delete"
      /\ step = "collect" => call[t].kind # "insert"
  BY DEF WriteSteps
<1> HIDE DEF more, step
<1>5. /\ new \in Call /\ new.pc = step /\ new.kind = call[t].kind
      /\ new.doc = call[t].doc /\ new.data = call[t].data /\ new.records = call[t].records
  BY ZenonT(40), <1>3, <1>4, CallType DEF Call, WriteSteps
<1> HIDE DEF new
<1>6. primary' \in [Documents -> Nat \cup {Nothing}]
  BY CallType DEF SetPrimary, NewOffset, TypeInv, TypeOK
<1>7. IndexType'
  BY <1>6 DEF SetPrimary, TypeInv, TypeOK, IndexType
<1>8. /\ EventType' /\ Listening' /\ HistoryType'
      /\ UNCHANGED <<disk, orphan, up, writeOffset>>
  BY TypeParts, Unchanged DEF SetPrimary, TypeInv
<1>9. QED
  BY <1>1, <1>2, <1>4, <1>5, <1>7, <1>8, CallType, WriteStep

LEMMA TypeNotify ==
  ASSUME TypeInv, NEW t \in Threads, Notify(t)
  PROVE  TypeInv'
<1> DEFINE e == [doc |-> call[t].doc, data |-> call[t].data]
<1>1. e \in Event
  BY CallType DEF Event
<1>2. EventType' /\ Listening'
  <2>1. EventType /\ Listening
    BY TypeParts DEF TypeInv
  <2>2. \A c \in Watched : Append(queue[c], e) \in Seq(Event)
    BY <1>1, <2>1 DEF EventType
  <2>3. queue' \in [Watched -> Seq(Event)] /\ missed' \in SUBSET Watched
    BY <2>1, <2>2 DEF Notify, TrySend, Subscribed, EventType
  <2>4. \A c \in Watched : queue'[c] # queue[c] => mirror[c] # Nothing
    BY <2>1 DEF Notify, TrySend, Subscribed, EventType
  <2>5. QED
    BY <2>1, <2>3, <2>4 DEF EventType, Listening, Notify
<1>3. HistoryType'
  BY CallType DEF Notify, TypeInv, TypeOK, HistoryType
<1>4. IndexType' /\ UNCHANGED <<disk, orphan, up, writeOffset>> /\ Become(t, Idle) /\ At(t, "notify")
  BY TypeParts, Unchanged DEF Notify, TypeInv
<1>5. QED
  BY <1>2, <1>3, <1>4, IdleType, CallType, WriteStep DEF Idle, At, WriteSteps

LEMMA TypeSubscribers ==
  ASSUME TypeInv, NEW c \in Watched, Subscribe(c) \/ Unsubscribe(c) \/ Receive(c)
  PROVE  TypeInv'
<1>1. UNCHANGED <<disk, orphan, up, writeOffset, indexes, call, history>>
  BY DEF Subscribe, Unsubscribe, Receive
<1>2. EventType
  BY TypeParts DEF TypeInv
<1>3. ASSUME Subscribe(c) PROVE EventType' /\ Listening'
  <2>1. c \in Collections
    BY ThreadsAssumption
  <2>2. [i \in Ids |-> acked[<<c, i>>]] \in [Ids -> MaybeValue]
    BY <2>1 DEF TypeInv, TypeOK, Documents
  <2>3. EventType'
    BY <1>2, <1>3, <2>2 DEF Subscribe, EventType
  <2>4. \A w \in Watched : w # c => mirror'[w] = mirror[w]
    BY <1>2, <1>3 DEF Subscribe, EventType
  <2>5. mirror'[c] # Nothing
    BY <1>2, <1>3, <2>2, NothingAssumption DEF Subscribe, EventType
  <2>6. QED
    BY <1>3, <2>3, <2>4, <2>5 DEF Subscribe, Listening, TypeInv
<1>4. ASSUME Unsubscribe(c) PROVE EventType' /\ Listening'
  <2>1. << >> \in Seq(Event)
    OBVIOUS
  <2>2. EventType'
    BY <1>2, <1>4, <2>1 DEF Unsubscribe, EventType
  <2>3. \A w \in Watched : /\ w # c => mirror'[w] = mirror[w] /\ queue'[w] = queue[w]
                           /\ w = c => queue'[w] = << >>
    BY <1>2, <1>4 DEF Unsubscribe, EventType
  <2>4. QED
    BY <2>2, <2>3 DEF Listening, TypeInv
<1>5. ASSUME Receive(c) PROVE EventType' /\ Listening'
  <2> DEFINE e == Head(queue[c])
  <2>1. queue[c] \in Seq(Event) /\ queue[c] # << >>
    BY <1>2, <1>5 DEF EventType, Receive
  <2>2. e \in Event /\ Tail(queue[c]) \in Seq(Event)
    BY <2>1, HeadTailProperties
  <2>3. e.data \in MaybeValue
    BY <2>2 DEF Event
  <2>4. mirror[c] \in [Ids -> MaybeValue]
    BY <1>2, <2>1 DEF EventType, Listening, TypeInv
  <2>5. /\ mirror' = [mirror EXCEPT ![c] = [mirror[c] EXCEPT ![e.doc[2]] = e.data]]
        /\ queue' = [queue EXCEPT ![c] = Tail(queue[c])] /\ missed' = missed
    BY <1>5 DEF Receive
  <2> HIDE DEF e
  <2>6. [mirror[c] EXCEPT ![e.doc[2]] = e.data] \in [Ids -> MaybeValue]
    BY <2>3, <2>4
  <2>7. EventType'
    BY <1>2, <2>2, <2>5, <2>6 DEF EventType
  <2>8. \A w \in Watched : /\ w # c => mirror'[w] = mirror[w] /\ queue'[w] = queue[w]
                           /\ w = c => mirror'[w] # Nothing
    BY <1>2, <2>5, <2>6, NothingAssumption DEF EventType
  <2>9. QED
    BY <2>7, <2>8 DEF Listening, TypeInv
<1>6. EventType' /\ Listening'
  BY <1>3, <1>4, <1>5
<1>7. DiskType' /\ IndexType' /\ HistoryType' /\ call' \in [Threads -> Call]
  BY <1>1, TypeParts, Unchanged DEF TypeInv
<1>8. SoundFiles' /\ SoundCalls' /\ HasFiles'
  BY <1>1 DEF TypeInv, SoundFiles, SoundCalls, SoundCall, Writing, Compacting, HasFiles,
              AllIdle, At, Handle, disk
<1>9. QED
  BY <1>6, <1>7, <1>8, TypeParts DEF TypeInv

\* The file the handle has open.
LEMMA HandleSound ==
  ASSUME TypeInv
  PROVE  /\ Handle \in File \cup {Nothing}
         /\ Handle # Nothing => Handle \in File /\ Sound(Handle)
         /\ \A t \in Threads : up \/ ~At(t, "idle") => Handle # Nothing
  BY DEF TypeInv, TypeOK, SoundFiles, HasFiles, Handle, AllIdle

LEMMA ToHandleSound ==
  ASSUME TypeInv, Handle # Nothing, NEW new \in File, Sound(new), ToHandle(new),
         UNCHANGED compacted
  PROVE  /\ file' \in File \cup {Nothing} /\ compacted' \in File \cup {Nothing}
         /\ orphan' \in File \cup {Nothing}
         /\ SoundFiles' /\ Handle' = new
         /\ orphan' = Nothing <=> orphan = Nothing
         /\ file' = Nothing <=> file = Nothing
  BY NothingAssumption DEF ToHandle, TypeInv, TypeOK, SoundFiles, Handle

LEMMA TypeAppendRecord ==
  ASSUME TypeInv, NEW t \in Threads, AppendRecord(t)
  PROVE  TypeInv'
<1> DEFINE new == AppendedTo(Handle, RecordOf(t))
<1>1. /\ At(t, "append") /\ ToHandle(new) /\ writeOffset' = writeOffset + Written + Body(RecordOf(t))
      /\ Become(t, [call[t] EXCEPT !.pc = "primary", !.offset = writeOffset])
      /\ UNCHANGED <<compacted, up, indexes, events, history>>
  BY DEF AppendRecord
<1>2. Handle \in File /\ Sound(Handle) /\ Handle # Nothing
  BY <1>1, HandleSound DEF At
<1>3. /\ RecordOf(t).kind = call[t].kind /\ RecordOf(t).doc = call[t].doc
      /\ RecordOf(t).data = call[t].data
  BY DEF RecordOf
<1>4. IsRecord(RecordOf(t)) /\ Body(RecordOf(t)) \in Nat
  BY <1>3, CallType, LengthAssumption DEF IsRecord, Body, MaybeValue
<1>5. RecordOf(t).kind = "delete" <=> RecordOf(t).data = Nothing
  BY <1>1, <1>3, CallType DEF At, WriteSteps
<1>6. new \in File /\ Sound(new)
  BY <1>2, <1>4, <1>5, AppendedSound
<1> HIDE DEF new
<1>7. /\ file' \in File \cup {Nothing} /\ compacted' \in File \cup {Nothing}
      /\ orphan' \in File \cup {Nothing}
      /\ SoundFiles' /\ Handle' # Nothing
      /\ orphan' = Nothing <=> orphan = Nothing
      /\ file' = Nothing <=> file = Nothing
  BY <1>1, <1>2, <1>6, ToHandleSound, NothingAssumption
<1>8. writeOffset' \in Nat
  BY <1>1, <1>4 DEF TypeInv, TypeOK, Written
<1>9. DiskType' /\ IndexType' /\ EventType' /\ Listening' /\ HistoryType'
  BY <1>1, <1>7, <1>8, TypeParts, Unchanged DEF TypeInv, DiskType
<1> DEFINE now == [call[t] EXCEPT !.pc = "primary", !.offset = writeOffset]
<1>10. /\ now \in Call /\ now.pc = "primary" /\ now.kind = call[t].kind
       /\ now.doc = call[t].doc /\ now.data = call[t].data /\ now.records = call[t].records
  BY ZenonT(40), CallType DEF Call, TypeInv, TypeOK
<1>11. Others(t) /\ call'[t] = now /\ call' \in [Threads -> Call]
  BY <1>1, <1>10, CallFields, CallType
<1> HIDE DEF now
<1>12. SoundCalls'
  <2>1. SoundCall(t)
    BY DEF TypeInv, SoundCalls
  <2>2. SoundCall(t)'
    BY <1>1, <1>10, <1>11, <2>1 DEF SoundCall, Writing, Compacting, At
  <2>3. QED
    BY <1>11, <2>2, SoundCallsStep DEF TypeInv
<1>13. HasFiles'
  BY <1>1, <1>7, <1>10, <1>11 DEF TypeInv, HasFiles, Others, Compacting, At
<1>14. QED
  BY <1>7, <1>9, <1>11, <1>12, <1>13, TypeParts DEF TypeInv

\* What a call that is given up leaves.
LEMMA IdleStep ==
  ASSUME TypeInv, NEW t \in Threads, Become(t, Idle)
  PROVE  /\ Others(t) /\ call'[t] = Idle /\ call' \in [Threads -> Call]
         /\ SoundCalls'
<1>1. Others(t) /\ call'[t] = Idle /\ call' \in [Threads -> Call]
  BY CallFields, CallType, IdleType
<1>2. SoundCall(t)'
  BY <1>1 DEF SoundCall, Idle, Writing, Compacting
<1>3. QED
  BY <1>1, <1>2, SoundCallsStep DEF TypeInv

LEMMA TypeAppendFails ==
  ASSUME TypeInv, NEW t \in Threads, AppendFails(t)
  PROVE  TypeInv'
<1>1. PICK n \in {0, TornLength} :
        /\ ToHandle(IF n = 0 THEN Handle ELSE Spoilt(Handle, n))
        /\ trusted' = (trusted /\ n = 0)
  BY DEF AppendFails
<1> DEFINE new == IF n = 0 THEN Handle ELSE Spoilt(Handle, n)
<1>2. /\ At(t, "append") /\ Become(t, Idle) /\ faults' = faults + 1 /\ faults < MaxFaults
      /\ UNCHANGED <<compacted, up, writeOffset, indexes, events, acked>>
  BY DEF AppendFails
<1>3. Handle \in File /\ Sound(Handle) /\ Handle # Nothing /\ n \in Nat
  BY <1>2, HandleSound, ThreadsAssumption DEF At
<1>4. new \in File /\ Sound(new)
  BY <1>3, SpoiltSound
<1> HIDE DEF new
<1>5. /\ file' \in File \cup {Nothing} /\ compacted' \in File \cup {Nothing}
      /\ orphan' \in File \cup {Nothing}
      /\ SoundFiles' /\ Handle' # Nothing
      /\ orphan' = Nothing <=> orphan = Nothing
      /\ file' = Nothing <=> file = Nothing
  <2>1. ToHandle(new)
    BY <1>1 DEF new
  <2>2. QED
    BY <1>2, <1>3, <1>4, <2>1, ToHandleSound, NothingAssumption
<1>6. DiskType' /\ IndexType' /\ EventType' /\ Listening'
  BY <1>2, <1>5, TypeParts, Unchanged DEF TypeInv, DiskType
<1>7. HistoryType'
  <2>1. acked' = acked /\ trusted' \in BOOLEAN /\ faults' \in 0..MaxFaults
    BY <1>1, <1>2, ThreadsAssumption DEF TypeInv, TypeOK
  <2>2. QED
    BY <2>1 DEF TypeInv, TypeOK, HistoryType
<1>8. Others(t) /\ call'[t] = Idle /\ call' \in [Threads -> Call] /\ SoundCalls'
  BY <1>2, IdleStep
<1>9. HasFiles'
  BY <1>2, <1>5, <1>8 DEF TypeInv, HasFiles, Others, Compacting, At, Idle
<1>10. QED
  BY <1>5, <1>6, <1>7, <1>8, <1>9, TypeParts DEF TypeInv

\* What a scan returns, and which of its records compaction keeps.
LEMMA ScanSound ==
  ASSUME NEW f \in File, Sound(f)
  PROVE  /\ ScanAll(f) \in Seq(Placed)
         /\ \A k \in DOMAIN ScanAll(f) :
              ScanAll(f)[k].kind = "delete" <=> ScanAll(f)[k].data = Nothing
         /\ LatestOf(ScanAll(f)) \in SUBSET Nat
  BY ScanPrefix DEF Sound, LatestOf

LEMMA TypeCompact ==
  ASSUME TypeInv, NEW t \in Threads, Compact(t)
  PROVE  TypeInv'
<1> DEFINE records == ScanAll(Handle)
<1> DEFINE new == [Idle EXCEPT !.pc = "compact_open", !.records = records,
                               !.left = LatestOf(records)]
<1>1. /\ At(t, "idle") /\ up /\ Become(t, new)
      /\ \A u \in Threads : ~Compacting(u)
  BY DEF Compact
<1>2. Handle \in File /\ Sound(Handle)
  BY <1>1, HandleSound
<1>3. /\ records \in Seq(Placed) /\ LatestOf(records) \in SUBSET Nat
      /\ \A k \in DOMAIN records : records[k].kind = "delete" <=> records[k].data = Nothing
  BY <1>2, ScanSound
<1> HIDE DEF records
<1>4. /\ new \in Call /\ new.pc = "compact_open" /\ new.records = records
      /\ new.left = LatestOf(records)
  BY <1>3, IdleType DEF Call, Idle
<1>5. Others(t) /\ call'[t] = new /\ call' \in [Threads -> Call]
  BY <1>1, <1>4, CallFields, CallType
<1> HIDE DEF new
<1>6. SoundCall(t)'
  BY <1>3, <1>4, <1>5 DEF SoundCall, Writing
<1>7. /\ IndexType' /\ EventType' /\ Listening' /\ HistoryType'
      /\ UNCHANGED <<disk, orphan, up, writeOffset>>
  BY TypeParts, Unchanged DEF TypeInv, Compact
<1>8. QED
  BY <1>1, <1>4, <1>5, <1>6, <1>7, CallStep DEF At

LEMMA TypeCompactMeasure ==
  ASSUME TypeInv, NEW t \in Threads, CompactMeasure(t)
  PROVE  TypeInv'
<1> DEFINE new == [call[t] EXCEPT !.pc = "compact_resize", !.offset = Handle.bytes]
<1>1. At(t, "compact_measure") /\ Become(t, new)
  BY DEF CompactMeasure
<1>2. Handle.bytes \in Nat
  BY <1>1, HandleSound, RecordsOfFile DEF At
<1>3. /\ new \in Call /\ new.pc = "compact_resize" /\ new.records = call[t].records
      /\ new.left = call[t].left
  BY <1>2, CallType DEF Call
<1>4. Others(t) /\ call'[t] = new /\ call' \in [Threads -> Call]
  BY <1>1, <1>3, CallFields, CallType
<1> HIDE DEF new
<1>5. SoundCall(t)
  BY DEF TypeInv, SoundCalls
<1>6. SoundCall(t)' /\ Compacting(t)
  BY <1>1, <1>3, <1>4, <1>5 DEF SoundCall, Writing, Compacting, At
<1>7. /\ IndexType' /\ EventType' /\ Listening' /\ HistoryType'
      /\ UNCHANGED <<disk, orphan, up, writeOffset>>
  BY TypeParts, Unchanged DEF TypeInv, CompactMeasure
<1>8. ~AllIdle
  BY <1>1 DEF AllIdle, At
<1>9. QED
  BY <1>1, <1>3, <1>4, <1>6, <1>7, <1>8, CallStep DEF At

\* The record of a thread that goes on with a compaction.
LEMMA CompactGoesOn ==
  ASSUME TypeInv, NEW t \in Threads, Compacting(t),
         NEW step \in {"compact_write", "compact_remove", "compact_rename",
                       "compact_reopen", "compact_measure"},
         NEW left \in SUBSET call[t].left,
         Become(t, [call[t] EXCEPT !.pc = step, !.left = left])
  PROVE  /\ Others(t) /\ call' \in [Threads -> Call] /\ SoundCalls'
         /\ call'[t].pc = step /\ call'[t].left = left
         /\ call'[t].records = call[t].records
         /\ \A u \in Threads : Compacting(u) => u = t
         /\ \A u \in Threads : Compacting(u)' => u = t
         /\ Handle # Nothing
<1> DEFINE new == [call[t] EXCEPT !.pc = step, !.left = left]
<1>1. call[t].left \in SUBSET Nat
  BY CallType DEF Call
<1>2. /\ new \in Call /\ new.pc = step /\ new.left = left
      /\ new.records = call[t].records
  BY ZenonT(40), <1>1, CallType DEF Call
<1>3. Others(t) /\ call'[t] = new /\ call' \in [Threads -> Call]
  BY <1>2, CallFields, CallType
<1> HIDE DEF new
<1>4. SoundCall(t)
  BY DEF TypeInv, SoundCalls
<1>5. SoundCall(t)'
  BY <1>2, <1>3, <1>4 DEF SoundCall, Writing, Compacting
<1>6. \A u \in Threads : Compacting(u) => u = t
  BY DEF TypeInv, HasFiles
<1>7. Handle # Nothing
  BY HandleSound DEF Compacting, At
<1>8. QED
  BY <1>2, <1>3, <1>5, <1>6, <1>7, SoundCallsStep DEF TypeInv, Others, Compacting

LEMMA GotoIsBecome ==
  ASSUME TypeInv, NEW t \in Threads, NEW step, Goto(t, step)
  PROVE  Become(t, [call[t] EXCEPT !.pc = step, !.left = call[t].left])
<1>1. [call[t] EXCEPT !.pc = step] = [call[t] EXCEPT !.pc = step, !.left = call[t].left]
  BY CallType DEF Call
<1>2. QED
  BY <1>1 DEF Goto

LEMMA TypeCompactOpen ==
  ASSUME TypeInv, NEW t \in Threads, CompactOpen(t)
  PROVE  TypeInv'
<1>1. PICK step \in {"compact_write", "compact_remove"}, left \in SUBSET call[t].left :
        Become(t, [call[t] EXCEPT !.pc = step, !.left = left])
  <2>1. call[t].left \in SUBSET call[t].left
    OBVIOUS
  <2>2. QED
    BY <2>1, GotoIsBecome DEF CompactOpen
<1>0. /\ Compacting(t) /\ call[t].pc = "compact_open" /\ compacted' = EmptyFile
      /\ UNCHANGED <<file, orphan, up, writeOffset, indexes, events, history>>
  BY DEF CompactOpen, At, Compacting
<1>2. /\ Others(t) /\ call' \in [Threads -> Call] /\ SoundCalls'
      /\ call'[t].pc \in {"compact_write", "compact_remove"}
      /\ \A u \in Threads : Compacting(u)' => u = t
      /\ \A u \in Threads : Compacting(u) => u = t
      /\ Handle # Nothing
  BY <1>0, <1>1, CompactGoesOn
<1>3. DiskType' /\ IndexType' /\ EventType' /\ Listening' /\ HistoryType'
  BY <1>0, TypeParts, Unchanged, EmptyFileSound DEF TypeInv, DiskType
<1>4. SoundFiles'
  BY <1>0, EmptyFileSound DEF TypeInv, SoundFiles
<1>5. HasFiles'
  <2>1. Handle' = Handle /\ orphan = Nothing
    BY <1>0, <1>2 DEF Handle, TypeInv, HasFiles, Compacting
  <2>2. \A u \in Threads : u # t => call'[u].pc \notin {"compact_write", "compact_remove",
                                                        "compact_rename", "compact_reopen"}
    BY <1>2 DEF Compacting
  <2>3. QED
    BY <1>0, <1>2, <2>1, <2>2, EmptyFileSound DEF HasFiles
<1>6. QED
  BY <1>2, <1>3, <1>4, <1>5, TypeParts DEF TypeInv

LEMMA TypeCompactWrite ==
  ASSUME TypeInv, NEW t \in Threads, CompactWrite(t)
  PROVE  TypeInv'
<1>1. PICK k \in call[t].left :
        /\ compacted' = AppendedTo(compacted, call[t].records[k])
        /\ Become(t, [call[t] EXCEPT !.left = @ \ {k},
                                     !.pc = IF call[t].left = {k} THEN "compact_remove"
                                            ELSE "compact_write"])
  BY DEF CompactWrite
<1> DEFINE step == IF call[t].left = {k} THEN "compact_remove" ELSE "compact_write"
<1>2. /\ Compacting(t) /\ call[t].pc = "compact_write"
      /\ UNCHANGED <<file, orphan, up, writeOffset, indexes, events, history>>
  BY DEF CompactWrite, At, Compacting
<1>3. PICK next \in {"compact_write", "compact_remove"}, rest \in SUBSET call[t].left :
        Become(t, [call[t] EXCEPT !.pc = next, !.left = rest])
  <2>1. [call[t] EXCEPT !.left = @ \ {k}, !.pc = step]
          = [call[t] EXCEPT !.pc = step, !.left = call[t].left \ {k}]
    BY CallType DEF Call
  <2>2. step \in {"compact_write", "compact_remove"} /\ call[t].left \ {k} \in SUBSET call[t].left
    OBVIOUS
  <2>3. Become(t, [call[t] EXCEPT !.pc = step, !.left = call[t].left \ {k}])
    BY <1>1, <2>1
  <2> HIDE DEF step
  <2>4. QED
    BY <2>2, <2>3
<1>4. /\ Others(t) /\ call' \in [Threads -> Call] /\ SoundCalls'
      /\ call'[t].pc \in {"compact_write", "compact_remove"}
      /\ \A u \in Threads : Compacting(u)' => u = t
      /\ \A u \in Threads : Compacting(u) => u = t
      /\ Handle # Nothing
  BY <1>2, <1>3, CompactGoesOn
<1>5. k \in DOMAIN call[t].records
  BY <1>2 DEF TypeInv, SoundCalls, SoundCall, LatestOf
<1>6. /\ IsRecord(call[t].records[k])
      /\ call[t].records[k].kind = "delete" <=> call[t].records[k].data = Nothing
  <2>1. call[t].records[k] \in Placed
    BY <1>5, CallType
  <2>2. QED
    BY <1>5, <2>1 DEF Placed, IsRecord, TypeInv, SoundCalls, SoundCall
<1>7. compacted \in File /\ Sound(compacted)
  BY <1>2 DEF TypeInv, TypeOK, HasFiles, SoundFiles
<1>8. compacted' \in File /\ compacted' # Nothing /\ Sound(compacted')
  BY ZenonT(40), <1>1, <1>6, <1>7, AppendedSound
<1>9. DiskType' /\ IndexType' /\ EventType' /\ Listening' /\ HistoryType'
  BY <1>2, <1>8, TypeParts, Unchanged DEF TypeInv, DiskType
<1>10. SoundFiles'
  BY <1>2, <1>8 DEF TypeInv, SoundFiles, Sound
<1>11. HasFiles'
  <2>1. Handle' = Handle /\ orphan = Nothing
    BY <1>2, <1>4 DEF Handle, TypeInv, HasFiles, Compacting
  <2>2. \A u \in Threads : u # t => call'[u].pc \notin {"compact_write", "compact_remove",
                                                        "compact_rename", "compact_reopen"}
    BY <1>4 DEF Compacting
  <2>3. QED
    BY <1>2, <1>4, <1>8, <2>1, <2>2 DEF HasFiles
<1>12. QED
  BY <1>4, <1>9, <1>10, <1>11, TypeParts DEF TypeInv

LEMMA TypeCompactSwap ==
  ASSUME TypeInv, NEW t \in Threads,
         CompactRemove(t) \/ CompactRename(t) \/ CompactReopen(t)
  PROVE  TypeInv'
<1>1. /\ Compacting(t) /\ IndexType' /\ EventType' /\ Listening' /\ HistoryType'
      /\ UNCHANGED <<up, writeOffset>>
  BY TypeParts, Unchanged
     DEF TypeInv, HistoryType, CompactRemove, CompactRename, CompactReopen, At, Compacting, history
<1>2. PICK step \in {"compact_rename", "compact_reopen", "compact_measure"} :
        /\ Become(t, [call[t] EXCEPT !.pc = step, !.left = call[t].left])
        /\ CompactRemove(t) => step = "compact_rename"
        /\ CompactRename(t) => step = "compact_reopen"
        /\ CompactReopen(t) => step = "compact_measure"
  BY GotoIsBecome DEF CompactRemove, CompactRename, CompactReopen, At
<1>3. /\ Others(t) /\ call' \in [Threads -> Call] /\ SoundCalls'
      /\ call'[t].pc = step
      /\ \A u \in Threads : Compacting(u)' => u = t
      /\ \A u \in Threads : Compacting(u) => u = t
      /\ Handle # Nothing
  BY ZenonT(40), <1>1, <1>2, CompactGoesOn
<1>4. /\ DiskType' /\ SoundFiles'
  BY <1>1, <1>3, HandleSound
     DEF TypeInv, TypeOK, DiskType, SoundFiles, HasFiles, disk, CompactRemove, CompactRename, CompactReopen
<1>5. HasFiles'
  <2>1. \A u \in Threads : u # t => /\ call'[u] = call[u]
                                    /\ call'[u].pc \notin {"compact_write", "compact_remove",
                                                        "compact_rename", "compact_reopen"}
    BY <1>3 DEF Compacting, Others
  <2>2. CASE CompactRemove(t)
    <3>1. orphan' = Handle /\ orphan' # Nothing /\ Handle' = Handle /\ call'[t].pc = "compact_rename"
      BY <1>2, <1>3, <2>2 DEF CompactRemove, Handle
    <3>2. compacted' # Nothing
      BY <2>2 DEF CompactRemove, TypeInv, HasFiles, At
    <3>3. QED
      BY <1>3, <2>1, <3>1, <3>2 DEF HasFiles
  <2>3. CASE CompactRename(t)
    <3>1. orphan' = orphan /\ file' = compacted /\ call'[t].pc = "compact_reopen"
      BY <1>2, <1>3, <2>3 DEF CompactRename
    <3>2. file' # Nothing /\ Handle' # Nothing
      BY <2>3, <3>1 DEF CompactRename, TypeInv, HasFiles, At, Handle
    <3>3. QED
      BY <1>3, <2>1, <3>1, <3>2 DEF HasFiles
  <2>4. CASE CompactReopen(t)
    <3>1. orphan' = Nothing /\ file' = file /\ call'[t].pc = "compact_measure"
      BY <1>2, <1>3, <2>4 DEF CompactReopen, disk
    <3>2. file' # Nothing /\ Handle' # Nothing
      BY <2>4, <3>1 DEF CompactReopen, TypeInv, HasFiles, At, Handle
    <3>3. QED
      BY <1>3, <2>1, <3>1, <3>2 DEF HasFiles
  <2>5. QED
    BY <2>2, <2>3, <2>4
<1>6. QED
  BY <1>1, <1>3, <1>4, <1>5, TypeParts DEF TypeInv

LEMMA TypeCompactResize ==
  ASSUME TypeInv, NEW t \in Threads, CompactResize(t)
  PROVE  TypeInv'
<1>1. /\ At(t, "compact_resize") /\ writeOffset' = call[t].offset /\ Become(t, Idle)
      /\ UNCHANGED <<disk, orphan, up, indexes, events, history>>
  BY DEF CompactResize
<1>2. DiskType' /\ IndexType' /\ EventType' /\ Listening' /\ HistoryType'
  BY <1>1, TypeParts, Unchanged, CallType DEF TypeInv, DiskType, disk
<1>3. Others(t) /\ call'[t] = Idle /\ call' \in [Threads -> Call] /\ SoundCalls'
  BY <1>1, IdleStep
<1>4. SoundFiles'
  BY <1>1 DEF TypeInv, SoundFiles, disk
<1>5. HasFiles'
  <2>1. up' => up \/ ~AllIdle
    BY <1>1
  <2>2. QED
    BY <1>1, <1>3, <2>1, HasFilesStep DEF TypeInv, Idle, Compacting, At
<1>6. QED
  BY <1>2, <1>3, <1>4, <1>5, TypeParts DEF TypeInv

LEMMA TypeScan ==
  ASSUME TypeInv, NEW t \in Threads, InitDatabase(t) \/ Reinit(t)
  PROVE  TypeInv'
<1> DEFINE f == Opened(file)
<1> DEFINE new == [Idle EXCEPT !.pc = "install", !.offset = f.bytes, !.records = ScanAll(f)]
<1>1. /\ At(t, "idle") /\ orphan = Nothing /\ file' = f /\ Become(t, new)
      /\ UNCHANGED <<compacted, orphan, up, writeOffset, indexes, events, history>>
  BY DEF InitDatabase, Reinit, Scan
<1>2. f \in File /\ f # Nothing /\ Sound(f)
  BY OpenedSound DEF TypeInv, TypeOK, SoundFiles
<1>3. /\ f.bytes \in Nat /\ ScanAll(f) \in Seq(Placed)
      /\ \A k \in DOMAIN ScanAll(f) :
           ScanAll(f)[k].kind = "delete" <=> ScanAll(f)[k].data = Nothing
  BY <1>2, ScanSound, RecordsOfFile
<1> HIDE DEF f
<1>4. new \in Call /\ new.pc = "install" /\ new.records = ScanAll(f)
  BY <1>3, IdleType DEF Call, Idle
<1>5. Others(t) /\ call'[t] = new /\ call' \in [Threads -> Call]
  BY <1>1, <1>4, CallFields, CallType
<1> HIDE DEF new
<1>6. SoundCall(t)'
  BY <1>3, <1>4, <1>5 DEF SoundCall, Writing, Compacting
<1>7. SoundCalls'
  BY <1>5, <1>6, SoundCallsStep DEF TypeInv
<1>8. DiskType' /\ IndexType' /\ EventType' /\ Listening' /\ HistoryType'
  BY <1>1, <1>2, TypeParts, Unchanged DEF TypeInv, DiskType
<1>9. SoundFiles'
  BY <1>1, <1>2 DEF TypeInv, SoundFiles
<1>10. HasFiles'
  <2>1. Handle' # Nothing /\ file' # Nothing /\ orphan' = Nothing
    BY <1>1, <1>2 DEF Handle
  <2>2. QED
    BY <1>1, <1>4, <1>5, <2>1 DEF HasFiles, TypeInv, Others, Compacting, At
<1>11. QED
  BY <1>5, <1>7, <1>8, <1>9, <1>10, TypeParts DEF TypeInv

LEMMA NoSubscribersType == NoSubscribers => EventType' /\ Listening'
<1>1. << >> \in Seq(Event)
  OBVIOUS
<1>2. QED
  BY <1>1 DEF NoSubscribers, EventType, Listening

\* What the indexes and get have of the records of a scan.
LEMMA RebuiltType ==
  ASSUME NEW records \in Seq(Placed),
         \A k \in DOMAIN records : records[k].kind = "delete" <=> records[k].data = Nothing
  PROVE  /\ Rebuilt(records) \in [Documents -> Nat \cup {Nothing}]
         /\ EntriesIn(records) \in SUBSET Entries
<1>1. \A k \in DOMAIN records : /\ records[k].at \in Nat /\ records[k].doc \in Documents
                                /\ records[k].data \in MaybeValue
  <2>1. \A k \in DOMAIN records : records[k] \in Placed
    OBVIOUS
  <2>2. QED
    BY <2>1 DEF Placed
<1>2. ASSUME NEW d \in Documents PROVE Rebuilt(records)[d] \in Nat \cup {Nothing}
  <2>1. LastOf(records, d) # {} => (CHOOSE k \in LastOf(records, d) : TRUE) \in DOMAIN records
    BY DEF LastOf
  <2>2. QED
    BY <1>1, <2>1 DEF Rebuilt
<1>3. \A k \in {j \in DOMAIN records : records[j].kind # "delete"} :
        EntriesFor(records[k].doc, records[k].data) \in SUBSET Entries
  BY <1>1, EntriesOf
<1>4. EntriesIn(records) \in SUBSET Entries
  BY <1>3 DEF EntriesIn
<1>5. QED
  BY <1>2, <1>4 DEF Rebuilt

LEMMA DataAtType ==
  ASSUME TypeInv, Handle # Nothing, NEW offsets, NEW d \in Documents
  PROVE  DataAt(offsets, d) \in MaybeValue
<1> DEFINE hits == {k \in DOMAIN Handle.records : Handle.records[k].at = offsets[d]}
<1>1. \A k \in DOMAIN Handle.records : Handle.records[k].data \in MaybeValue
  BY HandleSound, RecordsOfFile DEF IsRecord
<1>2. hits # {} => (CHOOSE k \in hits : TRUE) \in DOMAIN Handle.records
  OBVIOUS
<1>3. Nothing \in MaybeValue
  BY DEF MaybeValue
<1>4. DataAt(offsets, d) = IF offsets[d] = Nothing \/ hits = {} THEN Nothing
                           ELSE Handle.records[CHOOSE k \in hits : TRUE].data
  BY DEF DataAt
<1> HIDE DEF hits
<1>5. QED
  BY <1>1, <1>2, <1>3, <1>4

LEMMA TypeInstall ==
  ASSUME TypeInv, NEW t \in Threads, Install(t)
  PROVE  TypeInv'
<1> DEFINE records == call[t].records
<1>1. /\ At(t, "install") /\ up' = TRUE /\ writeOffset' = call[t].offset
      /\ primary' = Rebuilt(records) /\ exact' = EntriesIn(records)
      /\ ordered' = EntriesIn(records) /\ NoSubscribers /\ trusted' = TRUE
      /\ acked' = [d \in Documents |-> DataAt(Rebuilt(records), d)]
      /\ Become(t, Idle) /\ UNCHANGED <<disk, orphan, faults>>
  BY DEF Install
<1>2. /\ records \in Seq(Placed)
      /\ \A k \in DOMAIN records : records[k].kind = "delete" <=> records[k].data = Nothing
  BY CallType DEF TypeInv, SoundCalls, SoundCall
<1> HIDE DEF records
<1>3. DiskType'
  BY <1>1, CallType DEF TypeInv, TypeOK, DiskType, disk
<1>4. IndexType'
  BY <1>1, <1>2, RebuiltType DEF IndexType
<1>5. EventType' /\ Listening'
  BY <1>1, NoSubscribersType
<1>6. HistoryType'
  <2>1. Handle # Nothing
    BY <1>1, HandleSound DEF At
  <2>2. acked' \in [Documents -> MaybeValue]
    BY <1>1, <2>1, DataAtType
  <2>3. QED
    BY <1>1, <2>2 DEF HistoryType, TypeInv, TypeOK
<1>7. Others(t) /\ call'[t] = Idle /\ call' \in [Threads -> Call] /\ SoundCalls'
  BY <1>1, IdleStep
<1>8. SoundFiles'
  BY <1>1 DEF TypeInv, SoundFiles, disk
<1>9. HasFiles'
  <2>1. ~AllIdle
    BY <1>1 DEF AllIdle, At
  <2>2. QED
    BY <1>1, <1>7, <2>1, HasFilesStep DEF TypeInv, Idle, Compacting, At
<1>10. QED
  BY <1>3, <1>4, <1>5, <1>6, <1>7, <1>8, <1>9, TypeParts DEF TypeInv

LEMMA TypeClose ==
  ASSUME TypeInv, NEW t \in Threads, Close(t)
  PROVE  TypeInv'
<1>1. /\ up' = FALSE /\ NoSubscribers /\ up
      /\ UNCHANGED <<disk, orphan, writeOffset, indexes, call, history>>
  BY DEF Close
<1>2. /\ DiskType' /\ IndexType' /\ EventType' /\ Listening' /\ HistoryType'
      /\ call' \in [Threads -> Call]
  BY <1>1, TypeParts, Unchanged, NoSubscribersType DEF TypeInv, DiskType, disk
<1>3. SoundFiles' /\ SoundCalls' /\ HasFiles'
  BY <1>1 DEF TypeInv, SoundFiles, SoundCalls, SoundCall, Writing, Compacting, HasFiles,
              AllIdle, At, Handle, disk
<1>4. QED
  BY <1>2, <1>3, TypeParts DEF TypeInv

LEMMA TypeCrash ==
  ASSUME TypeInv, Crash
  PROVE  TypeInv'
<1>1. PICK n \in {0, TornLength} :
        /\ n > 0 => orphan = Nothing /\ \E t \in Threads : At(t, "append")
        /\ file' = IF n = 0 THEN file ELSE Spoilt(file, n)
  BY DEF Crash
<1>2. /\ faults' = faults + 1 /\ faults < MaxFaults /\ orphan' = Nothing /\ up' = FALSE
      /\ writeOffset' = 0 /\ primary' = NoOffsets /\ exact' = {} /\ ordered' = {}
      /\ NoSubscribers /\ call' = [t \in Threads |-> Idle]
      /\ acked' = [d \in Documents |-> Nothing] /\ trusted' = FALSE
      /\ UNCHANGED compacted
  BY DEF Crash
<1>3. file' \in File \cup {Nothing} /\ (file' # Nothing => Sound(file'))
  <2>1. CASE n = 0
    BY <1>1, <2>1 DEF TypeInv, TypeOK, SoundFiles
  <2>2. CASE n # 0
    <3>1. n \in Nat /\ n > 0
      BY <2>2, ThreadsAssumption
    <3>2. file \in File /\ Sound(file)
      BY <1>1, <3>1, HandleSound DEF At, Handle
    <3>3. QED
      BY <1>1, <2>2, <3>1, <3>2, SpoiltSound
  <2>3. QED
    BY <2>1, <2>2
<1>4. DiskType' /\ EventType' /\ Listening'
  BY <1>2, <1>3, NoSubscribersType DEF TypeInv, TypeOK, DiskType
<1>5. IndexType'
  BY <1>2 DEF NoOffsets, IndexType
<1>6. HistoryType'
  <2>1. faults' \in 0..MaxFaults
    BY <1>2, ThreadsAssumption DEF TypeInv, TypeOK
  <2>2. QED
    BY <1>2, <2>1 DEF HistoryType, MaybeValue
<1>7. call' \in [Threads -> Call] /\ \A t \in Threads : call'[t] = Idle
  BY <1>2, IdleType
<1>8. SoundFiles'
  BY <1>2, <1>3 DEF TypeInv, SoundFiles
<1>9. SoundCalls' /\ HasFiles'
  BY <1>2, <1>7 DEF SoundCalls, SoundCall, HasFiles, Writing, Compacting, AllIdle, At, Idle
<1>10. QED
  BY <1>4, <1>5, <1>6, <1>7, <1>8, <1>9, TypeParts DEF TypeInv

LEMMA TypeInit == Init => TypeInv
<1> SUFFICES ASSUME Init PROVE TypeInv
  OBVIOUS
<1>1. /\ file = Nothing /\ compacted = Nothing /\ orphan = Nothing /\ up = FALSE
      /\ writeOffset = 0 /\ primary = NoOffsets /\ exact = {} /\ ordered = {}
      /\ queue = [c \in Watched |-> << >>] /\ mirror = [c \in Watched |-> Nothing]
      /\ missed = {} /\ call = [t \in Threads |-> Idle]
      /\ acked = [d \in Documents |-> Nothing] /\ trusted = FALSE /\ faults = 0
  BY DEF Init
<1>2. DiskType /\ IndexType
  BY <1>1 DEF DiskType, IndexType, NoOffsets
<1>3. EventType /\ Listening
  <2>1. << >> \in Seq(Event)
    OBVIOUS
  <2>2. QED
    BY <1>1, <2>1 DEF EventType, Listening
<1>4. HistoryType
  <2>1. 0 \in 0..MaxFaults
    BY ThreadsAssumption
  <2>2. QED
    BY <1>1, <2>1 DEF HistoryType, MaybeValue
<1>5. call \in [Threads -> Call] /\ \A t \in Threads : call[t] = Idle
  BY <1>1, IdleType
<1>6. SoundFiles /\ SoundCalls /\ HasFiles
  BY <1>1, <1>5 DEF SoundFiles, SoundCalls, SoundCall, HasFiles, Writing, Compacting, AllIdle, At, Idle
<1>7. QED
  BY <1>2, <1>3, <1>4, <1>5, <1>6, TypeParts DEF TypeInv

LEMMA TypeNext == TypeInv /\ [Next]_vars => TypeInv'
<1> SUFFICES ASSUME TypeInv, [Next]_vars PROVE TypeInv'
  OBVIOUS
<1>1. ASSUME NEW t \in Threads, Step(t) PROVE TypeInv'
  BY <1>1, TypeStart, TypeCollect, TypeIndexSteps, TypeAppendRecord, TypeSetPrimary,
     TypeNotify, TypeCompact, TypeCompactOpen, TypeCompactWrite, TypeCompactSwap,
     TypeCompactMeasure, TypeCompactResize, TypeScan, TypeInstall, TypeClose,
     TypeAppendFails DEF Step
<1>2. ASSUME NEW c \in Watched, Subscribe(c) \/ Unsubscribe(c) \/ Receive(c) PROVE TypeInv'
  BY <1>2, TypeSubscribers
<1>3. CASE UNCHANGED vars
  BY <1>3 DEF vars, disk, indexes, events, history, TypeInv, TypeOK, SoundFiles, SoundCalls,
              SoundCall, HasFiles, Listening, Writing, Compacting, AllIdle, At, Handle
<1>4. QED
  BY <1>1, <1>2, <1>3, TypeCrash DEF Next

\* Type correctness: every variable keeps its type, for any threads, documents,
\* values, queues and faults; the files the steps work on are there, and only
\* one thread compacts.
THEOREM DatabaseTypes == Spec => []TypeOK
<1>1. TypeInv => TypeOK
  BY DEF TypeInv
<1>2. QED
  BY TypeInit, TypeNext, <1>1, PTL DEF Spec

-----------------------------------------------------------------------------
(* What a step leaves in the record of its thread.                           *)

Keeps(t) == /\ call'[t].kind = call[t].kind /\ call'[t].doc = call[t].doc
            /\ call'[t].data = call[t].data /\ call'[t].records = call[t].records

Holds(t) == call'[t].entries = call[t].entries /\ call'[t].current = call[t].current

LEMMA AfterCollect ==
  ASSUME TypeInv, NEW t \in Threads, Collect(t)
  PROVE  /\ Others(t) /\ Keeps(t) /\ call'[t].offset = call[t].offset
         /\ call'[t].entries = {e \in exact : e[1] = call[t].doc}
         /\ call'[t].current = call[t].current
         /\ call'[t].pc = IF call'[t].entries = {} THEN AfterUnindex(t) ELSE "unexact"
<1> DEFINE found == {e \in exact : e[1] = call[t].doc}
<1> DEFINE step == IF found = {} THEN AfterUnindex(t) ELSE "unexact"
<1>1. Others(t) /\ call'[t] = [call[t] EXCEPT !.pc = step, !.entries = found]
  BY CallFields, CallType DEF Collect
<1> HIDE DEF step
<1>2. /\ Keeps(t) /\ call'[t].offset = call[t].offset /\ call'[t].entries = found
      /\ call'[t].current = call[t].current /\ call'[t].pc = step
  BY <1>1, CallType DEF Call, Keeps
<1>3. QED
  BY <1>1, <1>2 DEF step

LEMMA AfterExact ==
  ASSUME TypeInv, NEW t \in Threads, UnindexExact(t) \/ IndexExact(t)
  PROVE  /\ Others(t) /\ Keeps(t) /\ call'[t].offset = call[t].offset
         /\ \E e \in call[t].entries :
              /\ call'[t].entries = call[t].entries \ {e} /\ call'[t].current = {e}
              /\ UnindexExact(t) => exact' = exact \ {e}
              /\ IndexExact(t) => exact' = exact \cup {e}
         /\ UnindexExact(t) => call'[t].pc = "unordered"
         /\ IndexExact(t) => call'[t].pc = "ordered"
<1>1. ASSUME UnindexExact(t) PROVE ~IndexExact(t)
  BY <1>1 DEF UnindexExact, IndexExact, At
<1>2. PICK e \in call[t].entries, step \in {"unordered", "ordered"} :
        /\ Become(t, [call[t] EXCEPT !.pc = step, !.current = {e}, !.entries = @ \ {e}])
        /\ UnindexExact(t) => step = "unordered" /\ exact' = exact \ {e}
        /\ IndexExact(t) => step = "ordered" /\ exact' = exact \cup {e}
  <2>1. CASE UnindexExact(t)
    BY <1>1, <2>1 DEF UnindexExact
  <2>2. CASE IndexExact(t)
    <3>1. \A e \in FirstOf(call[t].entries, call[t].data) : e \in call[t].entries
      BY DEF FirstOf
    <3>2. QED
      BY <1>1, <2>2, <3>1 DEF IndexExact
  <2>3. QED
    BY <2>1, <2>2
<1>3. Others(t) /\ call'[t] = [call[t] EXCEPT !.pc = step, !.current = {e}, !.entries = @ \ {e}]
  BY <1>2, CallFields, CallType
<1>4. /\ Keeps(t) /\ call'[t].offset = call[t].offset /\ call'[t].pc = step
      /\ call'[t].entries = call[t].entries \ {e} /\ call'[t].current = {e}
  BY <1>3, CallType DEF Call, Keeps
<1>5. QED
  BY <1>2, <1>3, <1>4

LEMMA AfterOrdered ==
  ASSUME TypeInv, NEW t \in Threads, UnindexOrdered(t) \/ IndexOrdered(t)
  PROVE  /\ Others(t) /\ Keeps(t) /\ call'[t].offset = call[t].offset
         /\ call'[t].entries = call[t].entries /\ call'[t].current = {}
         /\ UnindexOrdered(t) =>
              call'[t].pc = IF call[t].entries = {} THEN AfterUnindex(t) ELSE "unexact"
         /\ IndexOrdered(t) =>
              call'[t].pc = IF call[t].entries = {} THEN "notify" ELSE "exact"
<1> DEFINE step == IF UnindexOrdered(t)
                   THEN IF call[t].entries = {} THEN AfterUnindex(t) ELSE "unexact"
                   ELSE IF call[t].entries = {} THEN "notify" ELSE "exact"
<1>1. UnindexOrdered(t) => ~IndexOrdered(t)
  BY DEF UnindexOrdered, IndexOrdered, At
<1>2. Become(t, [call[t] EXCEPT !.pc = step, !.current = {}])
  BY <1>1 DEF UnindexOrdered, IndexOrdered
<1>3. Others(t) /\ call'[t] = [call[t] EXCEPT !.pc = step, !.current = {}]
  BY <1>2, CallFields, CallType
<1> HIDE DEF step
<1>4. /\ Keeps(t) /\ call'[t].offset = call[t].offset /\ call'[t].pc = step
      /\ call'[t].entries = call[t].entries /\ call'[t].current = {}
  BY <1>3, CallType DEF Call, Keeps
<1>5. QED
  BY <1>1, <1>3, <1>4 DEF step

LEMMA AfterAppend ==
  ASSUME TypeInv, NEW t \in Threads, AppendRecord(t)
  PROVE  /\ Others(t) /\ Keeps(t) /\ call'[t].pc = "primary"
         /\ call'[t].offset = writeOffset /\ call'[t].entries = call[t].entries
         /\ call'[t].current = call[t].current
<1>1. Others(t) /\ call'[t] = [call[t] EXCEPT !.pc = "primary", !.offset = writeOffset]
  BY CallFields, CallType DEF AppendRecord
<1>2. QED
  BY <1>1, CallType DEF Call, Keeps

LEMMA AfterSetPrimary ==
  ASSUME TypeInv, NEW t \in Threads, SetPrimary(t)
  PROVE  /\ Others(t) /\ Keeps(t) /\ call'[t].current = call[t].current
         /\ call'[t].entries = IF call[t].kind = "delete" THEN {}
                               ELSE EntriesFor(call[t].doc, call[t].data)
         /\ call'[t].pc = IF call[t].kind = "delete" THEN "collect"
                          ELSE IF call'[t].entries = {} THEN "notify" ELSE "exact"
<1> DEFINE more == IF call[t].kind = "delete" THEN {}
                   ELSE EntriesFor(call[t].doc, call[t].data)
<1> DEFINE step == IF call[t].kind = "delete" THEN "collect"
                   ELSE IF more = {} THEN "notify" ELSE "exact"
<1>1. Become(t, [call[t] EXCEPT !.entries = more, !.pc = step])
  BY DEF SetPrimary
<1>2. Others(t) /\ call'[t] = [call[t] EXCEPT !.entries = more, !.pc = step]
  BY <1>1, CallFields, CallType
<1> HIDE DEF step, more
<1>3. /\ Keeps(t) /\ call'[t].current = call[t].current
      /\ call'[t].entries = more /\ call'[t].pc = step
  BY <1>2, CallType DEF Call, Keeps
<1>4. QED
  BY <1>2, <1>3 DEF step, more

\* A call that begins has nothing of the one before.
LEMMA AfterBegin ==
  ASSUME TypeInv, NEW t \in Threads, NEW step, NEW k, NEW d, NEW v, Begin(t, step, k, d, v)
  PROVE  /\ Others(t) /\ call'[t].pc = step /\ call'[t].kind = k /\ call'[t].doc = d
         /\ call'[t].data = v /\ call'[t].entries = {} /\ call'[t].current = {}
         /\ call'[t].records = << >>
<1>1. Others(t) /\ call'[t] = [Idle EXCEPT !.pc = step, !.kind = k, !.doc = d, !.data = v]
  BY CallFields, CallType DEF Begin
<1>2. QED
  BY <1>1 DEF Idle

LEMMA AfterCompactStep ==
  ASSUME TypeInv, NEW t \in Threads
  PROVE  /\ CompactOpen(t) => /\ Others(t) /\ Keeps(t) /\ Holds(t)
                              /\ call'[t].left = call[t].left
                              /\ call'[t].pc = IF call[t].left = {} THEN "compact_remove"
                                               ELSE "compact_write"
         /\ CompactRemove(t) => Others(t) /\ Keeps(t) /\ Holds(t) /\ call'[t].pc = "compact_rename"
                                /\ call'[t].left = call[t].left
         /\ CompactRename(t) => Others(t) /\ Keeps(t) /\ Holds(t) /\ call'[t].pc = "compact_reopen"
         /\ CompactReopen(t) => Others(t) /\ Keeps(t) /\ Holds(t) /\ call'[t].pc = "compact_measure"
         /\ CompactMeasure(t) => Others(t) /\ Keeps(t) /\ Holds(t) /\ call'[t].pc = "compact_resize"
<1>1. ASSUME NEW step, Goto(t, step)
      PROVE  Others(t) /\ Keeps(t) /\ Holds(t) /\ call'[t].pc = step /\ call'[t].left = call[t].left
  <2>1. Others(t) /\ call'[t] = [call[t] EXCEPT !.pc = step]
    BY <1>1, CallFields, CallType
  <2>2. QED
    BY <2>1, CallType DEF Call, Keeps, Holds
<1>2. ASSUME CompactMeasure(t)
      PROVE  Others(t) /\ Keeps(t) /\ Holds(t) /\ call'[t].pc = "compact_resize"
  <2>1. Others(t) /\ call'[t] = [call[t] EXCEPT !.pc = "compact_resize", !.offset = Handle.bytes]
    BY <1>2, CallFields, CallType DEF CompactMeasure
  <2>2. QED
    BY <2>1, CallType DEF Call, Keeps, Holds
<1>3. QED
  BY <1>1, <1>2 DEF CompactOpen, CompactRemove, CompactRename, CompactReopen

LEMMA AfterCompactWrite ==
  ASSUME TypeInv, NEW t \in Threads, CompactWrite(t)
  PROVE  /\ Others(t) /\ Keeps(t) /\ Holds(t)
         /\ \E k \in call[t].left :
              /\ compacted' = AppendedTo(compacted, call[t].records[k])
              /\ call'[t].left = call[t].left \ {k}
              /\ call'[t].pc = IF call[t].left = {k} THEN "compact_remove" ELSE "compact_write"
<1>1. PICK k \in call[t].left :
        /\ compacted' = AppendedTo(compacted, call[t].records[k])
        /\ Become(t, [call[t] EXCEPT !.left = @ \ {k},
                                     !.pc = IF call[t].left = {k} THEN "compact_remove"
                                            ELSE "compact_write"])
  BY DEF CompactWrite
<1> DEFINE step == IF call[t].left = {k} THEN "compact_remove" ELSE "compact_write"
<1>2. Others(t) /\ call'[t] = [call[t] EXCEPT !.left = @ \ {k}, !.pc = step]
  BY <1>1, CallFields, CallType
<1> HIDE DEF step
<1>3. Keeps(t) /\ Holds(t) /\ call'[t].left = call[t].left \ {k} /\ call'[t].pc = step
  BY <1>2, CallType DEF Call, Keeps, Holds
<1>4. QED
  BY <1>1, <1>2, <1>3 DEF step

LEMMA AfterCompact ==
  ASSUME TypeInv, NEW t \in Threads, Compact(t)
  PROVE  /\ Others(t) /\ call'[t].pc = "compact_open"
         /\ call'[t].records = ScanAll(Handle)
         /\ call'[t].left = LatestOf(ScanAll(Handle))
         /\ call'[t].entries = {} /\ call'[t].current = {}
<1>1. Others(t) /\ call'[t] = [Idle EXCEPT !.pc = "compact_open", !.records = ScanAll(Handle),
                                           !.left = LatestOf(ScanAll(Handle))]
  BY CallFields, CallType DEF Compact
<1>2. QED
  BY <1>1 DEF Idle

\* The steps that end a call.
Ends(t) == Notify(t) \/ CompactResize(t) \/ Install(t) \/ AppendFails(t)

LEMMA AfterEnd ==
  ASSUME TypeInv, NEW t \in Threads, Ends(t)
  PROVE  Others(t) /\ call'[t] = Idle
  BY CallFields, CallType DEF Ends, Notify, CompactResize, Install, AppendFails

-----------------------------------------------------------------------------
(* The primary index and the file.                                           *)

\* The hypotheses of the theorems: init runs in the middle of the process only
\* where nothing else does; each document is written by one thread.
ScansAlone   == \A t \in Threads : "reinit" \in Does[t] => Threads = {t}
OwnDocuments == \A t, u \in Threads : t # u => Home[t] \cap Home[u] = {}

\* What a scan returned is still what the file holds when it is installed.
Scanned ==
  \A t \in Threads : At(t, "install") =>
    /\ orphan = Nothing /\ file # Nothing
    /\ call[t].offset = file.bytes /\ call[t].records = ScanAll(file)
    /\ \A u \in Threads : u # t => At(u, "idle")
    /\ up => Threads = {t}

\* Record k of the handle is the one thread t appended.
IsRecordOf(k, t) == /\ Handle.records[k].at = call[t].offset
                    /\ Handle.records[k].doc = call[t].doc
                    /\ Handle.records[k].kind = call[t].kind
                    /\ Handle.records[k].data = call[t].data

Swapped(t) == call[t].pc \in {"compact_rename", "compact_reopen", "compact_measure",
                              "compact_resize"}

Pointing ==
  trusted =>
    /\ orphan = Nothing /\ file # Nothing /\ writeOffset = file.bytes
    /\ \A d \in Documents : primary[d] # Nothing => Points(primary[d], d)
    /\ \A t \in Threads :
         /\ At(t, "primary") => \E k \in DOMAIN Handle.records : IsRecordOf(k, t)
         /\ ~Swapped(t)

IndexInv == TypeInv /\ Scanned /\ Pointing

\* While a scan is installed nobody takes a step but the thread that does.
LEMMA OnlyInstall ==
  ASSUME Scanned, NEW t \in Threads, At(t, "install"), NEW u \in Threads, Step(u)
  PROVE  u = t /\ Install(t)
<1>1. u = t
  <2>1. ASSUME u # t PROVE FALSE
    <3>1. call[u].pc = "idle" /\ ~up /\ ~AllIdle
      BY <2>1 DEF Scanned, At, AllIdle
    <3>2. QED
      BY <3>1 DEF Step, Put, Update, Delete, Begin, Collect, UnindexExact, UnindexOrdered,
                  AppendRecord, SetPrimary, IndexExact, IndexOrdered, Notify, Compact,
                  CompactOpen, CompactWrite, CompactRemove, CompactRename, CompactReopen,
                  CompactMeasure, CompactResize, InitDatabase, Reinit, Install, Close,
                  AppendFails, At
  <2>2. QED
    BY <2>1
<1>2. call[u].pc = "install" /\ ~AllIdle
  BY <1>1 DEF At, AllIdle
<1>3. QED
  BY <1>1, <1>2 DEF Step, Put, Update, Delete, Begin, Collect, UnindexExact, UnindexOrdered,
                    AppendRecord, SetPrimary, IndexExact, IndexOrdered, Notify, Compact,
                    CompactOpen, CompactWrite, CompactRemove, CompactRename, CompactReopen,
                    CompactMeasure, CompactResize, InitDatabase, Reinit, Scan, Close,
                    AppendFails, At

\* What every step of a thread that starts no scan leaves of the others, and
\* the step the thread itself is at then.
LEMMA NoNewScan ==
  ASSUME TypeInv, NEW t \in Threads, Step(t), ~(InitDatabase(t) \/ Reinit(t))
  PROVE  Others(t) /\ ~At(t, "install")'
<1>1. CASE \E d \in Documents : (\E v \in Values : Put(t, d, v) \/ Update(t, d, v)) \/ Delete(t, d)
  BY <1>1, AfterBegin DEF Put, Update, Delete, At
<1>2. CASE Collect(t) \/ UnindexOrdered(t) \/ IndexOrdered(t)
  BY <1>2, AfterCollect, AfterOrdered DEF AfterUnindex, At
<1>3. CASE UnindexExact(t) \/ IndexExact(t)
  BY <1>3, AfterExact DEF At
<1>4. CASE AppendRecord(t) \/ SetPrimary(t)
  BY <1>4, AfterAppend, AfterSetPrimary DEF At
<1>5. CASE Compact(t) \/ CompactOpen(t) \/ CompactWrite(t) \/ CompactRemove(t)
           \/ CompactRename(t) \/ CompactReopen(t) \/ CompactMeasure(t)
  BY <1>5, AfterCompact, AfterCompactStep, AfterCompactWrite DEF At
<1>6. CASE Ends(t)
  BY <1>6, AfterEnd DEF At, Idle
<1>7. CASE Close(t)
  BY <1>7 DEF Close, Others, At
<1>8. QED
  BY <1>1, <1>2, <1>3, <1>4, <1>5, <1>6, <1>7 DEF Step, Ends

LEMMA ScannedNext ==
  ASSUME ScansAlone, TypeInv, Scanned, [Next]_vars
  PROVE  Scanned'
<1>1. ASSUME NEW t \in Threads, Step(t) PROVE Scanned'
  <2>1. CASE InitDatabase(t) \/ Reinit(t)
    <3>1. /\ At(t, "idle") /\ orphan = Nothing /\ file' = Opened(file)
          /\ Become(t, [Idle EXCEPT !.pc = "install", !.offset = Opened(file).bytes,
                                    !.records = ScanAll(Opened(file))])
          /\ orphan' = orphan /\ up' = up
      BY <2>1 DEF InitDatabase, Reinit, Scan
    <3>2. Others(t) /\ call'[t].offset = file'.bytes /\ call'[t].records = ScanAll(file')
      BY <3>1, CallType DEF Become, Others, Idle
    <3>3. file' # Nothing
      BY <3>1, OpenedSound DEF TypeInv, TypeOK, SoundFiles
    <3>4. /\ \A u \in Threads : u # t => At(u, "idle")
          /\ up => Threads = {t}
      BY <2>1 DEF InitDatabase, Reinit, AllIdle, ScansAlone
    <3>5. QED
      BY <3>1, <3>2, <3>3, <3>4 DEF Scanned, Others, At
  <2>2. CASE ~(InitDatabase(t) \/ Reinit(t))
    <3>1. Others(t) /\ ~At(t, "install")'
      BY <1>1, <2>2, NoNewScan
    <3>2. CASE \E u \in Threads : At(u, "install")
      <4>1. At(t, "install")
        BY <1>1, <3>2, OnlyInstall
      <4>2. QED
        BY <3>1, <4>1 DEF Scanned, Others, At
    <3>3. CASE \A u \in Threads : ~At(u, "install")
      BY <3>1, <3>3 DEF Scanned, Others, At
    <3>4. QED
      BY <3>2, <3>3
  <2>3. QED
    BY <2>1, <2>2
<1>2. ASSUME NEW c \in Watched, Subscribe(c) \/ Unsubscribe(c) \/ Receive(c) PROVE Scanned'
  BY <1>2 DEF Subscribe, Unsubscribe, Receive, Scanned, At, disk
<1>3. CASE Crash
  BY <1>3 DEF Crash, Scanned, At, Idle
<1>4. CASE UNCHANGED vars
  BY <1>4 DEF vars, Scanned, At, disk
<1>5. QED
  BY <1>1, <1>2, <1>3, <1>4 DEF Next

\* Steps that leave the index and the file alone.
LEMMA PointingStays ==
  ASSUME Pointing, UNCHANGED <<file, orphan, writeOffset, primary>>, trusted' => trusted,
         \A u \in Threads : \/ call'[u] = call[u]
                            \/ ~At(u, "primary")' /\ ~Swapped(u)'
  PROVE  Pointing'
<1> SUFFICES ASSUME trusted' PROVE Pointing'
  BY DEF Pointing
<1>1. Handle' = Handle
  BY DEF Handle
<1>2. ASSUME NEW d \in Documents, primary'[d] # Nothing PROVE Points(primary[d], d)'
  BY <1>1, <1>2 DEF Pointing, Points
<1>3. ASSUME NEW u \in Threads
      PROVE  /\ At(u, "primary")' => \E k \in DOMAIN Handle'.records : IsRecordOf(k, u)'
             /\ ~Swapped(u)'
  BY <1>1 DEF Pointing, At, Swapped, IsRecordOf
<1>4. QED
  BY <1>2, <1>3 DEF Pointing

LEMMA PointingAppend ==
  ASSUME TypeInv, Pointing, NEW t \in Threads, AppendRecord(t)
  PROVE  Pointing'
<1> SUFFICES ASSUME trusted' PROVE Pointing'
  BY DEF Pointing
<1> DEFINE new == AppendedTo(Handle, RecordOf(t))
<1>1. /\ At(t, "append") /\ ToHandle(new) /\ writeOffset' = writeOffset + Written + Body(RecordOf(t))
      /\ primary' = primary /\ trusted
  BY DEF AppendRecord, indexes, history
<1>2. orphan = Nothing /\ file # Nothing /\ writeOffset = file.bytes /\ Handle = file
  BY <1>1 DEF Pointing, Handle
<1>3. IsRecord(RecordOf(t))
  BY CallType DEF IsRecord, RecordOf
<1>4. file \in File
  BY <1>2 DEF TypeInv, TypeOK
<1>5. /\ new # Nothing /\ new.bytes = file.bytes + Written + Body(RecordOf(t))
      /\ DOMAIN file.records \subseteq DOMAIN new.records
      /\ \A k \in DOMAIN file.records : new.records[k] = file.records[k]
      /\ Len(file.records) + 1 \in DOMAIN new.records
      /\ new.records[Len(file.records) + 1] =
           [kind |-> call[t].kind, doc |-> call[t].doc, data |-> call[t].data, at |-> file.bytes]
  <2>1. new \in File /\ Len(new.records) = Len(file.records) + 1
    BY <1>2, <1>3, <1>4, AppendedSound
  <2>2. DOMAIN file.records \subseteq DOMAIN new.records /\ Len(file.records) + 1 \in DOMAIN new.records
    BY <1>4, <2>1, RecordsOfFile
  <2>3. QED
    BY <1>2, <1>3, <1>4, <2>2, AppendedSound DEF RecordOf
<1> HIDE DEF new
<1>6. orphan' = Nothing /\ file' = new /\ Handle' = new
  BY <1>1, <1>2 DEF ToHandle, Handle
<1>7. /\ Others(t) /\ Keeps(t) /\ call'[t].pc = "primary" /\ call'[t].offset = writeOffset
  BY AfterAppend
<1>8. ASSUME NEW d \in Documents, primary'[d] # Nothing PROVE Points(primary[d], d)'
  BY <1>1, <1>2, <1>5, <1>6, <1>8 DEF Pointing, Points
<1>9. ASSUME NEW u \in Threads
      PROVE  /\ At(u, "primary")' => \E k \in DOMAIN Handle'.records : IsRecordOf(k, u)'
             /\ ~Swapped(u)'
  <2>1. CASE u = t
    <3>1. PICK k \in DOMAIN new.records :
            new.records[k] = [kind |-> call[t].kind, doc |-> call[t].doc,
                              data |-> call[t].data, at |-> file.bytes]
      BY <1>5
    <3>2. IsRecordOf(k, u)'
      BY <1>2, <1>6, <1>7, <2>1, <3>1 DEF IsRecordOf, Keeps
    <3>3. QED
      BY <1>6, <1>7, <2>1, <3>1, <3>2 DEF Swapped
  <2>2. CASE u # t
    BY <1>1, <1>2, <1>5, <1>6, <1>7, <2>2 DEF Pointing, At, Swapped, IsRecordOf, Others
  <2>3. QED
    BY <2>1, <2>2
<1>10. QED
  BY <1>1, <1>2, <1>5, <1>6, <1>8, <1>9 DEF Pointing

LEMMA PointingSetPrimary ==
  ASSUME TypeInv, Pointing, NEW t \in Threads, SetPrimary(t)
  PROVE  Pointing'
<1> SUFFICES ASSUME trusted' PROVE Pointing'
  BY DEF Pointing
<1>1. /\ At(t, "primary") /\ NewOffset(t) /\ trusted
      /\ UNCHANGED <<file, orphan, writeOffset>>
  BY DEF SetPrimary, disk, history
<1>2. Handle' = Handle
  BY <1>1 DEF Handle
<1>3. PICK k \in DOMAIN Handle.records : IsRecordOf(k, t)
  BY <1>1 DEF Pointing
<1>4. ASSUME NEW d \in Documents, primary'[d] # Nothing PROVE Points(primary[d], d)'
  <2>1. primary' = [primary EXCEPT ![call[t].doc] =
                      IF call[t].kind = "delete" THEN Nothing ELSE call[t].offset]
    BY <1>1 DEF NewOffset
  <2>2. primary \in [Documents -> Nat \cup {Nothing}]
    BY DEF TypeInv, TypeOK
  <2>3. CASE d = call[t].doc
    <3>1. call[t].kind # "delete" /\ primary'[d] = call[t].offset
      BY <1>4, <2>1, <2>2, <2>3
    <3>2. QED
      BY <1>2, <1>3, <2>3, <3>1 DEF Points, IsRecordOf
  <2>4. CASE d # call[t].doc
    <3>1. primary'[d] = primary[d]
      BY <2>1, <2>2, <2>4
    <3>2. QED
      BY <1>1, <1>2, <1>4, <3>1 DEF Pointing, Points
  <2>5. QED
    BY <2>3, <2>4
<1>5. ASSUME NEW u \in Threads
      PROVE  /\ At(u, "primary")' => \E j \in DOMAIN Handle'.records : IsRecordOf(j, u)'
             /\ ~Swapped(u)'
  BY <1>1, <1>2, AfterSetPrimary DEF Pointing, At, Swapped, IsRecordOf, Others
<1>6. QED
  BY <1>1, <1>4, <1>5 DEF Pointing

\* The index of a scan has offsets at which the scan found a record, and of
\* each document it did not see deleted last the last one.
LEMMA RebuiltPoints ==
  ASSUME NEW f \in File, NEW d \in Documents, Rebuilt(ScanAll(f))[d] # Nothing
  PROVE  \E k \in DOMAIN f.records : /\ f.records[k].at = Rebuilt(ScanAll(f))[d]
                                     /\ f.records[k].doc = d
                                     /\ f.records[k].kind # "delete"
                                     /\ k \in DOMAIN ScanAll(f) /\ ScanAll(f)[k] = f.records[k]
<1> DEFINE s == ScanAll(f)
<1> DEFINE last == CHOOSE k \in LastOf(s, d) : TRUE
<1>1. Rebuilt(s)[d] = IF \E k \in LastOf(s, d) : s[k].kind # "delete" THEN s[last].at ELSE Nothing
  BY DEF Rebuilt
<1>2. PICK k \in LastOf(s, d) : s[k].kind # "delete"
  BY <1>1
<1>3. \A j \in DOMAIN s : j \in Nat /\ j \in DOMAIN f.records /\ s[j] = f.records[j]
  BY ScanPrefix
<1>4. last \in LastOf(s, d)
  BY <1>2
<1>5. last \in DOMAIN s /\ s[last].doc = d /\ last = k
  BY <1>2, <1>3, <1>4 DEF LastOf
<1>6. Rebuilt(s)[d] = s[last].at /\ s[last].kind # "delete"
  BY <1>1, <1>2, <1>5
<1>7. QED
  BY <1>3, <1>5, <1>6

LEMMA PointingInstall ==
  ASSUME TypeInv, Scanned, NEW t \in Threads, Install(t)
  PROVE  Pointing'
<1>1. /\ At(t, "install") /\ writeOffset' = call[t].offset /\ Become(t, Idle)
      /\ primary' = Rebuilt(call[t].records) /\ UNCHANGED <<file, orphan>>
  BY DEF Install, disk
<1>2. /\ orphan = Nothing /\ file # Nothing /\ call[t].offset = file.bytes
      /\ call[t].records = ScanAll(file) /\ \A u \in Threads : u # t => At(u, "idle")
  BY <1>1 DEF Scanned
<1>3. Handle' = file /\ file \in File
  BY <1>1, <1>2 DEF Handle, TypeInv, TypeOK
<1>4. ASSUME NEW d \in Documents, primary'[d] # Nothing PROVE Points(primary[d], d)'
  BY <1>1, <1>2, <1>3, <1>4, RebuiltPoints DEF Points
<1>5. \A u \in Threads : call'[u].pc = "idle"
  BY <1>2, AfterEnd DEF Others, At, Idle, Ends
<1>6. QED
  BY <1>1, <1>2, <1>4, <1>5 DEF Pointing, At, Swapped

LEMMA PointingNext ==
  ASSUME TypeInv, Scanned, Pointing, [Next]_vars
  PROVE  Pointing'
<1>1. ASSUME NEW t \in Threads, Step(t) PROVE Pointing'
  <2>1. CASE \E d \in Documents : (\E v \in Values : Put(t, d, v) \/ Update(t, d, v)) \/ Delete(t, d)
    <3>1. Others(t) /\ call'[t].pc \in {"collect", "append"}
      BY <2>1, AfterBegin DEF Put, Update, Delete
    <3>2. UNCHANGED <<file, orphan, writeOffset, primary, trusted>>
      BY <2>1 DEF Put, Update, Delete, Begin, disk, indexes, history
    <3>3. QED
      BY <3>1, <3>2, PointingStays DEF Others, At, Swapped
  <2>2. CASE Collect(t) \/ UnindexOrdered(t) \/ IndexOrdered(t)
    <3>1. Others(t) /\ call'[t].pc \in {"append", "notify", "unexact", "exact"}
      BY <2>2, AfterCollect, AfterOrdered DEF AfterUnindex
    <3>2. UNCHANGED <<file, orphan, writeOffset, primary, trusted>>
      BY <2>2 DEF Collect, UnindexOrdered, IndexOrdered, disk, indexes, history
    <3>3. QED
      BY <3>1, <3>2, PointingStays DEF Others, At, Swapped
  <2>3. CASE UnindexExact(t) \/ IndexExact(t)
    <3>1. Others(t) /\ call'[t].pc \in {"unordered", "ordered"}
      BY <2>3, AfterExact
    <3>2. UNCHANGED <<file, orphan, writeOffset, primary, trusted>>
      BY <2>3 DEF UnindexExact, IndexExact, disk, history
    <3>3. QED
      BY <3>1, <3>2, PointingStays DEF Others, At, Swapped
  <2>4. CASE Compact(t) \/ CompactOpen(t) \/ CompactWrite(t)
    <3>1. Others(t) /\ call'[t].pc \in {"compact_open", "compact_write", "compact_remove"}
      BY <2>4, AfterCompact, AfterCompactStep, AfterCompactWrite
    <3>2. UNCHANGED <<file, orphan, writeOffset, primary, trusted>>
      BY <2>4 DEF Compact, CompactOpen, CompactWrite, disk, indexes, history
    <3>3. QED
      BY <3>1, <3>2, PointingStays DEF Others, At, Swapped
  <2>5. CASE CompactRemove(t)
    BY <2>5 DEF CompactRemove, Pointing
  <2>6. CASE CompactRename(t) \/ CompactReopen(t) \/ CompactMeasure(t) \/ CompactResize(t)
    <3>1. Swapped(t) /\ trusted' = trusted
      BY <2>6 DEF CompactRename, CompactReopen, CompactMeasure, CompactResize, At, Swapped, history
    <3>2. QED
      BY <3>1 DEF Pointing
  <2>7. CASE InitDatabase(t) \/ Reinit(t)
    <3>1. /\ file' = Opened(file) /\ UNCHANGED <<orphan, writeOffset, primary, trusted>>
          /\ Become(t, [Idle EXCEPT !.pc = "install", !.offset = Opened(file).bytes,
                                    !.records = ScanAll(Opened(file))])
      BY <2>7 DEF InitDatabase, Reinit, Scan, indexes, history
    <3>2. Others(t) /\ call'[t].pc = "install"
      BY <3>1, CallType DEF Become, Others, Idle
    <3>3. trusted => file' = file
      BY <3>1 DEF Pointing, Opened
    <3>4. CASE trusted
      BY <3>1, <3>2, <3>3, <3>4, PointingStays DEF Others, At, Swapped
    <3>5. QED
      BY <3>1, <3>4 DEF Pointing
  <2>8. CASE Notify(t) \/ Close(t)
    <3>1. UNCHANGED <<file, orphan, writeOffset, primary, trusted>>
      BY <2>8 DEF Notify, Close, disk, indexes, history
    <3>2. \A u \in Threads : call'[u] = call[u] \/ call'[u].pc = "idle"
      BY <2>8, AfterEnd DEF Ends, Others, Idle, Close
    <3>3. QED
      BY <3>1, <3>2, PointingStays DEF At, Swapped
  <2>9. CASE AppendFails(t)
    <3>1. PICK n \in {0, TornLength} :
            /\ ToHandle(IF n = 0 THEN Handle ELSE Spoilt(Handle, n))
            /\ trusted' = (trusted /\ n = 0)
      BY <2>9 DEF AppendFails
    <3>2. UNCHANGED <<writeOffset, primary>>
      BY <2>9 DEF AppendFails, indexes
    <3>3. \A u \in Threads : call'[u] = call[u] \/ call'[u].pc = "idle"
      BY <2>9, AfterEnd DEF Ends, Others, Idle
    <3>4. CASE trusted'
      <4>1. UNCHANGED <<file, orphan>> /\ trusted
        BY <3>1, <3>4 DEF ToHandle, Handle
      <4>2. QED
        BY <3>2, <3>3, <4>1, PointingStays DEF At, Swapped
    <3>5. QED
      BY <3>4 DEF Pointing
  <2>10. QED
    BY <1>1, <2>1, <2>2, <2>3, <2>4, <2>5, <2>6, <2>7, <2>8, <2>9, PointingAppend,
       PointingSetPrimary, PointingInstall DEF Step
<1>2. ASSUME NEW c \in Watched, Subscribe(c) \/ Unsubscribe(c) \/ Receive(c) PROVE Pointing'
  <2>1. UNCHANGED <<file, orphan, writeOffset, primary, trusted, call>>
    BY <1>2 DEF Subscribe, Unsubscribe, Receive, disk, indexes, history
  <2>2. QED
    BY <2>1, PointingStays
<1>3. CASE Crash
  BY <1>3 DEF Crash, Pointing
<1>4. CASE UNCHANGED vars
  <2>1. UNCHANGED <<file, orphan, writeOffset, primary, trusted, call>>
    BY <1>4 DEF vars, disk, indexes, history
  <2>2. QED
    BY <2>1, PointingStays
<1>5. QED
  BY <1>1, <1>2, <1>3, <1>4 DEF Next

LEMMA IndexInit == Init => IndexInv
<1>1. Init => Scanned /\ Pointing
  BY DEF Init, Scanned, Pointing, At, Idle
<1>2. QED
  BY <1>1, TypeInit DEF IndexInv

LEMMA IndexNext == ScansAlone /\ IndexInv /\ [Next]_vars => IndexInv'
  BY TypeNext, ScannedNext, PointingNext DEF IndexInv

\* Whatever documents the threads write, an offset in the primary index is where
\* a record of that document starts, so that get never returns the bytes of
\* another document: until the file is rewritten or half written under the
\* index, and if no other thread writes while torex_init scans.
THEOREM OffsetsPoint ==
  ASSUME ScansAlone
  PROVE  Spec => []IndexPoints
<1>1. Init => IndexInv
  BY IndexInit
<1>2. IndexInv /\ [Next]_vars => IndexInv'
  BY IndexNext
<1>3. IndexInv => IndexPoints
  BY DEF IndexInv, Pointing, IndexPoints
<1>4. QED
  BY <1>1, <1>2, <1>3, PTL DEF Spec

-----------------------------------------------------------------------------
(* Acknowledged values and the index.                                        *)

\* A call whose record the index has, and its document.
Past(t) == \/ call[t].pc \in {"exact", "ordered", "notify"}
           \/ call[t].kind = "delete" /\ call[t].pc \in {"collect", "unexact", "unordered"}

\* The index has the value of the call on a document that went furthest, and
\* without one the value that was acknowledged.
Answering ==
  trusted => \A d \in Documents :
    /\ \A t \in Threads : Past(t) /\ call[t].doc = d => DataAt(primary, d) = call[t].data
    /\ \/ DataAt(primary, d) = acked[d]
       \/ \E t \in Threads : Past(t) /\ call[t].doc = d

AckedInv == IndexInv /\ Answering

LEMMA UniqueOffset ==
  ASSUME NEW f \in File, Sound(f), NEW j \in DOMAIN f.records, NEW k \in DOMAIN f.records,
         f.records[j].at = f.records[k].at
  PROVE  j = k
<1>1. /\ j \in Nat /\ k \in Nat
      /\ f.records[j].at \in Nat /\ Body(f.records[j]) \in Nat
      /\ f.records[k].at \in Nat /\ Body(f.records[k]) \in Nat
  BY RecordsOfFile
<1>2. /\ j < k => f.records[j].at + Written + Body(f.records[j]) <= f.records[k].at
      /\ k < j => f.records[k].at + Written + Body(f.records[k]) <= f.records[j].at
  BY DEF Sound
<1>3. QED
  BY <1>1, <1>2 DEF Written

\* The data at an offset of a file, which DataAt looks up in the handle.
DataIn(f, offset) ==
  IF offset = Nothing THEN Nothing
  ELSE LET hits == {k \in DOMAIN f.records : f.records[k].at = offset}
       IN  IF hits = {} THEN Nothing ELSE f.records[CHOOSE k \in hits : TRUE].data

LEMMA DataAtIsDataIn ==
  /\ \A offsets, d : DataAt(offsets, d) = DataIn(Handle, offsets[d])
  /\ \A d : DataAt(primary, d)' = DataIn(Handle', primary'[d])
  BY DEF DataAt, DataIn

\* The data at an offset are those of the record that starts there.
LEMMA DataOfRecord ==
  ASSUME NEW f \in File, Sound(f), NEW k \in DOMAIN f.records
  PROVE  DataIn(f, f.records[k].at) = f.records[k].data
<1> DEFINE hits == {j \in DOMAIN f.records : f.records[j].at = f.records[k].at}
<1>1. f.records[k].at # Nothing
  BY RecordsOfFile, NothingAssumption
<1>2. hits = {k}
  BY UniqueOffset
<1>3. (CHOOSE j \in hits : TRUE) = k
  BY <1>2
<1>4. QED
  BY <1>1, <1>2, <1>3 DEF DataIn

\* A record more at the end changes no data.
LEMMA DataStays ==
  ASSUME NEW f \in File, Sound(f), NEW g \in File, Sound(g),
         DOMAIN f.records \subseteq DOMAIN g.records,
         \A k \in DOMAIN f.records : g.records[k] = f.records[k],
         NEW offset, offset = Nothing \/ \E k \in DOMAIN f.records : f.records[k].at = offset
  PROVE  DataIn(g, offset) = DataIn(f, offset)
<1>1. CASE offset = Nothing
  BY <1>1 DEF DataIn
<1>2. ASSUME NEW k \in DOMAIN f.records, f.records[k].at = offset
      PROVE  DataIn(g, offset) = DataIn(f, offset)
  <2>1. k \in DOMAIN g.records /\ g.records[k] = f.records[k]
    OBVIOUS
  <2>2. DataIn(f, offset) = f.records[k].data /\ DataIn(g, offset) = g.records[k].data
    BY <1>2, <2>1, DataOfRecord
  <2>3. QED
    BY <2>1, <2>2
<1>3. QED
  BY <1>1, <1>2

\* Steps that change no data, no acknowledged value and no call that is past the
\* index.
LEMMA AnsweringStays ==
  ASSUME Answering, UNCHANGED acked, trusted' => trusted,
         \A d \in Documents : trusted' => DataAt(primary, d)' = DataAt(primary, d),
         \A u \in Threads : \/ call'[u] = call[u]
                            \/ /\ Past(u)' <=> Past(u)
                               /\ Past(u) => /\ call'[u].doc = call[u].doc
                                             /\ call'[u].data = call[u].data
  PROVE  Answering'
<1> SUFFICES ASSUME trusted' PROVE Answering'
  BY DEF Answering
<1>1. \A u \in Threads : /\ Past(u)' <=> Past(u)
                         /\ Past(u) => /\ call'[u].doc = call[u].doc
                                       /\ call'[u].data = call[u].data
  BY DEF Past
<1>2. ASSUME NEW d \in Documents
      PROVE  /\ \A t \in Threads : Past(t)' /\ call'[t].doc = d
                                     => DataAt(primary, d)' = call'[t].data
             /\ \/ DataAt(primary, d)' = acked'[d]
                \/ \E t \in Threads : Past(t)' /\ call'[t].doc = d
  <2>1. /\ \A t \in Threads : Past(t) /\ call[t].doc = d => DataAt(primary, d) = call[t].data
        /\ \/ DataAt(primary, d) = acked[d]
           \/ \E t \in Threads : Past(t) /\ call[t].doc = d
    BY DEF Answering
  <2>2. DataAt(primary, d)' = DataAt(primary, d)
    OBVIOUS
  <2>3. QED
    BY <1>1, <2>1, <2>2
<1>3. QED
  BY <1>2 DEF Answering

LEMMA SameData ==
  ASSUME UNCHANGED <<file, orphan, primary>>
  PROVE  \A d \in Documents : DataAt(primary, d)' = DataAt(primary, d)
<1>1. Handle' = Handle
  BY DEF Handle
<1>2. QED
  BY <1>1, DataAtIsDataIn

\* A record more leaves the data of all documents as they are.
LEMMA AppendKeepsData ==
  ASSUME TypeInv, Pointing, trusted, NEW t \in Threads, AppendRecord(t), NEW d \in Documents
  PROVE  DataAt(primary, d)' = DataAt(primary, d)
<1>1. /\ At(t, "append") /\ ToHandle(AppendedTo(Handle, RecordOf(t)))
      /\ UNCHANGED primary
  BY DEF AppendRecord, indexes
<1>2. orphan = Nothing /\ file # Nothing /\ Handle = file
  BY DEF Pointing, Handle
<1>3. file' = AppendedTo(file, RecordOf(t)) /\ Handle' = file'
  BY <1>1, <1>2 DEF ToHandle, Handle
<1>4. file \in File /\ Sound(file)
  BY <1>2 DEF TypeInv, TypeOK, SoundFiles
<1>5. IsRecord(RecordOf(t))
  BY CallType DEF IsRecord, RecordOf
<1>6. RecordOf(t).kind = "delete" <=> RecordOf(t).data = Nothing
  BY <1>1, CallType DEF At, WriteSteps, RecordOf
<1>7. /\ file' \in File /\ Sound(file') /\ Len(file'.records) = Len(file.records) + 1
      /\ \A k \in DOMAIN file.records : file'.records[k] = file.records[k]
  BY <1>3, <1>4, <1>5, <1>6, AppendedSound
<1>8. DOMAIN file.records \subseteq DOMAIN file'.records
  BY <1>4, <1>7, RecordsOfFile
<1>9. primary[d] = Nothing \/ \E k \in DOMAIN file.records : file.records[k].at = primary[d]
  BY <1>2 DEF Pointing, Points
<1>10. DataIn(file', primary[d]) = DataIn(file, primary[d])
  BY <1>4, <1>7, <1>8, <1>9, DataStays
<1>11. QED
  BY <1>1, <1>2, <1>3, <1>10, DataAtIsDataIn

LEMMA AnsweringAppend ==
  ASSUME TypeInv, Pointing, Answering, NEW t \in Threads, AppendRecord(t)
  PROVE  Answering'
<1>1. At(t, "append") /\ UNCHANGED <<acked, trusted>>
  BY DEF AppendRecord, history
<1>2. \A d \in Documents : trusted' => DataAt(primary, d)' = DataAt(primary, d)
  BY <1>1, AppendKeepsData
<1>3. \A u \in Threads : call'[u] = call[u] \/ (~Past(u) /\ ~Past(u)')
  BY <1>1, AfterAppend DEF Others, Past, At
<1>4. QED
  BY <1>1, <1>2, <1>3, AnsweringStays

\* Two calls past the index are on two documents.
LEMMA PastApart ==
  ASSUME OwnDocuments, TypeInv, NEW t \in Threads, NEW u \in Threads,
         Writing(t), Past(u), call[u].doc = call[t].doc
  PROVE  u = t
<1>1. call[t].doc \in Home[t] /\ call[u].doc \in Home[u]
  BY DEF TypeInv, SoundCalls, SoundCall, Writing, Past
<1>2. QED
  BY <1>1 DEF OwnDocuments

LEMMA AnsweringSetPrimary ==
  ASSUME OwnDocuments, TypeInv, Pointing, Answering, NEW t \in Threads, SetPrimary(t)
  PROVE  Answering'
<1> SUFFICES ASSUME trusted' PROVE Answering'
  BY DEF Answering
<1>1. /\ At(t, "primary") /\ trusted /\ UNCHANGED <<file, orphan, acked>>
      /\ primary' = [primary EXCEPT ![call[t].doc] =
                       IF call[t].kind = "delete" THEN Nothing ELSE call[t].offset]
  BY DEF SetPrimary, NewOffset, disk, history
<1>2. Handle' = Handle /\ Handle \in File /\ Sound(Handle) /\ Writing(t) /\ ~Past(t)
  BY <1>1, HandleSound DEF Handle, Writing, Past, At
<1>3. PICK k \in DOMAIN Handle.records : IsRecordOf(k, t)
  BY <1>1 DEF Pointing
<1>4. Others(t) /\ Keeps(t) /\ Past(t)'
  BY AfterSetPrimary DEF Past, Keeps
<1>5. ASSUME NEW d \in Documents
      PROVE  /\ \A u \in Threads : Past(u)' /\ call'[u].doc = d
                                     => DataAt(primary, d)' = call'[u].data
             /\ \/ DataAt(primary, d)' = acked'[d]
                \/ \E u \in Threads : Past(u)' /\ call'[u].doc = d
  <2>1. primary \in [Documents -> Nat \cup {Nothing}]
    BY DEF TypeInv, TypeOK
  <2>2. CASE d = call[t].doc
    <3>1. DataAt(primary, d)' = call[t].data
      <4>1. primary'[d] = IF call[t].kind = "delete" THEN Nothing ELSE call[t].offset
        BY <1>1, <2>1, <2>2
      <4>2. CASE call[t].kind = "delete"
        <5>1. call[t].data = Nothing
          BY <1>1, <4>2, CallType DEF At, WriteSteps
        <5>2. QED
          BY <4>1, <4>2, <5>1, DataAtIsDataIn DEF DataIn
      <4>3. CASE call[t].kind # "delete"
        <5>1. DataIn(Handle, Handle.records[k].at) = Handle.records[k].data
          BY <1>2, <1>3, DataOfRecord
        <5>2. QED
          BY <1>2, <1>3, <4>1, <4>3, <5>1, DataAtIsDataIn DEF IsRecordOf
      <4>4. QED
        BY <4>2, <4>3
    <3>2. \A u \in Threads : u # t => ~(Past(u)' /\ call'[u].doc = d)
      <4>1. ASSUME NEW u \in Threads, u # t, Past(u)', call'[u].doc = d PROVE FALSE
        <5>1. Past(u) /\ call[u].doc = call[t].doc
          BY <1>4, <2>2, <4>1 DEF Past, Others
        <5>2. QED
          BY <1>2, <4>1, <5>1, PastApart
      <4>2. QED
        BY <4>1
    <3>3. QED
      BY <1>4, <2>2, <3>1, <3>2 DEF Keeps
  <2>3. CASE d # call[t].doc
    <3>1. DataAt(primary, d)' = DataAt(primary, d)
      <4>1. primary'[d] = primary[d]
        BY <1>1, <2>1, <2>3
      <4>2. QED
        BY <1>2, <4>1, DataAtIsDataIn
    <3>2. \A u \in Threads : /\ (Past(u)' /\ call'[u].doc = d) <=> (Past(u) /\ call[u].doc = d)
                             /\ call[u].data = call'[u].data \/ u = t
      BY <1>4, <2>3 DEF Past, Others, Keeps
    <3>3. /\ \A u \in Threads : Past(u) /\ call[u].doc = d => DataAt(primary, d) = call[u].data
          /\ \/ DataAt(primary, d) = acked[d]
             \/ \E u \in Threads : Past(u) /\ call[u].doc = d
      BY <1>1 DEF Answering
    <3>4. call'[t].doc # d
      BY <1>4, <2>3 DEF Keeps
    <3>5. QED
      BY <1>1, <3>1, <3>2, <3>3, <3>4
  <2>4. QED
    BY <2>2, <2>3
<1>6. QED
  BY <1>5 DEF Answering

LEMMA AnsweringNotify ==
  ASSUME TypeInv, Answering, NEW t \in Threads, Notify(t)
  PROVE  Answering'
<1> SUFFICES ASSUME trusted' PROVE Answering'
  BY DEF Answering
<1>1. /\ At(t, "notify") /\ trusted /\ UNCHANGED <<file, orphan, primary>>
      /\ acked' = [acked EXCEPT ![call[t].doc] = call[t].data]
  BY DEF Notify, disk, indexes
<1>2. Others(t) /\ Past(t) /\ ~Past(t)'
  BY <1>1, AfterEnd DEF Past, Ends, At, Idle
<1>3. ASSUME NEW d \in Documents
      PROVE  /\ \A u \in Threads : Past(u)' /\ call'[u].doc = d
                                     => DataAt(primary, d)' = call'[u].data
             /\ \/ DataAt(primary, d)' = acked'[d]
                \/ \E u \in Threads : Past(u)' /\ call'[u].doc = d
  <2>1. DataAt(primary, d)' = DataAt(primary, d)
    BY <1>1, SameData
  <2>2. acked \in [Documents -> MaybeValue]
    BY DEF TypeInv, TypeOK
  <2>3. /\ \A u \in Threads : Past(u) /\ call[u].doc = d => DataAt(primary, d) = call[u].data
        /\ \/ DataAt(primary, d) = acked[d]
           \/ \E u \in Threads : Past(u) /\ call[u].doc = d
    BY <1>1 DEF Answering
  <2>4. \A u \in Threads : u # t => /\ call'[u] = call[u]
                                    /\ Past(u)' <=> Past(u)
    BY <1>2 DEF Past, Others
  <2>5. CASE d = call[t].doc
    <3>1. acked'[d] = call[t].data
      BY <1>1, <2>2, <2>5
    <3>2. QED
      BY <1>2, <2>1, <2>3, <2>4, <2>5, <3>1
  <2>6. CASE d # call[t].doc
    <3>1. acked'[d] = acked[d]
      BY <1>1, <2>2, <2>6
    <3>2. QED
      BY <1>2, <2>1, <2>3, <2>4, <2>6, <3>1
  <2>7. QED
    BY <2>5, <2>6
<1>4. QED
  BY <1>3 DEF Answering

LEMMA AnsweringInstall ==
  ASSUME TypeInv, Scanned, NEW t \in Threads, Install(t)
  PROVE  Answering'
<1>1. /\ At(t, "install") /\ primary' = Rebuilt(call[t].records)
      /\ UNCHANGED <<file, orphan>>
      /\ acked' = [d \in Documents |-> DataAt(Rebuilt(call[t].records), d)]
  BY DEF Install, disk
<1>2. \A u \in Threads : call'[u] = Idle \/ call'[u].pc = "idle"
  BY <1>1, AfterEnd DEF Ends, Others, Scanned, At
<1>3. \A u \in Threads : ~Past(u)'
  BY <1>2 DEF Past, Idle
<1>4. \A d \in Documents : DataAt(primary, d)' = acked'[d]
  <2>1. Handle' = Handle
    BY <1>1 DEF Handle
  <2>2. QED
    BY <1>1, <2>1, DataAtIsDataIn
<1>5. QED
  BY <1>3, <1>4 DEF Answering

LEMMA AnsweringNext ==
  ASSUME OwnDocuments, TypeInv, TypeInv', Scanned, Pointing, Answering, [Next]_vars
  PROVE  Answering'
<1>1. ASSUME NEW t \in Threads, Step(t) PROVE Answering'
  <2>1. CASE \E d \in Documents : (\E v \in Values : Put(t, d, v) \/ Update(t, d, v)) \/ Delete(t, d)
    <3>1. UNCHANGED <<file, orphan, primary, acked, trusted>> /\ At(t, "idle")
      BY <2>1 DEF Put, Update, Delete, Begin, disk, indexes, history
    <3>2. Others(t) /\ ~Past(t)' /\ ~Past(t)
      BY <2>1, <3>1, AfterBegin DEF Put, Update, Delete, Past, At
    <3>3. QED
      BY <3>1, <3>2, SameData, AnsweringStays DEF Others
  <2>2. CASE Collect(t) \/ UnindexOrdered(t) \/ IndexOrdered(t)
    <3>1. UNCHANGED <<file, orphan, primary, acked, trusted>>
      BY <2>2 DEF Collect, UnindexOrdered, IndexOrdered, disk, indexes, history
    <3>2. /\ call[t].pc \in {"collect", "unordered", "ordered"}
          /\ call[t].pc \in {"collect", "unordered"} => call[t].kind \in {"update", "delete"}
      BY <2>2, CallType DEF Collect, UnindexOrdered, IndexOrdered, At, Kinds
    <3>3. Others(t) /\ Keeps(t) /\ (Past(t)' <=> Past(t))
      <4>1. CASE Collect(t)
        BY <3>2, <4>1, AfterCollect DEF Past, Keeps, AfterUnindex, Collect, At
      <4>2. CASE UnindexOrdered(t)
        BY <3>2, <4>2, AfterOrdered DEF Past, Keeps, AfterUnindex, UnindexOrdered, At
      <4>3. CASE IndexOrdered(t)
        BY <4>3, AfterOrdered DEF Past, Keeps, IndexOrdered, At
      <4>4. QED
        BY <2>2, <4>1, <4>2, <4>3
    <3>4. QED
      BY <3>1, <3>3, SameData, AnsweringStays DEF Others, Keeps
  <2>3. CASE UnindexExact(t) \/ IndexExact(t)
    <3>1. UNCHANGED <<file, orphan, primary, acked, trusted>>
      BY <2>3 DEF UnindexExact, IndexExact, disk, history
    <3>2. Others(t) /\ Keeps(t) /\ (Past(t)' <=> Past(t))
      <4>1. CASE UnindexExact(t)
        BY <4>1, AfterExact DEF Past, Keeps, UnindexExact, At
      <4>2. CASE IndexExact(t)
        BY <4>2, AfterExact DEF Past, Keeps, IndexExact, At
      <4>3. QED
        BY <2>3, <4>1, <4>2
    <3>3. QED
      BY <3>1, <3>2, SameData, AnsweringStays DEF Others, Keeps
  <2>4. CASE Compact(t) \/ CompactOpen(t) \/ CompactWrite(t)
    <3>1. UNCHANGED <<file, orphan, primary, acked, trusted>>
      BY <2>4 DEF Compact, CompactOpen, CompactWrite, disk, indexes, history
    <3>2. Others(t) /\ ~Past(t) /\ ~Past(t)'
      BY <2>4, AfterCompact, AfterCompactStep, AfterCompactWrite
         DEF Past, Compact, CompactOpen, CompactWrite, At
    <3>3. QED
      BY <3>1, <3>2, SameData, AnsweringStays DEF Others
  <2>5. CASE CompactRemove(t)
    BY <2>5 DEF CompactRemove, Answering
  <2>6. CASE CompactRename(t) \/ CompactReopen(t) \/ CompactMeasure(t) \/ CompactResize(t)
    <3>1. Swapped(t) /\ trusted' = trusted
      BY <2>6 DEF CompactRename, CompactReopen, CompactMeasure, CompactResize, At, Swapped, history
    <3>2. QED
      BY <3>1 DEF Pointing, Answering
  <2>7. CASE InitDatabase(t) \/ Reinit(t)
    <3>1. /\ At(t, "idle") /\ file' = Opened(file)
          /\ UNCHANGED <<orphan, primary, acked, trusted>>
          /\ Become(t, [Idle EXCEPT !.pc = "install", !.offset = Opened(file).bytes,
                                    !.records = ScanAll(Opened(file))])
      BY <2>7 DEF InitDatabase, Reinit, Scan, indexes, history
    <3>2. Others(t) /\ call'[t].pc = "install" /\ call'[t].kind = "insert"
      BY <3>1, CallType DEF Become, Others, Idle
    <3>3. ~Past(t) /\ ~Past(t)'
      BY <3>1, <3>2 DEF Past, At
    <3>4. trusted => file' = file
      BY <3>1 DEF Pointing, Opened
    <3>5. CASE trusted
      BY <3>1, <3>2, <3>3, <3>4, <3>5, SameData, AnsweringStays DEF Others
    <3>6. QED
      BY <3>1, <3>5 DEF Answering
  <2>8. CASE Close(t)
    <3>1. UNCHANGED <<file, orphan, primary, acked, trusted, call>>
      BY <2>8 DEF Close, disk, indexes, history
    <3>2. QED
      BY <3>1, SameData, AnsweringStays
  <2>9. CASE AppendFails(t)
    <3>1. PICK n \in {0, TornLength} :
            /\ ToHandle(IF n = 0 THEN Handle ELSE Spoilt(Handle, n))
            /\ trusted' = (trusted /\ n = 0)
      BY <2>9 DEF AppendFails
    <3>2. UNCHANGED <<primary, acked>> /\ Others(t) /\ ~Past(t) /\ ~Past(t)'
      <4>1. call[t].pc = "append" /\ UNCHANGED <<primary, acked>>
        BY <2>9 DEF AppendFails, indexes, At
      <4>2. Others(t) /\ call'[t].pc = "idle"
        BY <2>9, AfterEnd DEF Ends, Idle
      <4>3. QED
        BY <4>1, <4>2 DEF Past
    <3>3. CASE trusted'
      <4>1. UNCHANGED <<file, orphan>> /\ trusted
        BY <3>1, <3>3 DEF ToHandle, Handle
      <4>2. QED
        BY <3>2, <4>1, SameData, AnsweringStays DEF Others
    <3>4. QED
      BY <3>3 DEF Answering
  <2>10. QED
    BY <1>1, <2>1, <2>2, <2>3, <2>4, <2>5, <2>6, <2>7, <2>8, <2>9, AnsweringAppend,
       AnsweringSetPrimary, AnsweringNotify, AnsweringInstall DEF Step
<1>2. ASSUME NEW c \in Watched, Subscribe(c) \/ Unsubscribe(c) \/ Receive(c) PROVE Answering'
  <2>1. UNCHANGED <<file, orphan, primary, acked, trusted, call>>
    BY <1>2 DEF Subscribe, Unsubscribe, Receive, disk, indexes, history
  <2>2. QED
    BY <2>1, SameData, AnsweringStays
<1>3. CASE Crash
  BY <1>3 DEF Crash, Answering
<1>4. CASE UNCHANGED vars
  <2>1. UNCHANGED <<file, orphan, primary, acked, trusted, call>>
    BY <1>4 DEF vars, disk, indexes, history
  <2>2. QED
    BY <2>1, SameData, AnsweringStays
<1>5. QED
  BY <1>1, <1>2, <1>3, <1>4 DEF Next

LEMMA AckedInit == Init => AckedInv
<1>1. Init => Answering
  BY DEF Init, Answering
<1>2. QED
  BY <1>1, IndexInit DEF AckedInv

LEMMA AckedNext == ScansAlone /\ OwnDocuments /\ AckedInv /\ [Next]_vars => AckedInv'
<1> SUFFICES ASSUME ScansAlone, OwnDocuments, AckedInv, [Next]_vars PROVE AckedInv'
  OBVIOUS
<1>1. IndexInv'
  BY IndexNext DEF AckedInv
<1>2. Answering'
  BY <1>1, AnsweringNext DEF AckedInv, IndexInv
<1>3. QED
  BY <1>1, <1>2 DEF AckedInv

\* With no call under way the index has of each document the record of the value
\* acknowledged last and no offset of a deleted one, whatever other threads did
\* to other documents in between and whichever appends failed.
THEOREM AckedInIndex ==
  ASSUME ScansAlone, OwnDocuments
  PROVE  Spec => []AckedIndexed
<1>1. Init => AckedInv
  BY AckedInit
<1>2. AckedInv /\ [Next]_vars => AckedInv'
  BY AckedNext
<1>3. AckedInv => AckedIndexed
  <2>1. SUFFICES ASSUME AckedInv, up, trusted, AllIdle, NEW d \in Documents
                 PROVE  DataAt(primary, d) = acked[d]
    BY DEF AckedIndexed
  <2>2. \A t \in Threads : ~Past(t)
    BY <2>1 DEF Past, AllIdle, At
  <2>3. QED
    BY <2>1, <2>2 DEF AckedInv, Answering
<1>4. QED
  BY <1>1, <1>2, <1>3, PTL DEF Spec

\* What read_at finds at the offset of a record: the record, unless it is the
\* last of the file.
LEMMA ReadRecord ==
  ASSUME NEW f \in File, Sound(f), NEW k \in DOMAIN f.records
  PROVE  \/ ReadAt(f, f.records[k].at) = f.records[k]
         \/ k = Len(f.records) /\ ReadAt(f, f.records[k].at) = Nothing
<1> DEFINE o == f.records[k].at
<1>1. RecordsAt(f, o) = IF WholeFor(f, f.records[k]) THEN {k} ELSE {}
  BY UniqueOffset DEF RecordsAt
<1>2. CASE WholeFor(f, f.records[k])
  <2>1. RecordsAt(f, o) = {k}
    BY <1>1, <1>2
  <2>2. (CHOOSE j \in RecordsAt(f, o) : TRUE) = k
    BY <2>1
  <2>3. QED
    BY <2>1, <2>2 DEF ReadAt
<1>3. CASE ~WholeFor(f, f.records[k])
  <2>1. ReadAt(f, o) = Nothing
    BY <1>1, <1>3 DEF ReadAt
  <2>2. /\ k \in 1..Len(f.records) /\ Len(f.records) \in Nat /\ f.bytes \in Nat
        /\ DOMAIN f.records = 1..Len(f.records)
        /\ \A j \in DOMAIN f.records : f.records[j].at \in Nat /\ Body(f.records[j]) \in Nat
    BY RecordsOfFile
  <2>3. ASSUME k # Len(f.records) PROVE FALSE
    <3>1. k + 1 \in DOMAIN f.records /\ k < k + 1
      BY <2>2, <2>3
    <3>2. /\ f.records[k].at + Written + Body(f.records[k]) <= f.records[k + 1].at
          /\ f.records[k + 1].at + Written + Body(f.records[k + 1]) <= f.bytes
      BY <3>1 DEF Sound
    <3>3. /\ f.records[k].at \in Nat /\ Body(f.records[k]) \in Nat /\ f.bytes \in Nat
          /\ f.records[k + 1].at \in Nat /\ Body(f.records[k + 1]) \in Nat
      BY <2>2, <3>1
    <3>4. f.records[k].at + SIZE + Body(f.records[k]) <= f.bytes
      BY <3>2, <3>3 DEF SIZE, Written
    <3>5. QED
      BY <1>3, <3>4 DEF WholeFor
  <2>4. QED
    BY <2>1, <2>3
<1>4. QED
  BY <1>2, <1>3

\* What the reads find of a document when no call is under way.
LEMMA ReadsFind ==
  ASSUME AckedInv, up, trusted, AllIdle, NEW d \in Documents
  PROVE  /\ Exists(d) <=> acked[d] # Nothing
         /\ Get(d) = acked[d] \/ (AtEnd(d) /\ Get(d) = Nothing)
<1>1. DataAt(primary, d) = acked[d]
  <2>1. \A t \in Threads : ~Past(t)
    BY DEF Past, AllIdle, At
  <2>2. QED
    BY <2>1 DEF AckedInv, Answering
<1>2. Handle \in File /\ Sound(Handle) /\ Handle # Nothing
  <2>1. TypeInv /\ Handle # Nothing
    BY DEF AckedInv, IndexInv, TypeInv, HasFiles
  <2>2. QED
    BY <2>1, HandleSound
<1>3. CASE primary[d] = Nothing
  <2>1. acked[d] = Nothing
    BY <1>1, <1>3, DataAtIsDataIn DEF DataIn
  <2>2. QED
    BY <1>3, <2>1 DEF Exists, Get
<1>4. CASE primary[d] # Nothing
  <2>1. PICK k \in DOMAIN Handle.records : /\ Handle.records[k].at = primary[d]
                                           /\ Handle.records[k].kind # "delete"
    BY <1>4 DEF AckedInv, IndexInv, Pointing, Points
  <2>2. acked[d] = Handle.records[k].data
    BY <1>1, <1>2, <2>1, DataOfRecord, DataAtIsDataIn
  <2>3. Handle.records[k].data # Nothing
    BY <1>2, <2>1 DEF Sound
  <2>4. Handle.records[k] # Nothing
    BY <1>2, RecordsOfFile, NothingAssumption
  <2>5. CASE ReadAt(Handle, primary[d]) = Handle.records[k]
    BY <1>4, <2>1, <2>2, <2>3, <2>4, <2>5 DEF Exists, Get
  <2>6. CASE k = Len(Handle.records) /\ ReadAt(Handle, primary[d]) = Nothing
    <3>1. Handle.records # << >>
      BY <1>2, RecordsOfFile, EmptySeq
    <3>2. AtEnd(d)
      BY <2>1, <2>6, <3>1 DEF AtEnd
    <3>3. Exists(d) /\ Get(d) = Nothing
      BY <1>4, <2>6 DEF Exists, Get
    <3>4. QED
      BY <2>2, <2>3, <3>2, <3>3
  <2>7. QED
    BY <1>2, <2>1, <2>5, <2>6, ReadRecord
<1>5. QED
  BY <1>3, <1>4

\* With no call under way the reads agree with the calls: exists and count know
\* the documents whose last call left them there, get and get_all return their
\* values, but for the record at the end of the file.
THEOREM ReadsTellCalls ==
  ASSUME ScansAlone, OwnDocuments
  PROVE  Spec => []ReadsTell
<1>1. Init => AckedInv
  BY AckedInit
<1>2. AckedInv /\ [Next]_vars => AckedInv'
  BY AckedNext
<1>3. AckedInv => ReadsTell
  <2> SUFFICES ASSUME AckedInv, up, trusted, AllIdle PROVE ReadsTell
    BY DEF ReadsTell
  <2>1. ASSUME NEW c \in Collections, NEW present,
               present = {i \in Ids : acked[<<c, i>>] # Nothing}
        PROVE  /\ Count(c) = Cardinality(present)
               /\ GetAll(c) \subseteq {<<i, acked[<<c, i>>]>> : i \in present}
               /\ \A i \in Ids : /\ Exists(<<c, i>>) <=> i \in present
                                 /\ \/ Get(<<c, i>>) = acked[<<c, i>>]
                                    \/ AtEnd(<<c, i>>) /\ Get(<<c, i>>) = Nothing
    <3>1. \A i \in Ids : <<c, i>> \in Documents
      BY DEF Documents
    <3>2. \A i \in Ids : /\ Exists(<<c, i>>) <=> acked[<<c, i>>] # Nothing
                         /\ \/ Get(<<c, i>>) = acked[<<c, i>>]
                            \/ AtEnd(<<c, i>>) /\ Get(<<c, i>>) = Nothing
      BY <3>1, ReadsFind
    <3>3. IdsOf(c) = present
      BY <2>1, <3>2 DEF IdsOf
    <3>4. \A i \in IdsOf(c) : Get(<<c, i>>) # Nothing => Get(<<c, i>>) = acked[<<c, i>>]
      BY <3>2 DEF IdsOf
    <3>5. QED
      BY <2>1, <3>2, <3>3, <3>4 DEF Count, GetAll
  <2>2. QED
    BY <2>1 DEF ReadsTell
<1>4. QED
  BY <1>1, <1>2, <1>3, PTL DEF Spec

-----------------------------------------------------------------------------
(* The secondary index.                                                      *)

\* The two halves differ in the entries between the two steps of a thread, and
\* these are of the document of its call.
Halves ==
  /\ \A t \in Threads :
       /\ \A e \in call[t].entries \cup call[t].current : e[1] = call[t].doc
       /\ At(t, "unordered") => call[t].current \cap exact = {}
       /\ At(t, "ordered") => call[t].current \subseteq exact
       /\ call[t].current # {} => call[t].pc \in {"unordered", "ordered"}
       /\ call[t].entries # {} => Writing(t)
  /\ \A e \in Entries :
       (e \in exact <=> e \in ordered) \/ \E t \in Threads : e \in call[t].current

\* Steps that change neither half.
LEMMA HalvesStays ==
  ASSUME Halves, UNCHANGED <<exact, ordered>>, NEW t \in Threads, Others(t),
         call[t].current = {}, call'[t].current = {},
         \A e \in call'[t].entries : e[1] = call'[t].doc,
         call'[t].entries # {} => Writing(t)'
  PROVE  Halves'
<1>1. ASSUME NEW u \in Threads
      PROVE  /\ \A e \in call'[u].entries \cup call'[u].current : e[1] = call'[u].doc
             /\ At(u, "unordered")' => call'[u].current \cap exact' = {}
             /\ At(u, "ordered")' => call'[u].current \subseteq exact'
             /\ call'[u].current # {} => call'[u].pc \in {"unordered", "ordered"}
             /\ call'[u].entries # {} => Writing(u)'
             /\ call'[u].current = call[u].current
  <2>1. CASE u = t
    BY <2>1 DEF Halves, At
  <2>2. CASE u # t
    <3>1. call'[u] = call[u]
      BY <2>2 DEF Others
    <3>2. QED
      BY <3>1 DEF Halves, At, Writing
  <2>3. QED
    BY <2>1, <2>2
<1>2. QED
  BY <1>1 DEF Halves

LEMMA EntryOfDocument ==
  \A d, v : \A e \in EntriesFor(d, v) : e[1] = d
  BY DEF EntriesFor

\* The entries in the hands of another call are of another document.
LEMMA EntriesApart ==
  ASSUME OwnDocuments, TypeInv, Halves, NEW t \in Threads, NEW u \in Threads, u # t,
         Writing(t), NEW e, e[1] = call[t].doc
  PROVE  e \notin call[u].current /\ e \notin call[u].entries
<1>1. call[t].doc \in Home[t]
  BY DEF TypeInv, SoundCalls, SoundCall
<1>2. ASSUME e \in call[u].current \cup call[u].entries PROVE FALSE
  <2>1. call[u].doc = call[t].doc /\ Writing(u)
    BY <1>2 DEF Halves, Writing
  <2>2. call[u].doc \in Home[u]
    BY <2>1 DEF TypeInv, SoundCalls, SoundCall
  <2>3. QED
    BY <1>1, <2>1, <2>2 DEF OwnDocuments
<1>3. QED
  BY <1>2

LEMMA HalvesExact ==
  ASSUME OwnDocuments, TypeInv, Halves, NEW t \in Threads, UnindexExact(t) \/ IndexExact(t)
  PROVE  Halves'
<1>1. PICK e \in call[t].entries :
        /\ call'[t].entries = call[t].entries \ {e} /\ call'[t].current = {e}
        /\ UnindexExact(t) => exact' = exact \ {e}
        /\ IndexExact(t) => exact' = exact \cup {e}
  BY AfterExact
<1>2. /\ Others(t) /\ Keeps(t) /\ ordered' = ordered
      /\ UnindexExact(t) => call'[t].pc = "unordered"
      /\ IndexExact(t) => call'[t].pc = "ordered"
  BY AfterExact DEF UnindexExact, IndexExact
<1>3. call[t].pc \in {"unexact", "exact"} /\ call[t].current = {} /\ Writing(t)
  BY DEF UnindexExact, IndexExact, At, Halves, Writing
<1>4. e[1] = call[t].doc
  BY DEF Halves
<1>5. \A u \in Threads : u # t => e \notin call[u].current
  BY <1>3, <1>4, EntriesApart
<1>6. \A x : x # e => (x \in exact' <=> x \in exact)
  BY <1>1
<1>7. ASSUME NEW u \in Threads
      PROVE  /\ \A x \in call'[u].entries \cup call'[u].current : x[1] = call'[u].doc
             /\ At(u, "unordered")' => call'[u].current \cap exact' = {}
             /\ At(u, "ordered")' => call'[u].current \subseteq exact'
             /\ call'[u].current # {} => call'[u].pc \in {"unordered", "ordered"}
             /\ call'[u].entries # {} => Writing(u)'
  <2>1. CASE u = t
    <3>1. \A x \in call'[u].entries \cup call'[u].current : x[1] = call'[u].doc
      BY <1>1, <1>2, <1>4, <2>1 DEF Keeps, Halves
    <3>2. call'[u].pc \in {"unordered", "ordered"} /\ Writing(u)'
      BY <1>2, <2>1 DEF Writing
    <3>3. CASE UnindexExact(t)
      BY <1>1, <1>2, <2>1, <3>1, <3>2, <3>3 DEF At
    <3>4. CASE IndexExact(t)
      BY <1>1, <1>2, <2>1, <3>1, <3>2, <3>4 DEF At
    <3>5. QED
      BY <3>3, <3>4
  <2>2. CASE u # t
    <3>1. call'[u] = call[u]
      BY <1>2, <2>2 DEF Others
    <3>2. \A x \in call[u].current : x \in exact' <=> x \in exact
      BY <1>5, <1>6, <2>2
    <3>3. QED
      BY <3>1, <3>2 DEF Halves, At, Writing
  <2>3. QED
    BY <2>1, <2>2
<1>8. ASSUME NEW x \in Entries
      PROVE  (x \in exact' <=> x \in ordered') \/ \E u \in Threads : x \in call'[u].current
  <2>1. CASE x = e
    BY <1>1, <2>1
  <2>2. CASE x # e
    BY <1>2, <1>3, <1>6, <2>2 DEF Halves, Others
  <2>3. QED
    BY <2>1, <2>2
<1>9. QED
  BY <1>7, <1>8 DEF Halves

LEMMA HalvesOrdered ==
  ASSUME TypeInv, Halves, NEW t \in Threads, UnindexOrdered(t) \/ IndexOrdered(t)
  PROVE  Halves'
<1>1. /\ Others(t) /\ Keeps(t) /\ exact' = exact
      /\ call'[t].entries = call[t].entries /\ call'[t].current = {}
      /\ UnindexOrdered(t) => ordered' = ordered \ call[t].current
      /\ IndexOrdered(t) => ordered' = ordered \cup call[t].current
      /\ \A x \in call[t].current : x \in exact <=> IndexOrdered(t)
  BY AfterOrdered DEF UnindexOrdered, IndexOrdered, Halves, At
<1>2. call'[t].entries # {} => Writing(t)'
  BY AfterOrdered DEF Writing
<1>3. ASSUME NEW u \in Threads
      PROVE  /\ \A x \in call'[u].entries \cup call'[u].current : x[1] = call'[u].doc
             /\ At(u, "unordered")' => call'[u].current \cap exact' = {}
             /\ At(u, "ordered")' => call'[u].current \subseteq exact'
             /\ call'[u].current # {} => call'[u].pc \in {"unordered", "ordered"}
             /\ call'[u].entries # {} => Writing(u)'
  <2>1. CASE u = t
    BY <1>1, <1>2, <2>1 DEF Halves, Keeps
  <2>2. CASE u # t
    BY <1>1, <2>2 DEF Halves, Others, At, Writing
  <2>3. QED
    BY <2>1, <2>2
<1>4. ASSUME NEW x \in Entries
      PROVE  (x \in exact' <=> x \in ordered') \/ \E u \in Threads : x \in call'[u].current
  <2>1. CASE x \in call[t].current
    <3>1. UnindexOrdered(t) => ~IndexOrdered(t)
      BY DEF UnindexOrdered, IndexOrdered, At
    <3>2. QED
      BY <1>1, <2>1, <3>1
  <2>2. CASE x \notin call[t].current
    <3>1. x \in ordered' <=> x \in ordered
      BY <1>1, <2>2
    <3>2. QED
      BY <1>1, <2>2, <3>1 DEF Halves, Others
  <2>3. QED
    BY <2>1, <2>2
<1>5. QED
  BY <1>3, <1>4 DEF Halves

LEMMA HalvesNext ==
  ASSUME OwnDocuments, TypeInv, Halves, [Next]_vars
  PROVE  Halves'
<1>0. \A t \in Threads : ~Writing(t) => call[t].entries = {} /\ call[t].current = {}
  BY DEF Halves, Writing
<1>1. ASSUME NEW t \in Threads, Step(t) PROVE Halves'
  <2>1. CASE \E d \in Documents : (\E v \in Values : Put(t, d, v) \/ Update(t, d, v)) \/ Delete(t, d)
    <3>1. UNCHANGED <<exact, ordered>> /\ call[t].current = {}
      BY <2>1, <1>0 DEF Put, Update, Delete, Begin, indexes, At, Writing
    <3>2. Others(t) /\ call'[t].entries = {} /\ call'[t].current = {}
      BY <2>1, AfterBegin DEF Put, Update, Delete
    <3>3. QED
      BY <3>1, <3>2, HalvesStays
  <2>2. CASE Collect(t)
    <3>1. UNCHANGED <<exact, ordered>> /\ call[t].current = {}
      BY <2>2 DEF Collect, indexes, At, Halves
    <3>2. /\ Others(t) /\ call'[t].current = {} /\ Writing(t)'
          /\ \A e \in call'[t].entries : e[1] = call'[t].doc
      BY <2>2, <3>1, AfterCollect DEF Keeps, AfterUnindex, Writing
    <3>3. QED
      BY <3>1, <3>2, HalvesStays
  <2>3. CASE AppendRecord(t)
    <3>1. UNCHANGED <<exact, ordered>> /\ call[t].current = {}
      BY <2>3 DEF AppendRecord, indexes, At, Halves
    <3>2. /\ Others(t) /\ call'[t].current = {} /\ Writing(t)'
          /\ \A e \in call'[t].entries : e[1] = call'[t].doc
      BY <2>3, <3>1, AfterAppend DEF Keeps, Writing, Halves
    <3>3. QED
      BY <3>1, <3>2, HalvesStays
  <2>4. CASE SetPrimary(t)
    <3>1. UNCHANGED <<exact, ordered>> /\ call[t].current = {}
      BY <2>4 DEF SetPrimary, At, Halves
    <3>2. /\ Others(t) /\ call'[t].current = {} /\ Writing(t)'
          /\ \A e \in call'[t].entries : e[1] = call'[t].doc
      BY <2>4, <3>1, AfterSetPrimary, EntryOfDocument DEF Keeps, Writing
    <3>3. QED
      BY <3>1, <3>2, HalvesStays
  <2>5. CASE Compact(t)
    <3>1. UNCHANGED <<exact, ordered>> /\ call[t].current = {}
      BY <2>5, <1>0 DEF Compact, indexes, At, Writing
    <3>2. QED
      BY <2>5, <3>1, AfterCompact, HalvesStays
  <2>6. CASE CompactOpen(t) \/ CompactWrite(t) \/ CompactRemove(t) \/ CompactRename(t)
             \/ CompactReopen(t) \/ CompactMeasure(t)
    <3>1. UNCHANGED <<exact, ordered>> /\ call[t].entries = {} /\ call[t].current = {}
      BY <2>6, <1>0 DEF CompactOpen, CompactWrite, CompactRemove, CompactRename, CompactReopen,
                        CompactMeasure, indexes, At, Writing
    <3>2. Others(t) /\ Holds(t)
      BY <2>6, AfterCompactStep, AfterCompactWrite
    <3>3. QED
      BY <3>1, <3>2, HalvesStays DEF Holds
  <2>7. CASE InitDatabase(t) \/ Reinit(t)
    <3>1. /\ UNCHANGED <<exact, ordered>> /\ call[t].current = {}
          /\ Become(t, [Idle EXCEPT !.pc = "install", !.offset = Opened(file).bytes,
                                    !.records = ScanAll(Opened(file))])
      BY <2>7, <1>0 DEF InitDatabase, Reinit, Scan, indexes, At, Writing
    <3>2. Others(t) /\ call'[t].entries = {} /\ call'[t].current = {}
      BY <3>1, CallType DEF Become, Others, Idle
    <3>3. QED
      BY <3>1, <3>2, HalvesStays
  <2>8. CASE Notify(t) \/ CompactResize(t) \/ AppendFails(t)
    <3>1. UNCHANGED <<exact, ordered>> /\ call[t].current = {}
      BY <2>8 DEF Notify, CompactResize, AppendFails, indexes, At, Halves
    <3>2. Others(t) /\ call'[t].entries = {} /\ call'[t].current = {}
      BY <2>8, AfterEnd DEF Ends, Idle
    <3>3. QED
      BY <3>1, <3>2, HalvesStays
  <2>9. CASE Install(t)
    <3>1. exact' = ordered' /\ \A u \in Threads : ~Writing(u)
      BY <2>9 DEF Install, Writing
    <3>2. Others(t) /\ call'[t] = Idle
      BY <2>9, AfterEnd DEF Ends
    <3>3. \A u \in Threads : call'[u].entries = {} /\ call'[u].current = {}
      BY <1>0, <3>1, <3>2 DEF Others, Idle
    <3>4. QED
      BY <3>1, <3>3 DEF Halves
  <2>10. CASE Close(t)
    BY <2>10 DEF Close, Halves, At, Writing, indexes
  <2>11. QED
    BY <1>1, <2>1, <2>2, <2>3, <2>4, <2>5, <2>6, <2>7, <2>8, <2>9, <2>10, HalvesExact,
       HalvesOrdered DEF Step
<1>2. ASSUME NEW c \in Watched, Subscribe(c) \/ Unsubscribe(c) \/ Receive(c) PROVE Halves'
  BY <1>2 DEF Subscribe, Unsubscribe, Receive, Halves, At, Writing, indexes
<1>3. CASE Crash
  BY <1>3 DEF Crash, Halves, At, Writing, Idle
<1>4. CASE UNCHANGED vars
  BY <1>4 DEF vars, Halves, At, Writing, indexes
<1>5. QED
  BY <1>1, <1>2, <1>3, <1>4 DEF Next

\* With no call under way the two halves of the secondary index have the same
\* entries, whatever threads put, update and remove documents of their own.
THEOREM HalvesTogether ==
  ASSUME OwnDocuments
  PROVE  Spec => []HalvesAgree
<1> DEFINE I == TypeInv /\ Halves
<1>1. Init => I
  <2>1. Init => Halves
    BY DEF Init, Halves, Idle
  <2>2. QED
    BY <2>1, TypeInit
<1>2. I /\ [Next]_vars => I'
  BY TypeNext, HalvesNext
<1>3. I => HalvesAgree
  <2>1. ASSUME TypeInv, Halves, up, AllIdle PROVE exact = ordered
    <3>1. \A t \in Threads : call[t].current = {}
      BY <2>1 DEF Halves, AllIdle, At
    <3>2. exact \in SUBSET Entries /\ ordered \in SUBSET Entries
      BY <2>1 DEF TypeInv, TypeOK
    <3>3. QED
      BY <2>1, <3>1, <3>2 DEF Halves
  <2>2. QED
    BY <2>1 DEF HalvesAgree
<1> HIDE DEF I
<1>4. QED
  BY <1>1, <1>2, <1>3, PTL DEF Spec

-----------------------------------------------------------------------------
(* Subscribers.                                                              *)

\* What a copy lacks of the values known is the last event about the document
\* that is still in the channel.
Tells(sent, copy, c, known) ==
  \A i \in Ids :
    /\ (\A k \in DOMAIN sent : sent[k].doc[2] # i) => copy[i] = known[<<c, i>>]
    /\ \A k \in DOMAIN sent :
         sent[k].doc[2] = i /\ (\A j \in DOMAIN sent : j > k => sent[j].doc[2] # i)
           => sent[k].data = known[<<c, i>>]

Telling == \A c \in Watched : Subscribed(c) /\ c \notin missed
                                => Tells(queue[c], mirror[c], c, acked)

LEMMA TellsSent ==
  ASSUME NEW sent \in Seq(Event), NEW e \in Event, NEW copy, NEW c, NEW known,
         Tells(sent, copy, c, known), NEW now,
         now[<<c, e.doc[2]>>] = e.data,
         \A i \in Ids : i # e.doc[2] => now[<<c, i>>] = known[<<c, i>>]
  PROVE  Tells(Append(sent, e), copy, c, now)
<1> DEFINE more == Append(sent, e)
<1>1. /\ Len(sent) \in Nat /\ DOMAIN sent = 1..Len(sent)
      /\ DOMAIN more = 1..(Len(sent) + 1)
      /\ more[Len(sent) + 1] = e
      /\ \A k \in DOMAIN sent : more[k] = sent[k]
  BY AppendProperties
<1> HIDE DEF more
<1>2. ASSUME NEW i \in Ids, \A k \in DOMAIN more : more[k].doc[2] # i
      PROVE  copy[i] = now[<<c, i>>]
  <2>1. i # e.doc[2] /\ \A k \in DOMAIN sent : sent[k].doc[2] # i
    BY <1>1, <1>2
  <2>2. QED
    BY <2>1 DEF Tells
<1>3. ASSUME NEW i \in Ids, NEW k \in DOMAIN more, more[k].doc[2] = i,
             \A j \in DOMAIN more : j > k => more[j].doc[2] # i
      PROVE  more[k].data = now[<<c, i>>]
  <2>1. CASE k = Len(sent) + 1
    BY <1>1, <1>3, <2>1
  <2>2. CASE k \in DOMAIN sent
    <3>1. i # e.doc[2]
      BY <1>1, <1>3, <2>2
    <3>2. sent[k].doc[2] = i /\ \A j \in DOMAIN sent : j > k => sent[j].doc[2] # i
      BY <1>1, <1>3, <2>2
    <3>3. sent[k].data = known[<<c, i>>]
      BY <2>2, <3>2 DEF Tells
    <3>4. QED
      BY <1>1, <2>2, <3>1, <3>3
  <2>3. QED
    BY <1>1, <2>1, <2>2
<1>4. QED
  BY <1>2, <1>3 DEF Tells, more

LEMMA TellsTaken ==
  ASSUME NEW sent \in Seq(Event), sent # << >>, NEW copy \in [Ids -> MaybeValue], NEW c,
         NEW known, Tells(sent, copy, c, known)
  PROVE  Tells(Tail(sent), [copy EXCEPT ![Head(sent).doc[2]] = Head(sent).data], c, known)
<1> DEFINE rest == Tail(sent)
           new  == [copy EXCEPT ![Head(sent).doc[2]] = Head(sent).data]
<1>1. /\ Len(sent) \in Nat /\ 1 \in DOMAIN sent /\ Head(sent) = sent[1]
      /\ DOMAIN sent = 1..Len(sent) /\ DOMAIN rest = 1..(Len(sent) - 1)
      /\ \A k \in DOMAIN rest : rest[k] = sent[k + 1]
  BY HeadTailProperties
<1>2. \A i \in Ids : new[i] = IF i = sent[1].doc[2] THEN sent[1].data ELSE copy[i]
  BY <1>1
<1> HIDE DEF rest, new
<1>3. ASSUME NEW i \in Ids, \A k \in DOMAIN rest : rest[k].doc[2] # i
      PROVE  new[i] = known[<<c, i>>]
  <2>1. \A k \in DOMAIN sent : k > 1 => sent[k].doc[2] # i
    <3>1. ASSUME NEW k \in DOMAIN sent, k > 1 PROVE sent[k].doc[2] # i
      <4>1. k - 1 \in DOMAIN rest /\ rest[k - 1] = sent[k]
        BY <1>1, <3>1
      <4>2. QED
        BY <1>3, <4>1
    <3>2. QED
      BY <3>1
  <2>2. CASE i = sent[1].doc[2]
    BY <1>1, <1>2, <2>1, <2>2 DEF Tells
  <2>3. CASE i # sent[1].doc[2]
    <3>1. \A k \in DOMAIN sent : sent[k].doc[2] # i
      BY <1>1, <2>1, <2>3
    <3>2. QED
      BY <1>2, <2>3, <3>1 DEF Tells
  <2>4. QED
    BY <2>2, <2>3
<1>4. ASSUME NEW i \in Ids, NEW k \in DOMAIN rest, rest[k].doc[2] = i,
             \A j \in DOMAIN rest : j > k => rest[j].doc[2] # i
      PROVE  rest[k].data = known[<<c, i>>]
  <2>1. k + 1 \in DOMAIN sent /\ rest[k] = sent[k + 1]
    BY <1>1
  <2>2. ASSUME NEW j \in DOMAIN sent, j > k + 1 PROVE sent[j].doc[2] # i
    <3>1. j - 1 \in DOMAIN rest /\ rest[j - 1] = sent[j] /\ j - 1 > k
      BY <1>1, <2>2
    <3>2. QED
      BY <1>4, <3>1
  <2>3. QED
    BY <1>4, <2>1, <2>2 DEF Tells
<1>5. QED
  BY <1>3, <1>4 DEF Tells, rest, new

LEMMA TellingStays ==
  ASSUME Telling, UNCHANGED <<events, acked>>
  PROVE  Telling'
  BY DEF Telling, Subscribed, events

LEMMA TellingNotify ==
  ASSUME TypeInv, Telling, NEW t \in Threads, Notify(t)
  PROVE  Telling'
<1> DEFINE d == call[t].doc
           e == [doc |-> call[t].doc, data |-> call[t].data]
<1>1. /\ call[t] \in Call /\ d \in Documents /\ e \in Event
      /\ acked \in [Documents -> MaybeValue]
      /\ queue \in [Watched -> Seq(Event)]
  BY CallType DEF TypeInv, TypeOK, Call, Event
<1>2. /\ d[1] \in Collections /\ d[2] \in Ids /\ d = <<d[1], d[2]>>
  BY <1>1 DEF Documents
<1>3. TrySend(d[1], e) /\ acked' = [acked EXCEPT ![d] = call[t].data] /\ mirror' = mirror
  BY DEF Notify
<1>4. e.doc = d /\ e.data = call[t].data
  OBVIOUS
<1>5. /\ acked'[d] = e.data
      /\ \A x \in Documents : x # d => acked'[x] = acked[x]
  BY <1>1, <1>3
<1> HIDE DEF d, e
<1>6. SUFFICES ASSUME NEW c \in Watched, Subscribed(c)', c \notin missed'
               PROVE  Tells(queue[c], mirror[c], c, acked)'
  BY DEF Telling
<1>7. Subscribed(c) /\ c \in Collections
  BY <1>3, <1>6, ThreadsAssumption DEF Subscribed
<1>8. c \notin missed
  BY <1>3, <1>6 DEF TrySend
<1>9. Tells(queue[c], mirror[c], c, acked)
  BY <1>7, <1>8 DEF Telling
<1>10. CASE c # d[1]
  <2>1. \A i \in Ids : acked'[<<c, i>>] = acked[<<c, i>>]
    BY <1>2, <1>5, <1>7, <1>10 DEF Documents
  <2>2. queue'[c] = queue[c]
    BY <1>1, <1>3, <1>10 DEF TrySend
  <2>3. QED
    BY <1>3, <1>9, <2>1, <2>2 DEF Tells
<1>11. CASE c = d[1]
  <2>1. queue'[c] = Append(queue[c], e)
    BY <1>1, <1>3, <1>6, <1>7, <1>11 DEF TrySend
  <2>2. /\ acked'[<<c, e.doc[2]>>] = e.data
        /\ \A i \in Ids : i # e.doc[2] => acked'[<<c, i>>] = acked[<<c, i>>]
    BY <1>2, <1>4, <1>5, <1>11 DEF Documents
  <2>3. Tells(Append(queue[c], e), mirror[c], c, acked')
    BY <1>1, <1>9, <2>2, TellsSent
  <2>4. QED
    BY <1>3, <2>1, <2>3
<1>12. QED
  BY <1>10, <1>11

LEMMA TellingReceive ==
  ASSUME TypeInv, Telling, NEW c \in Watched, Receive(c)
  PROVE  Telling'
<1>1. /\ queue \in [Watched -> Seq(Event)]
      /\ mirror \in [Watched -> [Ids -> MaybeValue] \cup {Nothing}]
      /\ queue[c] # << >> /\ mirror[c] # Nothing
  BY DEF TypeInv, TypeOK, Listening, Receive
<1>2. mirror[c] \in [Ids -> MaybeValue]
  BY <1>1
<1> DEFINE copy == [mirror[c] EXCEPT ![Head(queue[c]).doc[2]] = Head(queue[c]).data]
<1>3. /\ mirror' = [mirror EXCEPT ![c] = copy]
      /\ queue' = [queue EXCEPT ![c] = Tail(queue[c])]
      /\ UNCHANGED <<missed, acked>>
  BY DEF Receive, history
<1>4. Tells(queue[c], mirror[c], c, acked) => Tells(Tail(queue[c]), copy, c, acked)
  BY <1>1, <1>2, TellsTaken
<1>5. mirror'[c] = copy /\ queue'[c] = Tail(queue[c])
  BY <1>1, <1>3
<1>6. \A b \in Watched : b # c => mirror'[b] = mirror[b] /\ queue'[b] = queue[b]
  BY <1>1, <1>3
<1> HIDE DEF copy
<1>7. ASSUME NEW b \in Watched, Subscribed(b)', b \notin missed'
      PROVE  Tells(queue[b], mirror[b], b, acked)'
  <2>1. Subscribed(b) /\ b \notin missed
    BY <1>1, <1>3, <1>6, <1>7 DEF Subscribed
  <2>2. CASE b = c
    BY <1>3, <1>4, <1>5, <2>1, <2>2 DEF Telling
  <2>3. CASE b # c
    BY <1>3, <1>6, <2>1, <2>3 DEF Telling
  <2>4. QED
    BY <2>2, <2>3
<1>8. QED
  BY <1>7 DEF Telling

LEMMA TellingSubscriber ==
  ASSUME TypeInv, Telling, NEW c \in Watched, Subscribe(c) \/ Unsubscribe(c)
  PROVE  Telling'
<1>1. /\ queue \in [Watched -> Seq(Event)]
      /\ mirror \in [Watched -> [Ids -> MaybeValue] \cup {Nothing}]
  BY DEF TypeInv, TypeOK
<1>2. acked' = acked
  BY DEF Subscribe, Unsubscribe, history
<1>3. CASE Subscribe(c)
  <2>1. /\ mirror' = [mirror EXCEPT ![c] = [i \in Ids |-> acked[<<c, i>>]]]
        /\ UNCHANGED <<queue, missed>> /\ mirror[c] = Nothing
    BY <1>3 DEF Subscribe, Subscribed
  <2>2. queue[c] = << >>
    BY <2>1 DEF TypeInv, Listening
  <2>3. Tells(queue[c], mirror'[c], c, acked)
    BY <1>1, <2>1, <2>2 DEF Tells
  <2>4. \A b \in Watched : b # c => mirror'[b] = mirror[b]
    BY <1>1, <2>1
  <2>5. QED
    BY <1>2, <2>1, <2>3, <2>4 DEF Telling, Subscribed
<1>4. CASE Unsubscribe(c)
  <2>1. /\ mirror'[c] = Nothing /\ missed' = missed \ {c}
        /\ \A b \in Watched : b # c => mirror'[b] = mirror[b] /\ queue'[b] = queue[b]
    BY <1>1, <1>4 DEF Unsubscribe
  <2>2. QED
    BY <1>2, <2>1 DEF Telling, Subscribed
<1>5. QED
  BY <1>3, <1>4

LEMMA TellingNobody ==
  ASSUME NoSubscribers
  PROVE  Telling'
  BY DEF NoSubscribers, Telling, Subscribed

LEMMA TellingNext ==
  ASSUME TypeInv, Telling, [Next]_vars
  PROVE  Telling'
<1>1. ASSUME NEW t \in Threads, Step(t), ~Notify(t), ~Install(t), ~Close(t)
      PROVE  UNCHANGED <<events, acked>>
  BY <1>1 DEF Step, Put, Update, Delete, Begin, Collect, UnindexExact, UnindexOrdered,
     AppendRecord, SetPrimary, IndexExact, IndexOrdered, Compact, CompactOpen, CompactWrite,
     CompactRemove, CompactRename, CompactReopen, CompactMeasure, CompactResize, InitDatabase,
     Reinit, Scan, AppendFails, history, events
<1>2. ASSUME NEW t \in Threads, Step(t) PROVE Telling'
  <2>1. CASE Notify(t)
    BY <2>1, TellingNotify
  <2>2. CASE Install(t) \/ Close(t)
    BY <2>2, TellingNobody DEF Install, Close
  <2>3. QED
    BY <1>1, <1>2, <2>1, <2>2, TellingStays
<1>3. CASE Crash
  BY <1>3, TellingNobody DEF Crash
<1>4. CASE UNCHANGED vars
  BY <1>4, TellingStays DEF vars, history
<1>5. QED
  BY <1>2, <1>3, <1>4, TellingReceive, TellingSubscriber DEF Next

\* With no call under way a subscriber that has received everything, with room
\* in its channel all the time, has of every document what the record has that
\* the primary index leads to, however many threads write to documents of their
\* own and however much the channels hold.  The events tell the acknowledged
\* values (Telling), and so does the index (AckedInv).
THEOREM SubscribersTold ==
  ASSUME ScansAlone, OwnDocuments
  PROVE  Spec => []EventsTell
<1> DEFINE I == AckedInv /\ Telling
<1>1. Init => I
  <2>1. Init => Telling
    BY DEF Init, Telling, Subscribed
  <2>2. QED
    BY <2>1, AckedInit
<1>2. I /\ [Next]_vars => I'
  <2>1. AckedInv => TypeInv
    BY DEF AckedInv, IndexInv
  <2>2. QED
    BY <2>1, AckedNext, TellingNext
<1>3. I => EventsTell
  <2>1. ASSUME AckedInv, Telling, up, trusted, AllIdle, NEW c \in Watched, Subscribed(c),
               queue[c] = << >>, c \notin missed, NEW i \in Ids
        PROVE  mirror[c][i] = DataAt(primary, <<c, i>>)
    <3>1. mirror[c][i] = acked[<<c, i>>]
      BY <2>1 DEF Telling, Tells
    <3>2. <<c, i>> \in Documents
      BY ThreadsAssumption DEF Documents
    <3>3. \A t \in Threads : ~Past(t)
      BY <2>1 DEF Past, AllIdle, At
    <3>4. DataAt(primary, <<c, i>>) = acked[<<c, i>>]
      BY <2>1, <3>2, <3>3 DEF AckedInv, Answering
    <3>5. QED
      BY <3>1, <3>4
  <2>2. QED
    BY <2>1 DEF EventsTell
<1> HIDE DEF I
<1>4. QED
  BY <1>1, <1>2, <1>3, PTL DEF Spec

-----------------------------------------------------------------------------
(* Compaction.                                                               *)

\* The records of a file are those that were taken from a scan.
Same(r, s) == r.kind = s.kind /\ r.doc = s.doc /\ r.data = s.data

Copies(f, records, taken) ==
  /\ \A j \in DOMAIN f.records : \E k \in taken : Same(f.records[j], records[k])
  /\ \A k \in taken : \E j \in DOMAIN f.records : Same(f.records[j], records[k])

\* The second file has what the compaction does not have left to write.
Copied ==
  \A t \in Threads :
    /\ At(t, "compact_open") => call[t].left = LatestOf(call[t].records)
    /\ call[t].pc \in {"compact_write", "compact_remove", "compact_rename"} =>
         Copies(compacted, call[t].records, LatestOf(call[t].records) \ call[t].left)
    /\ call[t].pc \in {"compact_remove", "compact_rename"} => call[t].left = {}

LEMMA CopiesMore ==
  ASSUME NEW f \in File, NEW records, NEW taken, NEW k, IsRecord(records[k]),
         Copies(f, records, taken)
  PROVE  Copies(AppendedTo(f, records[k]), records, taken \cup {k})
<1> DEFINE g == AppendedTo(f, records[k])
<1>1. /\ g \in File /\ Len(g.records) = Len(f.records) + 1
      /\ \A j \in DOMAIN f.records : g.records[j] = f.records[j]
      /\ g.records[Len(f.records) + 1] = [kind |-> records[k].kind, doc |-> records[k].doc,
                                          data |-> records[k].data, at |-> f.bytes]
  BY AppendedSound
<1> HIDE DEF g
<1>6. Same(g.records[Len(f.records) + 1], records[k])
  BY <1>1 DEF Same
<1>2. /\ Len(f.records) \in Nat /\ DOMAIN f.records = 1..Len(f.records)
      /\ DOMAIN g.records = 1..(Len(f.records) + 1)
  BY <1>1, RecordsOfFile
<1>3. ASSUME NEW j \in DOMAIN g.records
      PROVE  \E i \in taken \cup {k} : Same(g.records[j], records[i])
  <2>1. CASE j = Len(f.records) + 1
    BY <1>6, <2>1
  <2>2. CASE j \in DOMAIN f.records
    BY <1>1, <2>2 DEF Copies
  <2>3. QED
    BY <1>2, <2>1, <2>2
<1>4. ASSUME NEW i \in taken \cup {k}
      PROVE  \E j \in DOMAIN g.records : Same(g.records[j], records[i])
  <2>1. CASE i = k
    <3>1. Len(f.records) + 1 \in DOMAIN g.records
      BY <1>2
    <3>2. QED
      BY <1>6, <2>1, <3>1
  <2>2. CASE i \in taken
    <3>1. PICK j \in DOMAIN f.records : Same(f.records[j], records[i])
      BY <2>2 DEF Copies
    <3>2. j \in DOMAIN g.records /\ g.records[j] = f.records[j]
      BY <1>1, <1>2
    <3>3. QED
      BY <3>1, <3>2
  <2>3. QED
    BY <2>1, <2>2
<1>5. QED
  BY <1>3, <1>4 DEF Copies, g

\* Steps that leave the second file alone, of threads that do not copy.
LEMMA CopiedStays ==
  ASSUME Copied, compacted' = compacted,
         \A t \in Threads :
           \/ call'[t] = call[t]
           \/ call'[t].pc \notin {"compact_open", "compact_write", "compact_remove",
                                  "compact_rename"}
           \/ /\ At(t, "compact_remove") /\ call'[t].pc = "compact_rename"
              /\ call'[t].records = call[t].records /\ call'[t].left = call[t].left
  PROVE  Copied'
<1>1. ASSUME NEW t \in Threads
      PROVE  /\ At(t, "compact_open")' => call'[t].left = LatestOf(call'[t].records)
             /\ call'[t].pc \in {"compact_write", "compact_remove", "compact_rename"} =>
                  Copies(compacted', call'[t].records, LatestOf(call'[t].records) \ call'[t].left)
             /\ call'[t].pc \in {"compact_remove", "compact_rename"} => call'[t].left = {}
  <2>1. CASE call'[t] = call[t]
    BY <2>1 DEF Copied, At
  <2>2. CASE call'[t].pc \notin {"compact_open", "compact_write", "compact_remove",
                                 "compact_rename"}
    BY <2>2 DEF At
  <2>3. CASE /\ At(t, "compact_remove") /\ call'[t].pc = "compact_rename"
             /\ call'[t].records = call[t].records /\ call'[t].left = call[t].left
    BY <2>3 DEF Copied, At
  <2>4. QED
    BY <2>1, <2>2, <2>3
<1>2. QED
  BY <1>1 DEF Copied

\* A record that is to be copied.
LEMMA LeftRecord ==
  ASSUME TypeInv, NEW t \in Threads, Compacting(t), NEW k \in call[t].left
  PROVE  /\ k \in LatestOf(call[t].records) /\ k \in DOMAIN call[t].records
         /\ IsRecord(call[t].records[k])
<1>1. k \in LatestOf(call[t].records) /\ k \in DOMAIN call[t].records
  BY DEF TypeInv, SoundCalls, SoundCall, LatestOf
<1>2. call[t].records[k] \in Placed
  BY <1>1, CallType
<1>3. QED
  BY <1>1, <1>2 DEF Placed, IsRecord

LEMMA CopiedWrite ==
  ASSUME TypeInv, Copied, NEW t \in Threads, CompactWrite(t)
  PROVE  Copied'
<1> DEFINE records == call[t].records
<1>1. At(t, "compact_write") /\ Compacting(t) /\ compacted \in File
  BY DEF CompactWrite, At, Compacting, TypeInv, TypeOK, HasFiles
<1>2. PICK k \in call[t].left :
        /\ compacted' = AppendedTo(compacted, records[k])
        /\ call'[t].left = call[t].left \ {k}
        /\ call'[t].pc = IF call[t].left = {k} THEN "compact_remove" ELSE "compact_write"
  BY AfterCompactWrite
<1>3. Others(t) /\ call'[t].records = records
  BY AfterCompactWrite DEF Keeps
<1>4. k \in LatestOf(records) /\ IsRecord(records[k])
  BY <1>1, LeftRecord
<1>5. Copies(compacted, records, LatestOf(records) \ call[t].left)
  BY <1>1 DEF Copied, At
<1> HIDE DEF records
<1>6. Copies(compacted', records, (LatestOf(records) \ call[t].left) \cup {k})
  BY <1>1, <1>2, <1>4, <1>5, CopiesMore
<1>7. (LatestOf(records) \ call[t].left) \cup {k} = LatestOf(records) \ call'[t].left
  BY <1>2, <1>4
<1>8. \A u \in Threads : u # t => ~Compacting(u)'
  BY <1>1, <1>3 DEF TypeInv, HasFiles, Compacting, Others
<1>9. /\ Copies(compacted', call'[t].records, LatestOf(call'[t].records) \ call'[t].left)
      /\ call'[t].pc = "compact_remove" => call'[t].left = {}
      /\ call'[t].pc \in {"compact_write", "compact_remove"}
  BY <1>2, <1>3, <1>6, <1>7
<1>10. QED
  BY <1>8, <1>9 DEF Copied, Compacting, At

LEMMA CopiedOpen ==
  ASSUME TypeInv, Copied, NEW t \in Threads, CompactOpen(t)
  PROVE  Copied'
<1>1. At(t, "compact_open") /\ Compacting(t) /\ compacted' = EmptyFile
  BY DEF CompactOpen, At, Compacting
<1>2. /\ Others(t) /\ call'[t].records = call[t].records /\ call'[t].left = call[t].left
      /\ call'[t].pc = IF call[t].left = {} THEN "compact_remove" ELSE "compact_write"
  BY AfterCompactStep DEF Keeps
<1>3. LatestOf(call[t].records) \ call[t].left = {} /\ DOMAIN EmptyFile.records = {}
  <2>1. DOMAIN << >> = {}
    OBVIOUS
  <2>2. QED
    BY <1>1, <2>1 DEF Copied, EmptyFile
<1>4. Copies(compacted', call'[t].records, LatestOf(call'[t].records) \ call'[t].left)
  BY <1>1, <1>2, <1>3 DEF Copies
<1>5. \A u \in Threads : u # t => ~Compacting(u)'
  BY <1>1, <1>2 DEF TypeInv, HasFiles, Compacting, Others
<1>6. QED
  BY <1>2, <1>4, <1>5 DEF Copied, Compacting, At

LEMMA CopiedRename ==
  ASSUME TypeInv, Copied, NEW t \in Threads, CompactRename(t)
  PROVE  Copied'
<1>1. Compacting(t) /\ Others(t) /\ call'[t].pc = "compact_reopen"
  BY AfterCompactStep DEF CompactRename, At, Compacting
<1>2. \A u \in Threads : u # t => ~Compacting(u)'
  BY <1>1 DEF TypeInv, HasFiles, Compacting, Others
<1>3. QED
  BY <1>1, <1>2 DEF Copied, Compacting, At

LEMMA CopiedCompact ==
  ASSUME TypeInv, Copied, NEW t \in Threads, Compact(t)
  PROVE  Copied'
<1>1. /\ Others(t) /\ call'[t].pc = "compact_open"
      /\ call'[t].left = LatestOf(call'[t].records)
  BY AfterCompact
<1>2. compacted' = compacted
  BY DEF Compact, disk
<1>3. QED
  BY <1>1, <1>2 DEF Copied, Others, At

\* The steps of a thread that is not at a compaction, or comes to its end.
LEMMA ElsewhereSteps ==
  ASSUME TypeInv, NEW t \in Threads, Step(t), ~Compact(t), ~CompactOpen(t), ~CompactWrite(t),
         ~CompactRemove(t), ~CompactRename(t), ~CompactReopen(t), ~CompactMeasure(t), ~Close(t)
  PROVE  Others(t) /\ ~Compacting(t)' /\ compacted' = compacted
<1>1. CASE \E d \in Documents : (\E v \in Values : Put(t, d, v) \/ Update(t, d, v)) \/ Delete(t, d)
  <2>1. PICK step \in {"append", "collect"}, k \in Kinds, d \in Documents, v \in MaybeValue :
          Begin(t, step, k, d, v)
    BY <1>1 DEF Put, Update, Delete, Kinds, MaybeValue
  <2>2. Others(t) /\ call'[t].pc = step
    BY <2>1, AfterBegin
  <2>3. QED
    BY <2>1, <2>2 DEF Begin, Compacting, disk
<1>2. CASE Collect(t) \/ UnindexExact(t) \/ UnindexOrdered(t) \/ IndexExact(t) \/ IndexOrdered(t)
  <2>1. compacted' = compacted
    BY <1>2 DEF Collect, UnindexExact, UnindexOrdered, IndexExact, IndexOrdered, disk
  <2>2. CASE Collect(t)
    BY <2>1, <2>2, AfterCollect DEF Compacting, AfterUnindex
  <2>3. CASE UnindexExact(t) \/ IndexExact(t)
    BY <2>1, <2>3, AfterExact DEF Compacting
  <2>4. CASE UnindexOrdered(t) \/ IndexOrdered(t)
    BY <2>1, <2>4, AfterOrdered DEF Compacting, AfterUnindex
  <2>5. QED
    BY <1>2, <2>2, <2>3, <2>4
<1>3. CASE AppendRecord(t)
  BY <1>3, AfterAppend DEF AppendRecord, Compacting
<1>4. CASE SetPrimary(t)
  BY <1>4, AfterSetPrimary DEF SetPrimary, Compacting, disk
<1>5. CASE Ends(t)
  <2>1. compacted' = compacted
    BY <1>5 DEF Ends, Notify, CompactResize, Install, AppendFails, disk
  <2>2. QED
    BY <1>5, <2>1, AfterEnd DEF Compacting, Idle
<1>6. CASE InitDatabase(t) \/ Reinit(t)
  <2>1. /\ compacted' = compacted
        /\ Become(t, [Idle EXCEPT !.pc = "install", !.offset = Opened(file).bytes,
                                  !.records = ScanAll(Opened(file))])
    BY <1>6 DEF InitDatabase, Reinit, Scan
  <2>2. QED
    BY <2>1, CallType DEF Become, Others, Idle, Compacting
<1>7. QED
  BY <1>1, <1>2, <1>3, <1>4, <1>5, <1>6 DEF Step, Ends

LEMMA CopiedNext ==
  ASSUME TypeInv, Copied, [Next]_vars
  PROVE  Copied'
<1>1. ASSUME NEW t \in Threads, Step(t) PROVE Copied'
  <2>1. CASE Compact(t) \/ CompactOpen(t) \/ CompactWrite(t) \/ CompactRename(t)
    BY <2>1, CopiedCompact, CopiedOpen, CopiedWrite, CopiedRename
  <2>2. CASE CompactRemove(t) \/ CompactReopen(t) \/ CompactMeasure(t)
    <3>1. compacted' = compacted
      BY <2>2 DEF CompactRemove, CompactReopen, CompactMeasure, disk
    <3>2. /\ Others(t)
          /\ \/ call'[t].pc \in {"compact_measure", "compact_resize"}
             \/ /\ At(t, "compact_remove") /\ call'[t].pc = "compact_rename"
                /\ call'[t].records = call[t].records /\ call'[t].left = call[t].left
      BY <2>2, AfterCompactStep DEF CompactRemove, Keeps
    <3>3. QED
      BY <3>1, <3>2, CopiedStays DEF Others
  <2>3. CASE Close(t)
    BY <2>3, CopiedStays DEF Close, disk
  <2>4. CASE /\ ~Compact(t) /\ ~CompactOpen(t) /\ ~CompactWrite(t) /\ ~CompactRemove(t)
             /\ ~CompactRename(t) /\ ~CompactReopen(t) /\ ~CompactMeasure(t) /\ ~Close(t)
    <3>1. Others(t) /\ ~Compacting(t)' /\ compacted' = compacted
      BY <1>1, <2>4, ElsewhereSteps
    <3>2. QED
      BY <3>1, CopiedStays DEF Others, Compacting
  <2>5. QED
    BY <2>1, <2>2, <2>3, <2>4
<1>2. ASSUME NEW c \in Watched, Subscribe(c) \/ Unsubscribe(c) \/ Receive(c) PROVE Copied'
  BY <1>2, CopiedStays DEF Subscribe, Unsubscribe, Receive, disk
<1>3. CASE Crash
  BY <1>3, CopiedStays DEF Crash, Idle
<1>4. CASE UNCHANGED vars
  BY <1>4, CopiedStays DEF vars, disk
<1>5. QED
  BY <1>1, <1>2, <1>3, <1>4 DEF Next

\* What takes the place of data.torex has every document of which the scan
\* found a last record that is no tombstone, with its value, and no other,
\* whatever other threads write in the meantime.
THEOREM CompactionComplete == Spec => []CompactedComplete
<1> DEFINE I == TypeInv /\ Copied
<1>1. Init => I
  <2>1. Init => Copied
    BY DEF Init, Copied, Idle, At
  <2>2. QED
    BY <2>1, TypeInit
<1>2. I /\ [Next]_vars => I'
  BY TypeNext, CopiedNext
<1>3. I => CompactedComplete
  <2>1. SUFFICES ASSUME TypeInv, Copied, NEW t \in Threads, At(t, "compact_rename"),
                        NEW d \in Documents
                 PROVE  {compacted.records[k].data : k \in {j \in DOMAIN compacted.records :
                                                             compacted.records[j].doc = d}}
                          = {call[t].records[k].data : k \in LastOf(call[t].records, d)} \ {Nothing}
    BY DEF CompactedComplete
  <2> DEFINE records == call[t].records
  <2>2. Copies(compacted, records, LatestOf(records))
    BY <2>1 DEF Copied, At
  <2>3. \A k \in DOMAIN records : records[k].kind = "delete" <=> records[k].data = Nothing
    BY <2>1 DEF TypeInv, SoundCalls, SoundCall
  <2> HIDE DEF records
  <2>4. ASSUME NEW j \in DOMAIN compacted.records, compacted.records[j].doc = d
        PROVE  \E k \in LastOf(records, d) : /\ records[k].data = compacted.records[j].data
                                             /\ records[k].data # Nothing
    <3>1. PICK k \in LatestOf(records) : Same(compacted.records[j], records[k])
      BY <2>2 DEF Copies
    <3>2. k \in LastOf(records, d) /\ records[k].data # Nothing
      BY <2>3, <2>4, <3>1 DEF LatestOf, LastOf, Same
    <3>3. QED
      BY <3>1, <3>2 DEF Same
  <2>5. ASSUME NEW k \in LastOf(records, d), records[k].data # Nothing
        PROVE  \E j \in DOMAIN compacted.records : /\ compacted.records[j].doc = d
                                                   /\ compacted.records[j].data = records[k].data
    <3>1. k \in LatestOf(records) /\ records[k].doc = d
      BY <2>3, <2>5 DEF LatestOf, LastOf
    <3>2. QED
      BY <2>2, <3>1 DEF Copies, Same
  <2>6. QED
    BY <2>4, <2>5 DEF records
<1> HIDE DEF I
<1>4. QED
  BY <1>1, <1>2, <1>3, PTL DEF Spec

\* The hypothesis of the next theorem, what the mutex of the bridge makes of
\* compactions: nobody writes to the file while one is under way.
CompactsAlone == \A t \in Threads : "compact" \in Does[t] => Threads = {t}

Settling ==
  \A t \in Threads :
    /\ Compacting(t) => "compact" \in Does[t]
    /\ call[t].pc \in {"compact_write", "compact_remove", "compact_rename"} => Once(compacted)
    /\ call[t].pc = "compact_reopen" => Once(file)
    /\ call[t].pc \in {"compact_measure", "compact_resize"} => orphan = Nothing /\ Once(file)

LEMMA OnceMore ==
  ASSUME NEW f \in File, NEW r, IsRecord(r), Once(f), r.kind # "delete",
         \A j \in DOMAIN f.records : f.records[j].doc # r.doc
  PROVE  Once(AppendedTo(f, r))
<1> DEFINE g == AppendedTo(f, r)
           new == g.records[Len(f.records) + 1]
<1>1. /\ g \in File /\ Len(g.records) = Len(f.records) + 1
      /\ \A j \in DOMAIN f.records : g.records[j] = f.records[j]
      /\ new = [kind |-> r.kind, doc |-> r.doc, data |-> r.data, at |-> f.bytes]
  BY AppendedSound
<1>2. new.kind = r.kind /\ new.doc = r.doc
  BY <1>1
<1> HIDE DEF g
<1>3. /\ Len(f.records) \in Nat /\ DOMAIN f.records = 1..Len(f.records)
      /\ DOMAIN g.records = 1..(Len(f.records) + 1)
  BY <1>1, RecordsOfFile
<1>4. \A k \in DOMAIN g.records : k \in DOMAIN f.records \/ k = Len(f.records) + 1
  BY <1>3
<1> HIDE DEF new
<1>5. /\ \A k \in DOMAIN f.records : /\ g.records[k].kind # "delete"
                                     /\ g.records[k].doc # new.doc
      /\ \A j, k \in DOMAIN f.records : g.records[j].doc = g.records[k].doc => j = k
  BY <1>1, <1>2 DEF Once
<1>6. QED
  BY <1>2, <1>4, <1>5 DEF Once, g, new

\* Whoever compacts is the only one.
LEMMA SettlingAlone ==
  ASSUME CompactsAlone, Settling, NEW t \in Threads, Compacting(t)
  PROVE  Threads = {t}
  BY DEF CompactsAlone, Settling

\* Steps that do not lead to a compaction.
LEMMA SettlingElsewhere ==
  ASSUME CompactsAlone, Settling, NEW t \in Threads, Others(t), ~Compacting(t)'
  PROVE  Settling'
<1>1. ASSUME NEW u \in Threads PROVE ~Compacting(u)'
  <2>1. CASE u = t
    BY <2>1
  <2>2. CASE u # t
    BY <2>2, SettlingAlone DEF Others, Compacting
  <2>3. QED
    BY <2>1, <2>2
<1>2. QED
  BY <1>1 DEF Settling, Compacting

LEMMA SettlingStays ==
  ASSUME Settling, UNCHANGED <<file, compacted, orphan, call>>
  PROVE  Settling'
  BY DEF Settling, Compacting

LEMMA SettlingWrite ==
  ASSUME CompactsAlone, TypeInv, Copied, Settling, NEW t \in Threads, CompactWrite(t)
  PROVE  Settling'
<1> DEFINE records == call[t].records
<1>1. At(t, "compact_write") /\ Compacting(t) /\ compacted \in File /\ Once(compacted)
  BY DEF CompactWrite, At, Compacting, TypeInv, TypeOK, HasFiles, Settling
<1>2. PICK k \in call[t].left :
        /\ compacted' = AppendedTo(compacted, records[k])
        /\ call'[t].pc \in {"compact_write", "compact_remove"}
  BY AfterCompactWrite
<1>3. k \in LatestOf(records) /\ IsRecord(records[k])
  BY <1>1, LeftRecord
<1>4. Copies(compacted, records, LatestOf(records) \ call[t].left)
  BY <1>1 DEF Copied, At
<1>5. LatestOf(records) \subseteq Nat
  BY CallType DEF LatestOf
<1> HIDE DEF records
<1>6. ASSUME NEW j \in DOMAIN compacted.records, compacted.records[j].doc = records[k].doc
      PROVE  FALSE
  <2>1. PICK i \in LatestOf(records) \ call[t].left : records[i].doc = records[k].doc
    BY <1>4, <1>6 DEF Copies, Same
  <2>2. i <= k /\ k <= i
    BY <1>3, <2>1 DEF LatestOf
  <2>3. i = k
    BY <1>3, <1>5, <2>1, <2>2
  <2>4. QED
    BY <1>2, <2>1, <2>3
<1>7. records[k].kind # "delete"
  BY <1>3 DEF LatestOf
<1>8. Once(compacted')
  BY <1>1, <1>2, <1>3, <1>6, <1>7, OnceMore
<1>9. Threads = {t} /\ "compact" \in Does[t]
  BY <1>1, SettlingAlone DEF Settling
<1>10. QED
  BY <1>2, <1>8, <1>9 DEF Settling, Compacting

LEMMA SettlingNext ==
  ASSUME CompactsAlone, TypeInv, Copied, Settling, [Next]_vars
  PROVE  Settling'
<1>1. ASSUME NEW t \in Threads, Step(t) PROVE Settling'
  <2>1. CASE Compact(t)
    <3>1. Others(t) /\ call'[t].pc = "compact_open" /\ "compact" \in Does[t]
      BY <2>1, AfterCompact DEF Compact
    <3>2. Threads = {t}
      BY <3>1 DEF CompactsAlone
    <3>3. QED
      BY <3>1, <3>2 DEF Settling, Compacting
  <2>2. CASE CompactOpen(t) \/ CompactRemove(t) \/ CompactRename(t) \/ CompactReopen(t)
             \/ CompactMeasure(t)
    <3>1. Compacting(t)
      BY <2>2 DEF CompactOpen, CompactRemove, CompactRename, CompactReopen, CompactMeasure, At,
                  Compacting
    <3>2. Threads = {t} /\ "compact" \in Does[t]
      BY <3>1, SettlingAlone DEF Settling
    <3>3. CASE CompactOpen(t)
      <4>1. DOMAIN << >> = {}
        OBVIOUS
      <4>2. Once(EmptyFile)
        BY <4>1 DEF Once, EmptyFile
      <4>3. compacted' = EmptyFile /\ call'[t].pc \in {"compact_write", "compact_remove"}
        BY <3>3, AfterCompactStep DEF CompactOpen
      <4>4. QED
        BY <3>2, <4>2, <4>3 DEF Settling, Compacting
    <3>4. CASE CompactRemove(t)
      <4>1. /\ compacted' = compacted /\ Once(compacted) /\ call'[t].pc = "compact_rename"
        BY <3>4, AfterCompactStep DEF CompactRemove, Settling, At
      <4>2. QED
        BY <3>2, <4>1 DEF Settling, Compacting
    <3>5. CASE CompactRename(t)
      <4>1. file' = compacted /\ Once(compacted) /\ call'[t].pc = "compact_reopen"
        BY <3>5, AfterCompactStep DEF CompactRename, Settling, At
      <4>2. QED
        BY <3>2, <4>1 DEF Settling, Compacting
    <3>6. CASE CompactReopen(t)
      <4>1. /\ file' = file /\ orphan' = Nothing /\ Once(file)
            /\ call'[t].pc = "compact_measure"
        BY <3>6, AfterCompactStep DEF CompactReopen, Settling, At, disk
      <4>2. QED
        BY <3>2, <4>1 DEF Settling, Compacting
    <3>7. CASE CompactMeasure(t)
      <4>1. /\ file' = file /\ orphan' = orphan /\ orphan = Nothing /\ Once(file)
            /\ call'[t].pc = "compact_resize"
        BY <3>7, AfterCompactStep DEF CompactMeasure, Settling, At, disk
      <4>2. QED
        BY <3>2, <4>1 DEF Settling, Compacting
    <3>8. QED
      BY <2>2, <3>3, <3>4, <3>5, <3>6, <3>7
  <2>3. CASE Close(t)
    BY <2>3, SettlingStays DEF Close, disk
  <2>4. CASE /\ ~Compact(t) /\ ~CompactOpen(t) /\ ~CompactWrite(t) /\ ~CompactRemove(t)
             /\ ~CompactRename(t) /\ ~CompactReopen(t) /\ ~CompactMeasure(t) /\ ~Close(t)
    BY <1>1, <2>4, ElsewhereSteps, SettlingElsewhere
  <2>5. QED
    BY <2>1, <2>2, <2>3, <2>4, SettlingWrite
<1>2. ASSUME NEW c \in Watched, Subscribe(c) \/ Unsubscribe(c) \/ Receive(c) PROVE Settling'
  BY <1>2, SettlingStays DEF Subscribe, Unsubscribe, Receive, disk
<1>3. CASE Crash
  BY <1>3 DEF Crash, Idle, Settling, Compacting
<1>4. CASE UNCHANGED vars
  BY <1>4, SettlingStays DEF vars, disk
<1>5. QED
  BY <1>1, <1>2, <1>3, <1>4 DEF Next

\* A compaction that nobody writes into ends with a file that has no tombstone
\* and no document twice, however many records of one the scan found.
THEOREM CompactionEnds ==
  ASSUME CompactsAlone
  PROVE  Spec => []CompactedOnce
<1> DEFINE I == TypeInv /\ Copied /\ Settling
<1>1. Init => I
  BY TypeInit DEF Init, Copied, Settling, Compacting, Idle, At
<1>2. I /\ [Next]_vars => I'
  BY TypeNext, CopiedNext, SettlingNext
<1>3. I => CompactedOnce
  <2>1. ASSUME TypeInv, Settling, NEW t \in Threads, At(t, "compact_resize")
        PROVE  Once(Handle)
    BY <2>1 DEF Settling, At, Handle
  <2>2. QED
    BY <2>1 DEF CompactedOnce
<1> HIDE DEF I
<1>4. QED
  BY <1>1, <1>2, <1>3, PTL DEF Spec

-----------------------------------------------------------------------------
(* The exact index has every field that can be read back.                    *)

\* A call on a document that is before the primary index, or puts entries.
Before(t) == Writing(t) /\ ~Past(t)
Adding(t) == call[t].pc \in {"exact", "ordered"}

\* The entries of a document are in the exact index, or in the hands of a call
\* that adds them, or will be in those of one that changes the document.
Full(d) ==
  LET fields == EntriesFor(d, DataAt(primary, d))
  IN  \/ DataAt(primary, d) = Nothing
      \/ fields \subseteq exact
      \/ \E t \in Threads : Before(t) /\ call[t].doc = d
      \/ \E t \in Threads : /\ Adding(t) /\ call[t].doc = d
                            /\ fields \subseteq exact \cup call[t].entries

FieldsIndexed == trusted => \A d \in Documents : Full(d)

FullInv == AckedInv /\ Halves /\ FieldsIndexed

\* Steps that drop no entry of a document and keep the calls that owe it some.
LEMMA FullStays ==
  ASSUME NEW d \in Documents, Full(d), DataAt(primary, d)' = DataAt(primary, d),
         \A e \in exact : e[1] = d => e \in exact',
         \A u \in Threads : call[u].doc = d =>
           /\ Before(u) => Before(u)' /\ call'[u].doc = d
           /\ Adding(u) => call'[u] = call[u]
  PROVE  Full(d)'
<1> DEFINE fields == EntriesFor(d, DataAt(primary, d))
<1>1. EntriesFor(d, DataAt(primary, d))' = fields
  BY DEF EntriesFor
<1>2. \A e \in fields : e[1] = d
  BY EntryOfDocument
<1> HIDE DEF fields
<1>3. CASE DataAt(primary, d) = Nothing
  BY <1>3 DEF Full
<1>4. CASE fields \subseteq exact
  BY <1>1, <1>2, <1>4 DEF Full
<1>5. ASSUME NEW t \in Threads, Before(t), call[t].doc = d PROVE Full(d)'
  BY <1>5 DEF Full
<1>6. ASSUME NEW t \in Threads, Adding(t), call[t].doc = d,
             fields \subseteq exact \cup call[t].entries
      PROVE  Full(d)'
  <2>1. call'[t] = call[t] /\ Adding(t)'
    BY <1>6 DEF Adding
  <2>2. fields \subseteq exact' \cup call'[t].entries
    BY <1>2, <1>6, <2>1
  <2>3. QED
    BY <1>1, <1>6, <2>1, <2>2 DEF Full
<1>7. QED
  BY <1>3, <1>4, <1>5, <1>6 DEF Full, fields

\* Steps that leave data and entries alone, and the calls as far as they matter.
LEMMA FieldsStay ==
  ASSUME FieldsIndexed, trusted' => trusted, exact' = exact,
         trusted' => \A d \in Documents : DataAt(primary, d)' = DataAt(primary, d),
         \A u \in Threads : /\ Before(u) => Before(u)' /\ call'[u].doc = call[u].doc
                            /\ Adding(u) => call'[u] = call[u]
  PROVE  FieldsIndexed'
<1>1. ASSUME trusted', NEW d \in Documents PROVE Full(d)'
  <2>1. Full(d) /\ DataAt(primary, d)' = DataAt(primary, d)
    BY <1>1 DEF FieldsIndexed
  <2>2. \A u \in Threads : call[u].doc = d =>
          /\ Before(u) => Before(u)' /\ call'[u].doc = d
          /\ Adding(u) => call'[u] = call[u]
    OBVIOUS
  <2>3. QED
    BY <2>1, <2>2, FullStays
<1>2. QED
  BY <1>1 DEF FieldsIndexed

LEMMA FieldsUnindexExact ==
  ASSUME AckedInv, Halves, FieldsIndexed, NEW t \in Threads, UnindexExact(t)
  PROVE  FieldsIndexed'
<1>1. /\ At(t, "unexact") /\ trusted' = trusted /\ UNCHANGED <<file, orphan, primary>>
      /\ TypeInv /\ Answering
  BY DEF UnindexExact, disk, history, AckedInv, IndexInv
<1>2. /\ Others(t) /\ Keeps(t) /\ call'[t].pc = "unordered"
      /\ \E e \in call[t].entries : exact' = exact \ {e}
  BY <1>1, AfterExact
<1>3. \A e \in exact : e[1] # call[t].doc => e \in exact'
  BY <1>2 DEF Halves
<1>4. call[t].kind \in {"update", "delete"}
  BY <1>1, CallType DEF At, Kinds
<1>5. ASSUME trusted', NEW d \in Documents PROVE Full(d)'
  <2>1. DataAt(primary, d)' = DataAt(primary, d) /\ Full(d)
    BY <1>1, <1>5, SameData DEF FieldsIndexed
  <2>2. CASE d # call[t].doc
    <3>1. \A e \in exact : e[1] = d => e \in exact'
      BY <1>3, <2>2
    <3>2. \A u \in Threads : call[u].doc = d => call'[u] = call[u]
      BY <1>2, <2>2 DEF Others
    <3>3. \A u \in Threads : call[u].doc = d =>
            /\ Before(u) => Before(u)' /\ call'[u].doc = d
            /\ Adding(u) => call'[u] = call[u]
      BY <3>2 DEF Before, Writing, Past
    <3>4. QED
      BY <2>1, <3>1, <3>3, FullStays
  <2>3. CASE d = call[t].doc /\ call[t].kind = "update"
    <3>1. Before(t)' /\ call'[t].doc = d
      BY <1>2, <2>3 DEF Before, Writing, Past, Keeps
    <3>2. QED
      BY <3>1 DEF Full
  <2>4. CASE d = call[t].doc /\ call[t].kind = "delete"
    <3>1. DataAt(primary, d) = call[t].data
      BY <1>1, <1>5, <2>4 DEF Answering, Past, At
    <3>2. call[t].data = Nothing
      BY <1>1, <2>4, CallType DEF At, WriteSteps
    <3>3. QED
      BY <2>1, <3>1, <3>2 DEF Full
  <2>5. QED
    BY <1>4, <2>2, <2>3, <2>4
<1>6. QED
  BY <1>5 DEF FieldsIndexed

LEMMA FieldsSetPrimary ==
  ASSUME AckedInv, AckedInv', FieldsIndexed, NEW t \in Threads, SetPrimary(t)
  PROVE  FieldsIndexed'
<1>1. /\ trusted' = trusted /\ UNCHANGED <<file, orphan, exact>>
      /\ primary' = [primary EXCEPT ![call[t].doc] =
                       IF call[t].kind = "delete" THEN Nothing ELSE call[t].offset]
      /\ TypeInv /\ Answering' /\ primary \in [Documents -> Nat \cup {Nothing}]
  BY DEF SetPrimary, NewOffset, disk, history, AckedInv, IndexInv, TypeInv, TypeOK
<1>2. /\ Others(t) /\ Keeps(t) /\ Past(t)'
      /\ call[t].kind # "delete" =>
           /\ call'[t].entries = EntriesFor(call[t].doc, call[t].data)
           /\ call'[t].pc = IF call'[t].entries = {} THEN "notify" ELSE "exact"
  BY <1>1, AfterSetPrimary DEF Past, Keeps
<1>3. ~Adding(t) /\ (call[t].kind = "delete" <=> call[t].data = Nothing)
  BY <1>1, CallType DEF SetPrimary, At, Adding, WriteSteps
<1>4. ASSUME trusted', NEW d \in Documents PROVE Full(d)'
  <2>1. CASE d = call[t].doc
    <3>1. DataAt(primary, d)' = call[t].data
      BY <1>1, <1>2, <1>4, <2>1 DEF Answering, Keeps
    <3>2. CASE call[t].kind = "delete"
      BY <1>3, <3>1, <3>2 DEF Full
    <3>3. CASE call[t].kind # "delete"
      <4>1. EntriesFor(d, DataAt(primary, d))' = call'[t].entries /\ call'[t].doc = d
        BY <1>2, <2>1, <3>1, <3>3 DEF EntriesFor, Keeps
      <4>2. CASE call'[t].entries = {}
        BY <4>1, <4>2 DEF Full
      <4>3. CASE call'[t].entries # {}
        <5>1. Adding(t)'
          BY <1>2, <3>3, <4>3 DEF Adding
        <5>2. QED
          BY <4>1, <5>1 DEF Full
      <4>4. QED
        BY <4>2, <4>3
    <3>4. QED
      BY <3>2, <3>3
  <2>2. CASE d # call[t].doc
    <3>1. DataAt(primary, d)' = DataAt(primary, d)
      <4>1. primary'[d] = primary[d] /\ Handle' = Handle
        BY <1>1, <2>2 DEF Handle
      <4>2. QED
        BY <4>1, DataAtIsDataIn
    <3>2. \A u \in Threads : call[u].doc = d => call'[u] = call[u]
      BY <1>2, <2>2 DEF Others
    <3>3. \A u \in Threads : call[u].doc = d =>
            /\ Before(u) => Before(u)' /\ call'[u].doc = d
            /\ Adding(u) => call'[u] = call[u]
      BY <3>2 DEF Before, Writing, Past
    <3>4. QED
      BY <1>1, <1>4, <3>1, <3>3, FullStays DEF FieldsIndexed
  <2>3. QED
    BY <2>1, <2>2
<1>5. QED
  BY <1>4 DEF FieldsIndexed

\* The two steps that add an entry.
LEMMA FieldsAdd ==
  ASSUME AckedInv, FieldsIndexed, NEW t \in Threads, IndexExact(t) \/ IndexOrdered(t)
  PROVE  FieldsIndexed'
<1>1. /\ trusted' = trusted /\ UNCHANGED <<file, orphan, primary>> /\ TypeInv
      /\ Adding(t)
  BY DEF IndexExact, IndexOrdered, disk, history, AckedInv, IndexInv, At, Adding
<1>2. /\ Others(t) /\ Keeps(t) /\ exact \subseteq exact'
      /\ exact \cup call[t].entries \subseteq exact' \cup call'[t].entries
      /\ Adding(t)' \/ call'[t].entries = {}
  <2>1. CASE IndexExact(t)
    <3>1. PICK e \in call[t].entries : /\ call'[t].entries = call[t].entries \ {e}
                                       /\ exact' = exact \cup {e}
      BY <1>1, <2>1, AfterExact
    <3>2. Others(t) /\ Keeps(t) /\ call'[t].pc = "ordered"
      BY <1>1, <2>1, AfterExact
    <3>3. QED
      BY <3>1, <3>2 DEF Adding
  <2>2. CASE IndexOrdered(t)
    <3>1. exact' = exact
      BY <2>2 DEF IndexOrdered
    <3>2. /\ Others(t) /\ Keeps(t) /\ call'[t].entries = call[t].entries
          /\ call'[t].pc = IF call[t].entries = {} THEN "notify" ELSE "exact"
      BY <1>1, <2>2, AfterOrdered
    <3>3. QED
      BY <3>1, <3>2 DEF Adding
  <2>3. QED
    BY <2>1, <2>2
<1>3. ASSUME trusted', NEW d \in Documents PROVE Full(d)'
  <2> DEFINE fields == EntriesFor(d, DataAt(primary, d))
  <2>1. Full(d) /\ DataAt(primary, d)' = DataAt(primary, d)
    BY <1>1, <1>3, SameData DEF FieldsIndexed
  <2>2. EntriesFor(d, DataAt(primary, d))' = fields
    BY <2>1 DEF EntriesFor
  <2> HIDE DEF fields
  <2>3. CASE DataAt(primary, d) = Nothing \/ fields \subseteq exact
    BY <1>2, <2>1, <2>2, <2>3 DEF Full
  <2>4. ASSUME NEW u \in Threads, Before(u), call[u].doc = d PROVE Full(d)'
    <3>1. u # t
      BY <1>1, <2>4 DEF Before, Past, Adding
    <3>2. Before(u)' /\ call'[u].doc = d
      BY <1>2, <2>4, <3>1 DEF Before, Writing, Past, Others
    <3>3. QED
      BY <3>2 DEF Full
  <2>5. ASSUME NEW u \in Threads, Adding(u), call[u].doc = d,
               fields \subseteq exact \cup call[u].entries
        PROVE  Full(d)'
    <3>1. CASE u # t
      <4>1. Adding(u)' /\ call'[u].doc = d /\ fields \subseteq exact' \cup call'[u].entries
        BY <1>2, <2>5, <3>1 DEF Adding, Others
      <4>2. QED
        BY <2>2, <4>1 DEF Full
    <3>2. CASE u = t
      <4>1. fields \subseteq exact' \cup call'[t].entries /\ call'[t].doc = d
        BY <1>2, <2>5, <3>2 DEF Keeps
      <4>2. QED
        BY <1>2, <2>2, <4>1 DEF Full
    <3>3. QED
      BY <3>1, <3>2
  <2>6. QED
    BY <2>1, <2>3, <2>4, <2>5 DEF Full, fields
<1>4. QED
  BY <1>3 DEF FieldsIndexed

LEMMA FieldsInstall ==
  ASSUME AckedInv, NEW t \in Threads, Install(t)
  PROVE  FieldsIndexed'
<1>1. /\ At(t, "install") /\ UNCHANGED <<file, orphan>> /\ TypeInv
      /\ primary' = Rebuilt(call[t].records) /\ exact' = EntriesIn(call[t].records)
  BY DEF Install, disk, AckedInv, IndexInv
<1>2. orphan = Nothing /\ file # Nothing /\ call[t].records = ScanAll(file)
  BY <1>1 DEF AckedInv, IndexInv, Scanned
<1>3. Handle' = file /\ file \in File /\ Sound(file)
  BY <1>1, <1>2 DEF Handle, TypeInv, TypeOK, SoundFiles
<1>4. ASSUME NEW d \in Documents, DataAt(primary, d)' # Nothing
      PROVE  EntriesFor(d, DataAt(primary, d))' \subseteq exact'
  <2>1. DataAt(primary, d)' = DataIn(file, Rebuilt(ScanAll(file))[d])
    BY <1>1, <1>2, <1>3, DataAtIsDataIn
  <2>2. Rebuilt(ScanAll(file))[d] # Nothing
    BY <1>4, <2>1 DEF DataIn
  <2>3. PICK k \in DOMAIN file.records :
          /\ file.records[k].at = Rebuilt(ScanAll(file))[d]
          /\ file.records[k].doc = d /\ file.records[k].kind # "delete"
          /\ k \in DOMAIN ScanAll(file) /\ ScanAll(file)[k] = file.records[k]
    BY <1>3, <2>2, RebuiltPoints
  <2>4. DataAt(primary, d)' = ScanAll(file)[k].data
    BY <1>3, <2>1, <2>3, DataOfRecord
  <2>5. EntriesFor(ScanAll(file)[k].doc, ScanAll(file)[k].data) \subseteq exact'
    BY <1>1, <1>2, <2>3 DEF EntriesIn
  <2>6. EntriesFor(d, DataAt(primary, d))' = EntriesFor(d, ScanAll(file)[k].data)
    BY <2>4 DEF EntriesFor
  <2>7. QED
    BY <2>3, <2>5, <2>6
<1>5. QED
  BY <1>4 DEF FieldsIndexed, Full

LEMMA FieldsNext ==
  ASSUME "io" \notin Faults, AckedInv, AckedInv', Halves, FieldsIndexed, [Next]_vars
  PROVE  FieldsIndexed'
<1>0. TypeInv /\ Pointing
  BY DEF AckedInv, IndexInv
<1>1. ASSUME NEW t \in Threads, Step(t) PROVE FieldsIndexed'
  <2>1. CASE \E d \in Documents : (\E v \in Values : Put(t, d, v) \/ Update(t, d, v)) \/ Delete(t, d)
    <3>1. UNCHANGED <<file, orphan, primary, exact, trusted>> /\ At(t, "idle")
      BY <2>1 DEF Put, Update, Delete, Begin, disk, indexes, history
    <3>2. Others(t) /\ ~Before(t) /\ ~Adding(t)
      BY <1>0, <2>1, <3>1, AfterBegin DEF Put, Update, Delete, Before, Writing, Adding, At
    <3>3. QED
      BY <3>1, <3>2, SameData, FieldsStay DEF Others, Before, Writing, Past
  <2>2. CASE Collect(t) \/ UnindexOrdered(t)
    <3>1. UNCHANGED <<file, orphan, primary, exact, trusted>>
      BY <2>2 DEF Collect, UnindexOrdered, disk, indexes, history
    <3>2. call[t].pc \in {"collect", "unordered"} /\ call[t].kind \in {"update", "delete"}
      BY <1>0, <2>2, CallType DEF Collect, UnindexOrdered, At, Kinds
    <3>3. Others(t) /\ Keeps(t)
      BY <1>0, <2>2, AfterCollect, AfterOrdered
    <3>4. call'[t].pc \in {"unexact", AfterUnindex(t)}
      BY <1>0, <2>2, AfterCollect, AfterOrdered
    <3>5. ~Adding(t) /\ (Before(t) => Before(t)')
      BY <3>2, <3>3, <3>4 DEF Adding, Before, Writing, Past, Keeps, AfterUnindex
    <3>6. QED
      BY <3>1, <3>3, <3>5, SameData, FieldsStay DEF Others, Before, Writing, Past, Keeps
  <2>3. CASE AppendRecord(t)
    <3>1. UNCHANGED <<exact, trusted>> /\ At(t, "append")
      BY <2>3 DEF AppendRecord, indexes, history
    <3>2. Others(t) /\ Keeps(t) /\ Before(t)' /\ ~Adding(t)
      BY <1>0, <2>3, <3>1, AfterAppend DEF Before, Writing, Past, Adding, At
    <3>3. trusted' => \A d \in Documents : DataAt(primary, d)' = DataAt(primary, d)
      BY <1>0, <2>3, <3>1, AppendKeepsData
    <3>4. QED
      BY <3>1, <3>2, <3>3, FieldsStay DEF Others, Before, Writing, Past, Keeps
  <2>4. CASE Notify(t) \/ Compact(t) \/ CompactOpen(t) \/ CompactWrite(t)
    <3>1. UNCHANGED <<file, orphan, primary, exact, trusted>>
      BY <2>4 DEF Notify, Compact, CompactOpen, CompactWrite, disk, indexes, history
    <3>2. Others(t) /\ ~Before(t) /\ ~Adding(t)
      <4>1. ~Before(t) /\ ~Adding(t)
        BY <2>4 DEF Notify, Compact, CompactOpen, CompactWrite, At, Before, Past, Writing, Adding
      <4>2. Others(t)
        BY <1>0, <2>4, AfterEnd, AfterCompact, AfterCompactStep, AfterCompactWrite DEF Ends
      <4>3. QED
        BY <4>1, <4>2
    <3>3. QED
      BY <3>1, <3>2, SameData, FieldsStay DEF Others, Before, Writing, Past
  <2>5. CASE CompactRemove(t)
    BY <2>5 DEF CompactRemove, FieldsIndexed
  <2>6. CASE CompactRename(t) \/ CompactReopen(t) \/ CompactMeasure(t) \/ CompactResize(t)
    <3>1. Swapped(t) /\ trusted' = trusted
      BY <2>6 DEF CompactRename, CompactReopen, CompactMeasure, CompactResize, At, Swapped, history
    <3>2. QED
      BY <1>0, <3>1 DEF Pointing, FieldsIndexed
  <2>7. CASE InitDatabase(t) \/ Reinit(t)
    <3>1. /\ At(t, "idle") /\ file' = Opened(file)
          /\ UNCHANGED <<orphan, primary, exact, trusted>>
          /\ Become(t, [Idle EXCEPT !.pc = "install", !.offset = Opened(file).bytes,
                                    !.records = ScanAll(Opened(file))])
      BY <2>7 DEF InitDatabase, Reinit, Scan, indexes, history
    <3>2. Others(t) /\ ~Before(t) /\ ~Adding(t)
      BY <1>0, <3>1, CallType DEF Become, Others, Before, Writing, Adding, At
    <3>3. trusted => file' = file
      BY <1>0, <3>1 DEF Pointing, Opened
    <3>4. CASE trusted
      BY <3>1, <3>2, <3>3, <3>4, SameData, FieldsStay DEF Others, Before, Writing, Past
    <3>5. QED
      BY <3>1, <3>4 DEF FieldsIndexed
  <2>8. CASE Close(t)
    <3>1. UNCHANGED <<file, orphan, primary, exact, trusted, call>>
      BY <2>8 DEF Close, disk, indexes, history
    <3>2. QED
      BY <3>1, SameData, FieldsStay DEF Before, Writing, Past
  <2>9. CASE UnindexExact(t)
    BY <2>9, FieldsUnindexExact
  <2>10. CASE SetPrimary(t)
    BY <2>10, FieldsSetPrimary
  <2>11. CASE IndexExact(t) \/ IndexOrdered(t)
    BY <2>11, FieldsAdd
  <2>12. CASE Install(t)
    BY <2>12, FieldsInstall
  <2>13. QED
    BY <1>1, <2>1, <2>2, <2>3, <2>4, <2>5, <2>6, <2>7, <2>8, <2>9, <2>10, <2>11, <2>12
       DEF Step, AppendFails
<1>2. ASSUME NEW c \in Watched, Subscribe(c) \/ Unsubscribe(c) \/ Receive(c) PROVE FieldsIndexed'
  <2>1. UNCHANGED <<file, orphan, primary, exact, trusted, call>>
    BY <1>2 DEF Subscribe, Unsubscribe, Receive, disk, indexes, history
  <2>2. QED
    BY <2>1, SameData, FieldsStay DEF Before, Writing, Past
<1>3. CASE Crash
  BY <1>3 DEF Crash, FieldsIndexed
<1>4. CASE UNCHANGED vars
  <2>1. UNCHANGED <<file, orphan, primary, exact, trusted, call>>
    BY <1>4 DEF vars, disk, indexes, history
  <2>2. QED
    BY <2>1, SameData, FieldsStay DEF Before, Writing, Past
<1>5. QED
  BY <1>1, <1>2, <1>3, <1>4 DEF Next

LEMMA FullAlways ==
  ASSUME ScansAlone, OwnDocuments, "io" \notin Faults
  PROVE  Spec => []FullInv
<1>1. Init => FullInv
  <2>1. Init => Halves /\ FieldsIndexed
    BY DEF Init, Halves, Idle, FieldsIndexed
  <2>2. QED
    BY <2>1, AckedInit DEF FullInv
<1>2. FullInv /\ [Next]_vars => FullInv'
  <2>1. SUFFICES ASSUME FullInv, [Next]_vars PROVE FullInv'
    OBVIOUS
  <2>2. AckedInv /\ AckedInv' /\ Halves /\ FieldsIndexed /\ TypeInv
    BY <2>1, AckedNext DEF FullInv, AckedInv, IndexInv
  <2>3. QED
    BY <2>1, <2>2, HalvesNext, FieldsNext DEF FullInv
<1>3. QED
  BY <1>1, <1>2, PTL DEF Spec

\* With no call under way the exact index has every field of every document that
\* can be read out of its payload, also after the file was scanned again: where
\* no append fails, since one that does leaves the document without the entries
\* an update dropped before.
THEOREM IndexComplete ==
  ASSUME ScansAlone, OwnDocuments, "io" \notin Faults
  PROVE  Spec => []IndexFull
<1>1. FullInv => IndexFull
  <2>1. SUFFICES ASSUME FullInv, up, trusted, AllIdle, NEW d \in Documents,
                        DataAt(primary, d) # Nothing
                 PROVE  EntriesFor(d, DataAt(primary, d)) \subseteq exact
    BY DEF IndexFull
  <2>2. \A t \in Threads : ~Before(t) /\ ~Adding(t)
    BY <2>1 DEF Before, Writing, Adding, AllIdle, At
  <2>3. QED
    BY <2>1, <2>2 DEF FullInv, FieldsIndexed, Full
<1>2. Spec => []FullInv
  BY FullAlways
<1>3. QED
  BY <1>1, <1>2, PTL

-----------------------------------------------------------------------------
(* Queries.                                                                  *)

LEMMA LeastNatural ==
  ASSUME NEW T \in SUBSET Nat, T # {}
  PROVE  \E m \in T : \A n \in T : m <= n
<1>1. IsWellFoundedOn(Less, Nat)
  <2>1. IsWellFoundedOn(OpToRel(<, Nat), Nat)
    BY NatLessThanWellFounded
  <2>2. OpToRel(<, Nat) = Less
    BY DEF OpToRel, Less
  <2>3. QED
    BY <2>1, <2>2
<1>2. PICK m \in T : \A n \in T : ~ (<<n, m>> \in Less)
  BY <1>1, WFMin, Zenon
<1>3. ASSUME NEW n \in T, ~ (m <= n) PROVE FALSE
  <2>1. <<n, m>> \in Less
    BY <1>3 DEF Less
  <2>2. QED
    BY <1>2, <2>1
<1>4. QED
  BY <1>3

\* The plan of a query is one of its conditions, if it is not Unset, and then
\* the query is no "or".
LEMMA PlanIsCondition ==
  ASSUME NEW index, NEW q \in QueryType, Plan(index, q) # Unset
  PROVE  /\ q.kind \notin {"all", "or"}
         /\ \E k \in DOMAIN q.conditions : Plan(index, q) = q.conditions[k]
<1> DEFINE indexed == Indexed(index, q)
           equal   == {k \in indexed : q.conditions[k].operator = "eq"}
<1>1. /\ q.conditions \in Seq(Conditions) /\ Len(q.conditions) \in Nat
      /\ DOMAIN q.conditions = 1..Len(q.conditions)
  BY DEF QueryType
<1>2. indexed \in SUBSET (0..Len(q.conditions)) /\ equal \in SUBSET (0..Len(q.conditions))
  BY <1>1 DEF Indexed
<1>3. indexed \subseteq DOMAIN q.conditions /\ equal \subseteq DOMAIN q.conditions
  BY DEF Indexed
<1>4. q.kind \notin {"all", "or"} /\ indexed # {}
  BY DEF Plan
<1>5. Plan(index, q) = IF equal = {}
                       THEN q.conditions[CHOOSE k \in indexed : \A j \in indexed : k <= j]
                       ELSE q.conditions[CHOOSE k \in equal : \A j \in equal : j <= k]
  BY <1>4 DEF Plan
<1> HIDE DEF indexed, equal
<1>6. \E k \in indexed : \A j \in indexed : k <= j
  BY <1>2, <1>4, LeastNatural
<1>7. equal # {} => \E k \in equal : \A j \in equal : j <= k
  BY <1>1, <1>2, GreatestNatural
<1>8. CASE equal = {}
  <2>1. (CHOOSE k \in indexed : \A j \in indexed : k <= j) \in indexed
    BY <1>6
  <2>2. QED
    BY <1>3, <1>4, <1>5, <1>8, <2>1
<1>9. CASE equal # {}
  <2>1. (CHOOSE k \in equal : \A j \in equal : j <= k) \in equal
    BY <1>7, <1>9
  <2>2. QED
    BY <1>3, <1>4, <1>5, <1>9, <2>1
<1>10. QED
  BY <1>8, <1>9

\* What the order of the index makes of values that compare.
LEMMA ComparesBelow ==
  ASSUME NEW a \in FieldValues, NEW b \in FieldValues, ~Signed(a), ~Signed(b)
  PROVE  /\ Compares(a, "gt", b) => Below(b, a)
         /\ Compares(a, "lt", b) => Below(a, b)
         /\ Compares(a, "gte", b) => ~Below(a, b) /\ (Below(b, a) \/ a = b)
         /\ Compares(a, "lte", b) => Below(a, b) \/ a = b
<1>1. /\ a[1] \in Types /\ a[2] \in Int /\ b[1] \in Types /\ b[2] \in Int
      /\ a = <<a[1], a[2]>> /\ b = <<b[1], b[2]>>
  BY DEF FieldValues
<1>2. SUFFICES ASSUME a[1] = b[1]
               PROVE  /\ Compares(a, "gt", b) => Below(b, a)
                      /\ Compares(a, "lt", b) => Below(a, b)
                      /\ Compares(a, "gte", b) => ~Below(a, b) /\ (Below(b, a) \/ a = b)
                      /\ Compares(a, "lte", b) => Below(a, b) \/ a = b
  BY DEF Compares
<1> DEFINE m == a[2]
           n == b[2]
<1>3. Number(a) = m /\ Number(b) = n /\ (a[1] = "float" => m >= 0 /\ n >= 0)
  <2>1. a[1] = "float" => ~(m < 0) /\ ~(n < 0)
    BY <1>2, UnsetAssumption DEF Signed
  <2>2. QED
    BY <1>1, <1>2, <2>1 DEF Number
<1>4. ~(Rank[a[1]] < Rank[b[1]])
  <2>1. Rank[a[1]] \in Int
    BY <1>1 DEF Rank, Types
  <2>2. QED
    BY <1>2, <2>1
<1>5. (Below(a, b) <=> m < n) /\ (Below(b, a) <=> n < m)
  BY <1>1, <1>2, <1>3, <1>4 DEF Below, BitsBelow
<1>6. m = n => a = b
  BY <1>1, <1>2
<1>7. /\ Compares(a, "gt", b) => m > n
      /\ Compares(a, "lt", b) => m < n
      /\ Compares(a, "gte", b) => m >= n
      /\ Compares(a, "lte", b) => m <= n
  BY <1>3 DEF Compares, Ordered
<1>8. m \in Int /\ n \in Int
  BY <1>1
<1> HIDE DEF m, n
<1>9. QED
  BY <1>5, <1>6, <1>7, <1>8

LEMMA ComparesEqual ==
  ASSUME NEW a \in FieldValues, NEW b \in FieldValues, Compares(a, "eq", b),
         MinusZero \notin {a, b}
  PROVE  a = b
<1>1. /\ a[1] \in Types /\ a[2] \in Int /\ b[1] \in Types /\ b[2] \in Int
      /\ a = <<a[1], a[2]>> /\ b = <<b[1], b[2]>>
  BY DEF FieldValues
<1>2. a[1] = b[1] /\ Number(a) = Number(b)
  BY DEF Compares
<1>3. ~(a[1] = "float" /\ a[2] = -1) /\ ~(b[1] = "float" /\ b[2] = -1)
  BY <1>1 DEF MinusZero
<1>4. a[2] = b[2]
  BY <1>1, <1>2, <1>3 DEF Number
<1>5. QED
  BY <1>1, <1>2, <1>4

\* An index scan yields each id with an entry that satisfies the condition.
LEMMA ScanYields ==
  ASSUME NEW index, NEW ids, NEW c \in Conditions, NEW i, NEW v \in FieldValues,
         <<i, c.field, v>> \in index, Satisfies(v, c), c.operator # "ne",
         c.operator = "eq" => MinusZero \notin {v, c.value},
         c.operator # "eq" => ~Signed(v) /\ ~Signed(c.value) /\ ~Signed(c.value2)
  PROVE  i \in IndexScan(index, index, ids, c)
<1> DEFINE e == <<i, c.field, v>>
<1>1. /\ c.value \in FieldValues /\ c.operator \in Operators
      /\ c.value2 # Unset => c.value2 \in FieldValues
  BY DEF Conditions
<1>2. e \in index /\ e[1] = i /\ e[2] = c.field /\ e[3] = v
  OBVIOUS
<1> HIDE DEF e
<1>3. v = c.value => i \in FindExact(index, c.field, c.value)
  BY <1>2 DEF FindExact, Find
<1>4. Below(c.value, v) => i \in FindGt(index, c.field, c.value)
  BY <1>2 DEF FindGt, Find
<1>5. Below(v, c.value) => i \in FindLt(index, c.field, c.value)
  BY <1>2 DEF FindLt, Find
<1>6. ~Below(v, c.value) /\ Below(v, c.value2)
        => i \in FindRange(index, c.field, c.value, c.value2)
  BY <1>2 DEF FindRange, Find
<1>7. CASE c.operator = "eq"
  <2>1. v = c.value
    BY <1>1, <1>7, ComparesEqual DEF Satisfies
  <2>2. QED
    BY <1>3, <1>7, <2>1 DEF IndexScan
<1>8. CASE c.operator \in {"gt", "lt", "gte", "lte"}
  <2>1. Compares(v, c.operator, c.value) /\ ~Signed(v) /\ ~Signed(c.value)
    BY <1>8 DEF Satisfies
  <2>2. /\ c.operator = "gt" => Below(c.value, v)
        /\ c.operator = "lt" => Below(v, c.value)
        /\ c.operator = "gte" => Below(c.value, v) \/ v = c.value
        /\ c.operator = "lte" => Below(v, c.value) \/ v = c.value
    BY <1>1, <2>1, ComparesBelow
  <2>3. QED
    BY <1>3, <1>4, <1>5, <1>8, <2>2 DEF IndexScan
<1>9. CASE c.operator = "range"
  <2>1. c.value2 # Unset /\ Compares(v, "gte", c.value) /\ Compares(v, "lt", c.value2)
    BY <1>9 DEF Satisfies
  <2>2. ~Below(v, c.value) /\ Below(v, c.value2)
    BY <1>1, <1>9, <2>1, ComparesBelow
  <2>3. QED
    BY <1>6, <1>9, <2>1, <2>2 DEF IndexScan
<1>10. QED
  BY <1>1, <1>7, <1>8, <1>9 DEF Operators

\* What get finds of a document, the index has the fields of.
LEMMA FieldsOfRecord ==
  ASSUME FullInv, up, trusted, AllIdle, NEW c \in Collections, NEW i \in Ids,
         Get(<<c, i>>) # Nothing, NEW f \in RecordFields(Get(<<c, i>>))
  PROVE  /\ f[2] \in FieldValues
         /\ <<i, f[1], f[2]>> \in InCollection(exact, c)
         /\ exact = ordered
<1> DEFINE d == <<c, i>>
           v == Get(d)
<1>1. d \in Documents /\ d[1] = c /\ d[2] = i
  BY DEF Documents
<1> HIDE DEF d
<1>2. \A t \in Threads : ~Past(t) /\ ~Before(t) /\ ~Adding(t) /\ call[t].current = {}
  BY DEF Past, Before, Writing, Adding, AllIdle, At, FullInv, Halves
<1>3. v = DataAt(primary, d)
  <2>1. AckedInv
    BY DEF FullInv
  <2>2. v = acked[d]
    BY <1>1, <2>1, ReadsFind DEF d
  <2>3. DataAt(primary, d) = acked[d]
    BY <1>1, <1>2, <2>1 DEF AckedInv, Answering
  <2>4. QED
    BY <2>2, <2>3
<1>4. v \in Values
  <2>1. v \in MaybeValue /\ v # Nothing
    BY <1>1, ReadsFind DEF FullInv, AckedInv, IndexInv, TypeInv, TypeOK, d
  <2>2. QED
    BY <2>1 DEF MaybeValue
<1>5. EntriesFor(d, v) \subseteq exact
  BY <1>1, <1>2, <1>3, <1>4, NothingAssumption DEF FullInv, FieldsIndexed, Full
<1>6. PICK k \in Legible(v) : f = Payload[v][k]
  BY DEF RecordFields, d
<1>7. k \in DOMAIN Payload[v] /\ f \in IndexFields(v)
  <2>1. k \in DOMAIN Payload[v]
    BY <1>6, Zenon DEF Legible
  <2>2. QED
    BY <1>6, <2>1 DEF IndexFields
<1>8. Payload[v] \in Seq(Fields \X FieldValues)
  BY <1>4, DataAssumption
<1>9. f \in Fields \X FieldValues
  BY <1>6, <1>7, <1>8
<1>10. <<d, f[1], f[2]>> \in exact
  BY <1>5, <1>7 DEF EntriesFor
<1>11. <<i, f[1], f[2]>> \in InCollection(exact, c)
  <2> DEFINE e == <<d, f[1], f[2]>>
  <2>1. e \in exact /\ e[1][1] = c /\ e[1][2] = i /\ e[2] = f[1] /\ e[3] = f[2]
    BY <1>1, <1>10
  <2> HIDE DEF e
  <2>2. QED
    BY <2>1 DEF InCollection
<1>12. exact = ordered
  BY <1>2 DEF FullInv, Halves, AckedInv, IndexInv, TypeInv, TypeOK
<1>13. QED
  BY <1>9, <1>11, <1>12

\* With no call under way a query finds each document that matches it and that
\* get can read, whichever plan the optimizer chose and whatever entries of
\* replaced values the index still has: where no append fails, and but for "ne",
\* for floats the index has out of order and for ranges that panic.
THEOREM QueriesFind ==
  ASSUME ScansAlone, OwnDocuments, "io" \notin Faults
  PROVE  Spec => []QueryFinds
<1>1. FullInv => QueryFinds
  <2>1. SUFFICES ASSUME FullInv, up, trusted, AllIdle, NEW c \in Collections, NEW q \in Queries,
                        Answers(c, q), ~Excluding(q), NEW i \in Answer(c, q),
                        ~Misordered(RecordFields(Get(<<c, i>>)), q)
                 PROVE  i \in Result(c, q)
    BY DEF QueryFinds
  <2> DEFINE index  == InCollection(exact, c)
             fields == RecordFields(Get(<<c, i>>))
             plan   == Plan(index, q)
             ids    == IF plan = Unset THEN Answer(c, q)
                       ELSE IndexScan(index, InCollection(ordered, c), IdsOf(c), plan)
  <2>2. i \in Ids /\ i \in IdsOf(c) /\ Get(<<c, i>>) # Nothing /\ Matches(fields, q)
    BY <2>1 DEF Answer, IdsOf
  <2>3. \A f \in fields : /\ f[2] \in FieldValues /\ <<i, f[1], f[2]>> \in index
                          /\ InCollection(ordered, c) = index
    BY <2>1, <2>2, FieldsOfRecord
  <2>4. q \in QueryType
    BY <2>1, DataAssumption
  <2>5. Result(c, q) = {j \in ids \cap IdsOf(c) : Get(<<c, j>>) # Nothing}
    BY DEF Result
  <2>6. i \in ids
    <3>1. CASE plan = Unset
      BY <2>1, <3>1
    <3>2. CASE plan # Unset
      <4> HIDE DEF fields, index
      <4>1. PICK k \in DOMAIN q.conditions : plan = q.conditions[k]
        BY <2>4, <3>2, PlanIsCondition
      <4>2. q.kind \notin {"all", "or"}
        BY <2>4, <3>2, PlanIsCondition
      <4>3. plan \in Conditions
        BY <2>4, <4>1 DEF QueryType
      <4>4. MatchesCondition(fields, q.conditions[k])
        BY <2>2, <4>2 DEF Matches
      <4> HIDE DEF plan
      <4>5. PICK f \in fields : f[1] = plan.field /\ Satisfies(f[2], plan)
        BY <4>1, <4>4 DEF MatchesCondition
      <4>6. plan.operator # "ne"
        BY <2>1, <4>1 DEF Excluding
      <4>7. ~ IF plan.operator = "eq" THEN MinusZero \in {f[2], plan.value}
              ELSE \E v \in {f[2], plan.value, plan.value2} : Signed(v)
        BY <2>1, <4>1, <4>5 DEF Misordered, fields
      <4>8. i \in IndexScan(index, index, IdsOf(c), plan)
        BY <2>3, <4>3, <4>5, <4>6, <4>7, ScanYields
      <4>9. QED
        BY <2>3, <3>2, <4>5, <4>8
    <3>3. QED
      BY <3>1, <3>2
  <2> HIDE DEF ids
  <2>7. QED
    BY <2>2, <2>5, <2>6
<1>2. Spec => []FullInv
  BY FullAlways
<1>3. QED
  BY <1>1, <1>2, PTL
=============================================================================
