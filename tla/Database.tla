------------------------------ MODULE Database ------------------------------
(* The Rust engine: Database (rust/src/db.rs) over the append-only file, the *)
(* primary and the secondary index, the watchers and the compaction.         *)
(*                                                                           *)
(* Each of these parts has a lock of its own and Database has none: threads  *)
(* that share a Database interleave between any two calls it makes to its    *)
(* parts.  Behind the bridge (rust/src/lib.rs) one mutex holds them apart:   *)
(* that is one thread, except that torex_init opens before it locks.         *)
EXTENDS RecordLog, QueryPlans

CONSTANTS Threads,
          Does,        \* what each thread calls
          Home,        \* the documents each thread writes
          Watched,     \* collections with a subscriber
          Capacity,    \* room in a subscriber's channel (256 in the code)
          Faults,      \* a subset of {"crash", "io"}
          Queries,     \* the queries whose answers are looked at
          TornLength,  \* bytes that an interrupted write_all leaves
          MaxRecords,  \* bound: records in the file
          MaxFaults    \* bound: crashes and failures

ASSUME ThreadsAssumption ==
  /\ Does \in [Threads -> SUBSET {"init", "reinit", "put", "update", "delete",
                                  "compact", "close"}]
  /\ Home \in [Threads -> SUBSET Documents]
  /\ Watched \subseteq Collections
  /\ TornLength \in Nat /\ MaxFaults \in Nat

ASSUME DataAssumption ==
  /\ Payload \in [Values -> Seq(Fields \X FieldValues)]
  /\ \A q \in Queries : q \in QueryType

VARIABLES file,        \* what data.torex holds, Nothing if there is none
          compacted,   \* what data_compacted.torex holds, or Nothing
          orphan,      \* a removed data.torex the handle still writes to
          up,          \* there is an open Database
          writeOffset,
          primary,     \* the offset of each document, or Nothing
          exact,       \* secondary index: sets of <<document, field, value>>
          ordered,
          queue,       \* events not yet received
          mirror,      \* the documents a subscriber knows of, or Nothing
          call,        \* the call of each thread
          acked,       \* history: the value last acknowledged, of this Database
          trusted,     \* history: no rewrite or half write of the file since open
          missed,      \* history: collections with an event that found no room
          faults

disk    == <<file, compacted>>
indexes == <<primary, exact, ordered>>
events  == <<queue, mirror, missed>>
history == <<acked, trusted, faults>>
vars    == <<disk, orphan, up, writeOffset, indexes, events, call, history>>

Entries == UNION {{<<d, f[1], f[2]>> : f \in IndexFields(v)} : d \in Documents, v \in Values}
Event   == [doc : Documents, data : MaybeValue]

Call == [pc      : {"idle", "collect", "unexact", "unordered", "append", "primary",
                    "exact", "ordered", "notify", "install", "compact_open",
                    "compact_write", "compact_remove", "compact_rename",
                    "compact_reopen", "compact_measure", "compact_resize"},
         kind    : Kinds,
         doc     : Documents,
         data    : MaybeValue,
         offset  : Nat,               \* what append returned, or a file size
         entries : SUBSET Entries,    \* index entries left to drop or to add
         current : SUBSET Entries,    \* the one between the two indexes
         records : Seq(Placed),       \* the records scan_all returned
         left    : SUBSET Nat]        \* the ones compaction has left to write

NoDocument == CHOOSE d \in Documents : TRUE
Idle == [pc |-> "idle", kind |-> "insert", doc |-> NoDocument, data |-> Nothing,
         offset |-> 0, entries |-> {}, current |-> {}, records |-> << >>,
         left |-> {}]

NoOffsets == [d \in Documents |-> Nothing]

TypeOK ==
  /\ file \in File \cup {Nothing}
  /\ compacted \in File \cup {Nothing}
  /\ orphan \in File \cup {Nothing}
  /\ up \in BOOLEAN
  /\ writeOffset \in Nat
  /\ primary \in [Documents -> Nat \cup {Nothing}]
  /\ exact \in SUBSET Entries /\ ordered \in SUBSET Entries
  /\ queue \in [Watched -> Seq(Event)]
  /\ mirror \in [Watched -> [Ids -> MaybeValue] \cup {Nothing}]
  /\ missed \in SUBSET Watched
  /\ call \in [Threads -> Call]
  /\ acked \in [Documents -> MaybeValue]
  /\ trusted \in BOOLEAN
  /\ faults \in 0..MaxFaults

Init ==
  /\ file = Nothing /\ compacted = Nothing /\ orphan = Nothing
  /\ up = FALSE
  /\ writeOffset = 0
  /\ primary = NoOffsets
  /\ exact = {} /\ ordered = {}
  /\ queue = [c \in Watched |-> << >>]
  /\ mirror = [c \in Watched |-> Nothing]
  /\ missed = {}
  /\ call = [t \in Threads |-> Idle]
  /\ acked = [d \in Documents |-> Nothing]
  /\ trusted = FALSE
  /\ faults = 0

-----------------------------------------------------------------------------
At(t, step)    == call[t].pc = step
Become(t, new) == call' = [call EXCEPT ![t] = new]
Goto(t, step)  == Become(t, [call[t] EXCEPT !.pc = step])
AllIdle        == \A t \in Threads : At(t, "idle")

\* What the open handle reads and writes.
Handle == IF orphan # Nothing THEN orphan ELSE file

EntriesFor(d, v) == {<<d, f[1], f[2]>> : f \in IndexFields(v)}

-----------------------------------------------------------------------------
\* put, update and delete.

Begin(t, step, kind, d, v) ==
  /\ At(t, "idle") /\ up
  /\ d \in Home[t]
  /\ Len(Handle.records) < MaxRecords
  /\ Become(t, [Idle EXCEPT !.pc = step, !.kind = kind, !.doc = d, !.data = v])
  /\ UNCHANGED <<disk, orphan, up, writeOffset, indexes, events, history>>

Put(t, d, v) == /\ "put" \in Does[t]
                /\ Begin(t, "append", "insert", d, v)

Update(t, d, v) == /\ "update" \in Does[t]
                   /\ primary[d] # Nothing
                   /\ Begin(t, "collect", "update", d, v)

Delete(t, d) == /\ "delete" \in Does[t]
                /\ primary[d] # Nothing
                /\ Begin(t, "append", "delete", d, Nothing)

\* remove_id: collect the entries of the document under one lock, then drop
\* them one by one from the exact and from the ordered index.  An update does
\* that before it appends, a delete at the end.
AfterUnindex(t) == IF call[t].kind = "update" THEN "append" ELSE "notify"

Collect(t) ==
  LET found == {e \in exact : e[1] = call[t].doc}
  IN  /\ At(t, "collect")
      /\ Become(t, [call[t] EXCEPT !.pc = IF found = {} THEN AfterUnindex(t)
                                          ELSE "unexact",
                                   !.entries = found])
      /\ UNCHANGED <<disk, orphan, up, writeOffset, indexes, events, history>>

UnindexExact(t) ==
  /\ At(t, "unexact")
  /\ \E e \in call[t].entries :
       /\ exact' = exact \ {e}
       /\ Become(t, [call[t] EXCEPT !.pc = "unordered", !.current = {e},
                                    !.entries = @ \ {e}])
  /\ UNCHANGED <<disk, orphan, up, writeOffset, primary, ordered, events, history>>

ExactOnly(t) ==  \* mutant: the ordered index keeps the entry
  /\ At(t, "unordered")
  /\ Become(t, [call[t] EXCEPT !.pc = IF call[t].entries = {} THEN AfterUnindex(t)
                                      ELSE "unexact",
                               !.current = {}])
  /\ UNCHANGED <<disk, orphan, up, writeOffset, indexes, events, history>>

UnindexOrdered(t) ==
  /\ At(t, "unordered")
  /\ ordered' = ordered \ call[t].current
  /\ Become(t, [call[t] EXCEPT !.pc = IF call[t].entries = {} THEN AfterUnindex(t)
                                      ELSE "unexact",
                               !.current = {}])
  /\ UNCHANGED <<disk, orphan, up, writeOffset, primary, exact, events, history>>

\* append: the bytes go to the end of the file the handle has open, the offset
\* that is returned is what the engine counted.
ToHandle(new) == IF orphan # Nothing
                 THEN orphan' = new /\ UNCHANGED file
                 ELSE file' = new /\ UNCHANGED orphan

RecordOf(t) == [kind |-> call[t].kind, doc |-> call[t].doc, data |-> call[t].data]

EndOffset(t) ==  \* mutant: append returns the offset after the record
  /\ At(t, "append")
  /\ ToHandle(AppendedTo(Handle, RecordOf(t)))
  /\ writeOffset' = writeOffset + Written + Body(RecordOf(t))
  /\ Become(t, [call[t] EXCEPT !.pc = "primary", !.offset = writeOffset'])
  /\ UNCHANGED <<compacted, up, indexes, events, history>>

AppendRecord(t) ==
  /\ At(t, "append")
  /\ ToHandle(AppendedTo(Handle, RecordOf(t)))
  /\ writeOffset' = writeOffset + Written + Body(RecordOf(t))
  /\ Become(t, [call[t] EXCEPT !.pc = "primary", !.offset = writeOffset])
  /\ UNCHANGED <<compacted, up, indexes, events, history>>

\* The index entry of the document is set, or removed.
MinusOne(t) ==  \* mutant: a removed entry is an offset of -1
  primary' = [primary EXCEPT ![call[t].doc] =
                IF call[t].kind = "delete" THEN -1 ELSE call[t].offset]

KeptOffset(t) ==  \* mutant: an update leaves the offset as it was
  primary' = [primary EXCEPT ![call[t].doc] =
                IF call[t].kind = "delete" THEN Nothing
                ELSE IF call[t].kind = "update" THEN @ ELSE call[t].offset]

NewOffset(t) ==
  primary' = [primary EXCEPT ![call[t].doc] =
                IF call[t].kind = "delete" THEN Nothing ELSE call[t].offset]

SetPrimary(t) ==
  LET new == IF call[t].kind = "delete" THEN {}
             ELSE EntriesFor(call[t].doc, call[t].data)
  IN  /\ At(t, "primary")
      /\ NewOffset(t)
      /\ Become(t, [call[t] EXCEPT !.entries = new,
                                   !.pc = IF call[t].kind = "delete" THEN "collect"
                                          ELSE IF new = {} THEN "notify" ELSE "exact"])
      /\ UNCHANGED <<disk, orphan, up, writeOffset, exact, ordered, events, history>>

\* In the order of the payload.
FirstOf(entries, v) ==
  {e \in entries : \E k \in DOMAIN Payload[v] :
     /\ Payload[v][k] = <<e[2], e[3]>>
     /\ \A j \in 1..(k-1) : <<e[1], Payload[v][j][1], Payload[v][j][2]>> \notin entries}

IndexExact(t) ==
  /\ At(t, "exact")
  /\ \E e \in FirstOf(call[t].entries, call[t].data) :
       /\ exact' = exact \cup {e}
       /\ Become(t, [call[t] EXCEPT !.pc = "ordered", !.current = {e},
                                    !.entries = @ \ {e}])
  /\ UNCHANGED <<disk, orphan, up, writeOffset, primary, ordered, events, history>>

IndexOrdered(t) ==
  /\ At(t, "ordered")
  /\ ordered' = ordered \cup call[t].current
  /\ Become(t, [call[t] EXCEPT !.pc = IF call[t].entries = {} THEN "notify"
                                      ELSE "exact",
                               !.current = {}])
  /\ UNCHANGED <<disk, orphan, up, writeOffset, primary, exact, events, history>>

\* watch: a client that knows the documents of a collection subscribes to it,
\* between two calls on it.
Subscribed(c) == c \in Watched /\ mirror[c] # Nothing

Subscribe(c) ==
  /\ up /\ ~Subscribed(c)
  /\ \A t \in Threads : At(t, "idle") \/ call[t].doc[1] # c
  /\ mirror' = [mirror EXCEPT ![c] = [i \in Ids |-> acked[<<c, i>>]]]
  /\ UNCHANGED <<disk, orphan, up, writeOffset, indexes, queue, missed, call, history>>

\* unwatch: the sender goes, and nobody looks at what is left in the channel.
Unsubscribe(c) ==
  /\ up /\ Subscribed(c)
  /\ queue' = [queue EXCEPT ![c] = << >>]
  /\ mirror' = [mirror EXCEPT ![c] = Nothing]
  /\ missed' = missed \ {c}
  /\ UNCHANGED <<disk, orphan, up, writeOffset, indexes, call, history>>

\* notify: try_send, and the call returns.  A full channel loses the event.
DropOldest(c, e) ==  \* mutant: the oldest event makes room
  IF ~Subscribed(c)
  THEN UNCHANGED <<queue, missed>>
  ELSE /\ queue' = [queue EXCEPT ![c] = Append(IF Len(@) < Capacity THEN @ ELSE Tail(@), e)]
       /\ UNCHANGED missed

TrySend(c, e) ==
  IF ~Subscribed(c)
  THEN UNCHANGED <<queue, missed>>
  ELSE IF Len(queue[c]) < Capacity
  THEN queue' = [queue EXCEPT ![c] = Append(@, e)] /\ UNCHANGED missed
  ELSE missed' = missed \cup {c} /\ UNCHANGED queue

Notify(t) ==
  /\ At(t, "notify")
  /\ TrySend(call[t].doc[1], [doc |-> call[t].doc, data |-> call[t].data])
  /\ acked' = [acked EXCEPT ![call[t].doc] = call[t].data]
  /\ Become(t, Idle)
  /\ UNCHANGED <<disk, orphan, up, writeOffset, indexes, mirror, trusted, faults>>

\* The subscriber takes the next event.
Receive(c) ==
  /\ queue[c] # << >>
  /\ mirror' = [mirror EXCEPT ![c][Head(queue[c]).doc[2]] = Head(queue[c]).data]
  /\ queue' = [queue EXCEPT ![c] = Tail(@)]
  /\ UNCHANGED <<disk, orphan, up, writeOffset, indexes, missed, call, history>>

-----------------------------------------------------------------------------
\* compact: scan, write the records that are left to a second file, put it in
\* the place of the first.  Bound: one thread compacts at a time.

Compacting(t) == call[t].pc \in {"compact_open", "compact_write", "compact_remove",
                                 "compact_rename", "compact_reopen",
                                 "compact_measure", "compact_resize"}

Compact(t) ==
  /\ At(t, "idle") /\ up
  /\ "compact" \in Does[t]
  /\ \A u \in Threads : ~Compacting(u)
  /\ Become(t, [Idle EXCEPT !.pc = "compact_open",
                            !.records = ScanAll(Handle),
                            !.left = LatestOf(ScanAll(Handle))])
  /\ UNCHANGED <<disk, orphan, up, writeOffset, indexes, events, history>>

CompactOpen(t) ==
  /\ At(t, "compact_open")
  /\ compacted' = EmptyFile
  /\ Goto(t, IF call[t].left = {} THEN "compact_remove" ELSE "compact_write")
  /\ UNCHANGED <<file, orphan, up, writeOffset, indexes, events, history>>

CompactWrite(t) ==
  /\ At(t, "compact_write")
  /\ \E k \in call[t].left :
       /\ compacted' = AppendedTo(compacted, call[t].records[k])
       /\ Become(t, [call[t] EXCEPT !.left = @ \ {k},
                                    !.pc = IF call[t].left = {k} THEN "compact_remove"
                                           ELSE "compact_write"])
  /\ UNCHANGED <<file, orphan, up, writeOffset, indexes, events, history>>

\* The old file goes first; the handle stays on it.
CompactRemove(t) ==
  /\ At(t, "compact_remove")
  /\ file' = Nothing
  /\ orphan' = Handle
  /\ trusted' = FALSE
  /\ Goto(t, "compact_rename")
  /\ UNCHANGED <<compacted, up, writeOffset, indexes, events, acked, faults>>

CompactRename(t) ==
  /\ At(t, "compact_rename")
  /\ file' = compacted
  /\ compacted' = Nothing
  /\ Goto(t, "compact_reopen")
  /\ UNCHANGED <<orphan, up, writeOffset, indexes, events, history>>

CompactReopen(t) ==
  /\ At(t, "compact_reopen")
  /\ orphan' = Nothing
  /\ Goto(t, "compact_measure")
  /\ UNCHANGED <<disk, up, writeOffset, indexes, events, history>>

CompactMeasure(t) ==
  /\ At(t, "compact_measure")
  /\ Become(t, [call[t] EXCEPT !.pc = "compact_resize", !.offset = Handle.bytes])
  /\ UNCHANGED <<disk, orphan, up, writeOffset, indexes, events, history>>

CompactResize(t) ==
  /\ At(t, "compact_resize")
  /\ writeOffset' = call[t].offset
  /\ Become(t, Idle)
  /\ UNCHANGED <<disk, orphan, up, indexes, events, history>>

-----------------------------------------------------------------------------
\* Database::open: create the file if there is none and scan it.  torex_init
\* makes the new Database the current one only then.

Opened(f) == IF f = Nothing THEN EmptyFile ELSE f

Scan(t) ==
  /\ At(t, "idle")
  /\ orphan = Nothing
  /\ file' = Opened(file)
  /\ Become(t, [Idle EXCEPT !.pc = "install", !.offset = Opened(file).bytes,
                            !.records = ScanAll(Opened(file))])
  /\ UNCHANGED <<compacted, orphan, up, writeOffset, indexes, events, history>>

\* At the start of the process, and in its middle.
InitDatabase(t) == "init" \in Does[t] /\ ~up /\ AllIdle /\ Scan(t)
Reinit(t)       == "reinit" \in Does[t] /\ up /\ Scan(t)

\* rebuild_from: the records in their order, a tombstone takes its id out.
LastOf(records, d) == {k \in DOMAIN records :
                         /\ records[k].doc = d
                         /\ \A j \in DOMAIN records : records[j].doc = d => j <= k}

Rebuilt(records) ==
  [d \in Documents |->
     IF \E k \in LastOf(records, d) : records[k].kind # "delete"
     THEN records[CHOOSE k \in LastOf(records, d) : TRUE].at
     ELSE Nothing]

\* The secondary index takes every record that is no tombstone, also the ones
\* that a later record replaced.
EntriesOfInserts(records) ==  \* mutant: only inserted records are indexed
  UNION {EntriesFor(records[k].doc, records[k].data) :
           k \in {j \in DOMAIN records : records[j].kind = "insert"}}

EntriesIn(records) ==
  UNION {EntriesFor(records[k].doc, records[k].data) :
           k \in {j \in DOMAIN records : records[j].kind # "delete"}}

DataAt(offsets, d) == IF offsets[d] = Nothing THEN Nothing
                      ELSE LET hits == {k \in DOMAIN Handle.records :
                                          Handle.records[k].at = offsets[d]}
                           IN  IF hits = {} THEN Nothing
                               ELSE Handle.records[CHOOSE k \in hits : TRUE].data

NoSubscribers == /\ queue' = [c \in Watched |-> << >>]
                 /\ mirror' = [c \in Watched |-> Nothing]
                 /\ missed' = {}

Install(t) ==
  LET records == call[t].records
  IN  /\ At(t, "install")
      /\ \A u \in Threads : call[u].pc \in {"idle", "install"}
      /\ up' = TRUE
      /\ writeOffset' = call[t].offset
      /\ primary' = Rebuilt(records)
      /\ exact' = EntriesIn(records) /\ ordered' = EntriesIn(records)
      /\ NoSubscribers
      /\ acked' = [d \in Documents |-> DataAt(Rebuilt(records), d)]
      /\ trusted' = TRUE
      /\ Become(t, Idle)
      /\ UNCHANGED <<disk, orphan, faults>>

Close(t) ==
  /\ At(t, "idle") /\ up
  /\ "close" \in Does[t]
  /\ up' = FALSE
  /\ NoSubscribers
  /\ UNCHANGED <<disk, orphan, writeOffset, indexes, call, history>>

-----------------------------------------------------------------------------
\* The process dies, perhaps in the middle of a write_all.
Crash ==
  /\ "crash" \in Faults
  /\ faults < MaxFaults
  /\ faults' = faults + 1
  /\ \E n \in {0, TornLength} :
       /\ n > 0 => orphan = Nothing /\ \E t \in Threads : At(t, "append")
       /\ file' = IF n = 0 THEN file ELSE Spoilt(file, n)
  /\ orphan' = Nothing
  /\ up' = FALSE
  /\ writeOffset' = 0
  /\ primary' = NoOffsets /\ exact' = {} /\ ordered' = {}
  /\ NoSubscribers
  /\ call' = [t \in Threads |-> Idle]
  /\ acked' = [d \in Documents |-> Nothing]
  /\ trusted' = FALSE
  /\ UNCHANGED compacted

\* write_all fails, with or without some of the bytes in the file: append and
\* the call return the error, and the engine's count stays as it was.
AppendFails(t) ==
  /\ "io" \in Faults
  /\ faults < MaxFaults
  /\ faults' = faults + 1
  /\ At(t, "append")
  /\ \E n \in {0, TornLength} :
       /\ ToHandle(IF n = 0 THEN Handle ELSE Spoilt(Handle, n))
       /\ trusted' = (trusted /\ n = 0)
  /\ Become(t, Idle)
  /\ UNCHANGED <<compacted, up, writeOffset, indexes, events, acked>>

-----------------------------------------------------------------------------
Step(t) ==
  \/ \E d \in Documents : \/ \E v \in Values : Put(t, d, v) \/ Update(t, d, v)
                          \/ Delete(t, d)
  \/ Collect(t) \/ UnindexExact(t) \/ UnindexOrdered(t) \/ AppendRecord(t)
  \/ SetPrimary(t) \/ IndexExact(t) \/ IndexOrdered(t) \/ Notify(t)
  \/ Compact(t) \/ CompactOpen(t) \/ CompactWrite(t) \/ CompactRemove(t)
  \/ CompactRename(t) \/ CompactReopen(t) \/ CompactMeasure(t) \/ CompactResize(t)
  \/ InitDatabase(t) \/ Reinit(t) \/ Install(t) \/ Close(t)
  \/ AppendFails(t)

Next == \/ \E t \in Threads : Step(t)
        \/ \E c \in Watched : Subscribe(c) \/ Unsubscribe(c) \/ Receive(c)
        \/ Crash

Spec == Init /\ [][Next]_vars

-----------------------------------------------------------------------------
(* Reads.                                                                    *)

\* get: the record at the offset of the index.
Get(d) == IF primary[d] = Nothing THEN Nothing
          ELSE LET r == ReadAt(Handle, primary[d])
               IN  IF r = Nothing \/ r.kind = "delete" THEN Nothing ELSE r.data

Exists(d) == primary[d] # Nothing

\* count, and get_all with the id each record is found under.
IdsOf(c)  == {i \in Ids : Exists(<<c, i>>)}
Count(c)  == Cardinality(IdsOf(c))
GetAll(c) == {<<i, Get(<<c, i>>)>> : i \in {j \in IdsOf(c) : Get(<<c, j>>) # Nothing}}

InCollection(index, c) == {<<e[1][2], e[2], e[3]>> : e \in {x \in index : x[1][1] = c}}

\* A scan of the collection: the ids whose record matches.
Answer(c, q) == {i \in IdsOf(c) : /\ Get(<<c, i>>) # Nothing
                                  /\ Matches(RecordFields(Get(<<c, i>>)), q)}

\* query: the ids of the plan of which get finds a record, unless it panics.
Answers(c, q) == ~Panics(InCollection(exact, c), q)

Result(c, q) ==
  LET plan == Plan(InCollection(exact, c), q)
      ids  == IF plan = Unset THEN Answer(c, q)
              ELSE IndexScan(InCollection(exact, c), InCollection(ordered, c), IdsOf(c), plan)
  IN  {i \in ids \cap IdsOf(c) : Get(<<c, i>>) # Nothing}

-----------------------------------------------------------------------------
(* Properties.                                                               *)

\* An offset in the primary index is where a record of that document starts,
\* one that is no tombstone: get never returns the bytes of another document,
\* with other threads between the append and the index.  That is for a file
\* that was not rewritten or half written since it was opened, and for threads
\* that do not write while torex_init scans: it counts the bytes of the file
\* before it takes the lock.
Points(offset, d) ==
  \E k \in DOMAIN Handle.records : /\ Handle.records[k].at = offset
                                   /\ Handle.records[k].doc = d
                                   /\ Handle.records[k].kind # "delete"
IndexPoints ==
  up /\ trusted => \A d \in Documents : primary[d] # Nothing => Points(primary[d], d)

\* With no call under way the index has, for each document, the record of the
\* value acknowledged last, and no offset for a deleted one: a failed append
\* in between, or other threads' writes, do not matter.
AckedIndexed ==
  up /\ trusted /\ AllIdle => \A d \in Documents : DataAt(primary, d) = acked[d]

\* The reads agree with the calls: exists and count know the documents whose
\* last call left them there, and get and get_all return their values.  Only
\* the record at the end of the file cannot be read: read_at takes five bytes
\* more than a header has.
AtEnd(d) == /\ Handle.records # << >>
            /\ primary[d] = Handle.records[Len(Handle.records)].at

ReadsTell ==
  up /\ trusted /\ AllIdle =>
    \A c \in Collections :
      LET present == {i \in Ids : acked[<<c, i>>] # Nothing}
      IN  /\ Count(c) = Cardinality(present)
          /\ GetAll(c) \subseteq {<<i, acked[<<c, i>>]>> : i \in present}
          /\ \A i \in Ids : /\ Exists(<<c, i>>) <=> i \in present
                          /\ \/ Get(<<c, i>>) = acked[<<c, i>>]
                             \/ AtEnd(<<c, i>>) /\ Get(<<c, i>>) = Nothing

\* A compaction leaves a file without tombstones and without the records that
\* were replaced: no document is there twice, also where the file it scanned
\* had several records of one.
Once(f) ==
  /\ \A k \in DOMAIN f.records : f.records[k].kind # "delete"
  /\ \A j, k \in DOMAIN f.records : f.records[j].doc = f.records[k].doc => j = k

CompactedOnce == \A t \in Threads : At(t, "compact_resize") => Once(Handle)

\* What takes the place of data.torex has every document of which the scan
\* found a last record that is no tombstone, with that value, and no other.
\* (What the scan does not find is not in it.)
CompactedComplete ==
  \A t \in Threads : At(t, "compact_rename") =>
    \A d \in Documents :
      {compacted.records[k].data : k \in {j \in DOMAIN compacted.records :
                                           compacted.records[j].doc = d}}
        = {call[t].records[k].data : k \in LastOf(call[t].records, d)} \ {Nothing}

\* With no call under way the two halves of the secondary index agree.
HalvesAgree == up /\ AllIdle => exact = ordered

\* With no call under way a query finds each document that matches it and that
\* get can read, whichever plan the optimizer chose: entries of the values a
\* put replaced stay in the index and do no harm to that.  (A scan for "ne"
\* takes ids away, and the stale entries do harm it.  An index scan goes by
\* the bits of floats: one with the sign bit, in the query or in the document,
\* is out of order, and -0.0 is not 0.0.  A query that panics has no answer.
\* Documents that do not match may be found.)
Excluding(q) == \E k \in DOMAIN q.conditions : q.conditions[k].operator = "ne"

Signed(v) == v # Unset /\ v[1] = "float" /\ v[2] < 0

Misordered(fields, q) ==
  \E k \in DOMAIN q.conditions, f \in fields :
    LET c == q.conditions[k]
    IN  /\ f[1] = c.field
        /\ IF c.operator = "eq" THEN MinusZero \in {f[2], c.value}
           ELSE \E v \in {f[2], c.value, c.value2} : Signed(v)

QueryFinds ==
  up /\ trusted /\ AllIdle =>
    \A c \in Collections, q \in Queries : Answers(c, q) /\ ~Excluding(q) =>
      \A i \in Answer(c, q) :
        i \in Result(c, q) \/ Misordered(RecordFields(Get(<<c, i>>)), q)

\* With no call under way, and no append that failed, the exact index has the
\* fields of every document that can be read out of its payload again, also
\* after the file was scanned.  (Fields from a name that is too long on cannot.)
IndexFull ==
  up /\ trusted /\ AllIdle =>
    \A d \in Documents : DataAt(primary, d) # Nothing
                           => EntriesFor(d, DataAt(primary, d)) \subseteq exact

\* A subscriber that has received everything, with room in its channel all the
\* time, has of every document the value of the record that the primary index
\* leads to: what the threads did to file and index in several steps each, and
\* what they sent of it, is the same.
EventsTell ==
  up /\ trusted /\ AllIdle => \A c \in Watched :
    Subscribed(c) /\ queue[c] = << >> /\ c \notin missed
      => \A i \in Ids : mirror[c][i] = DataAt(primary, <<c, i>>)

-----------------------------------------------------------------------------
(* What a comment in the code says, and the code does not keep.              *)

\* db.rs: open rebuilds the indexes from existing data, so that a document that
\* the file has is found after torex_init as it was before.
RebuiltWhole ==
  up /\ trusted /\ AllIdle =>
    \A d \in Documents, k \in DOMAIN Handle.records :
      k \in LastOf(Handle.records, d) => DataAt(primary, d) = Handle.records[k].data
=============================================================================
