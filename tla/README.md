# TorexStore in TLA+

Specifications, model checks and proofs for the two engines of TorexStore:

* the **Dart engine** (`src/torexstore/lib`): a document store in memory, one
  file per collection, a write-ahead log, a facade that opens and closes it;
* the **Rust engine** (`src/torexstore/rust/src`): an append-only record file,
  two indexes, a query planner, watchers and a compaction.

They share no file and no call: a program uses one or the other. All paths
below are relative to the repository.

## 1. Inventory

### Dart

| part | state | operations | meets |
|---|---|---|---|
| `StorageEngine` (engine/storage_engine.dart) | `_store` (collection -> id -> fields), `_isOpen`, `_wal`, the `.tdb` files, `_watchers` | open (load, recover), put, update, delete, get, query, compact, close, watch | awaits the log and the files; notifies watchers |
| `WriteAheadLog` (engine/wal.dart) | the file `_wal.log`, `_sequence` | logWrite, logDelete, commit, replay, readUncommitted, clear | called by the engine |
| `StoreWatcher` (reactive/store_watcher.dart) | a broadcast stream | emitInsert, emitUpdate, emitDelete, cancel | called by the engine |
| `TorexStore` (torexstore.dart) | `_initCompleter`, the singleton | every public call: `_ensureReady`, `recordActivity`, the engine | opens the engine; closes it when the lifecycle manager says so |
| `LifecycleManager` (engine/lifecycle_manager.dart) | `_isSuspended`, `_idleTimer` | recordActivity, suspend, resume, timer, application states | calls the facade back |
| documents and filters (models/) | none | codec of a document, matching of a filter | pure |

Hard: every `await` lets other calls run, and the engine has no lock. A call
changes the log, memory, a file that is rewritten in place, and the log again;
a crash or a failing file operation can come between any two. close and open
run next to calls that were let in before.

### Rust

| part | state | operations |
|---|---|---|
| storage (storage/engine.rs, format.rs) | `data.torex`, `write_offset` | append, read_at, scan_all, write_compacted, finalize_compaction |
| compaction (storage/compaction.rs) | `data_compacted.torex` | compact, needs_compaction |
| `PrimaryIndex` (index/primary.rs) | document -> offset | insert, get, contains, remove, collection_count, rebuild_from |
| `SecondaryIndex` (index/secondary.rs) | an exact and an ordered half | insert, remove, remove_id, find_exact, find_gt, find_lt, find_range |
| queries (query/) | none | optimize, index scan, full scan, evaluation |
| `WatcherSystem` (reactive/watcher.rs) | bounded channels | subscribe, unsubscribe, notify, clear_all |
| `Database` (db.rs) | the parts above | open, put, get, exists, count, get_all, update, delete, query, compact, close, watch, unwatch |
| bridge (lib.rs) | `DB`, a mutex around the database | torex_init ... torex_close, torex_serialize_document |

Hard: each part has a lock of its own and `Database` has none, offsets of the
index must follow the file, the file is swapped in three steps, the index is
rebuilt from a scan of the file, a planner replaces the query by part of it.

Not modelled: error values (error.rs), the Flutter application, the example,
the benchmark and the platform projects, which hold no state of the store.

## 2. Modules

| module | models | built on |
|---|---|---|
| `WriteAheadLog` | the log file, its readers, its rewrites | |
| `StorageEngine` | the Dart engine; one action per step between two awaits | `WriteAheadLog` |
| `DocumentStore` | abstract: what the Dart engine promises a caller | |
| `StoreRefinement` | the mapping under which `StorageEngine` implements it | `StorageEngine`, `DocumentStore` |
| `Documents` | names and values through the codecs, filters | |
| `Facade` | `TorexStore` and `LifecycleManager` over the event loop | |
| `RecordLog` | the record file of the Rust engine: layout, append, read, scan, what compaction keeps | |
| `QueryPlans` | the fields in a payload, meaning of a query, the planner, what the index returns | |
| `Database` | the Rust engine, call by call of its parts | `RecordLog`, `QueryPlans` |
| `MC...` | the instances TLC checks | |
| `StorageEngineProofs`, `DocumentStoreProofs`, `DocumentsProofs`, `FacadeProofs`, `DatabaseProofs` | theorems on the module of that name | `TLAPS` |
| `OneCallerProofs` | theorems on the Dart engine with one caller | `StorageEngineProofs` |
| `StoreRefinementProofs` | `StorageEngine` implements `DocumentStore` | `OneCallerProofs` |
| `SubscriberProofs` | what the events tell, with any callers | `StorageEngineProofs` |

Properties stand at the end of the module they are about. The definitions named
"mutant" are the code with one plausible mistake; no specification uses them.

### StorageEngine and WriteAheadLog

A *task* is one asynchronous call. `call[t]` is its program counter and its
locals. Dart runs code between two awaits without interruption; the file
operation of an await runs on another thread. So steps that touch memory and
steps that touch one file alternate, and tasks interleave between any two.

| code | actions |
|---|---|
| `put`, `update`, `delete` up to the log | `Put`, `Update`, `Delete` (`Mutate`) |
| `delete` of a document that memory does not have: success, and nothing is done | `DeleteMissing` |
| `_appendEntry` | `LogOpen`, `LogWrite`, `LogTail`: the append finds its place, a part of the entry is there, the whole is |
| after `logWrite`, memory, start of `_persistCollection` | `Logged` |
| `_persistCollection` | `UnlinkTest`, `Unlink`, `UnlinkFails` or `Truncate`, `Write`, `WriteUnlinked` |
| `commit` | `StartCommit`, `CommitRead`, `CommitFilter`, `CommitOpen`, `CommitWrite` |
| event and return | `Committed` |
| `open`: `_loadFromDisk`, `_recoverFromWAL`, `replay` | `Open`, `Load`, `Loaded`, `RecoverRead`, `Replay`, `Clear`, `ReplayedCleared`, `PersistNext`, `LoopDone` |
| `close` | `Close`, `PersistNext`, `LoopDone`, `Clear`, `ClosedCleared` |
| `compact` | `Compact`, `CompactNext`, `LoopDone` |
| `watch` | `Watch` |
| environment | `Crash`, `Fail`, `LoadFails`, `Throw` |

The log file is a sequence of cells, an entry or `Torn`. A collection's file is
its documents, `Torn` between truncation and the end of the write, or `Absent`.
`Encoded` is what a value is after it was written and read again (null in a
list comes back differently). History variables: `acked` (the value a document
was last acknowledged with; after an open, the one it shows), `attempts` (the
values in doubt: those of the calls since then that have not returned success),
`forfeit` (its file was half written at a crash or could not be read). A
document is *settled* when nothing is in doubt. A delete that finds nothing
returns success without looking at the log or a file: it settles nothing, and
what was in doubt before it stays so, the value acknowledged before it included.

Choices: names are ones every file and the log give back (`Documents` has the
others); reading a file is one step; the checksum finds a torn entry; the 32-bit
number of an entry does not wrap; log cells have equal width, and an append that
lands in the middle of others leaves any mixture; loops over map keys go in any
order; a file that is unlinked while open takes the rest of the write with it;
clients start over with a new subscription after a call has thrown; reads (get,
query, ...) are no steps, as they have no await: the properties look at memory
directly.

### DocumentStore and StoreRefinement

`DocumentStore` is a store without files and without a log. It shows a value for
each document while it is open (`shown`), knows the values a document may show
(`may`: the acknowledged one and those tried since) and whose file was lost
(`lost`). `Open` settles every document that is not lost: from then on it may
show one value. The mapping: `shown` is the engine's memory while `isOpen` is
set, through `Encoded`, since a put shows what it was given and an open what the
file gives back; `may` is `acked` with `attempts`; `lost` is `forfeit`; the
documents of one collection are the ones stored together. Steps of the engine on
its log and its files are stutters; `Mutate` and `DeleteMissing` are `Begin`,
`Logged` is `Appear`, `Committed` is `Acknowledge`, the last step of an open is
`Open`, a crash is `Close` or `Lose`.

### Documents

A text is a number. `Cut` is what a text becomes when each code unit is written
as a byte, `Long` the texts whose length does not fit its two bytes, `Stem` a
file name without ".tdb", which may have a stem of its own (".tdb" is taken out
once, and what is left can make another): `MovesTo` are the names a collection
can come to have by that. Maps are sequences of entries, as in Dart. Calls run
one after the other; a crash leaves the entry of the call in the log or not, and
the file written or not. `Call` is a whole put or delete, `Restart` a new
process, `Reopen` close and open in the same one, which keeps what memory had.
A name of 65,536 units is written with the length 0. As an id or a collection it
makes the reader run past the end, which takes the name for lengths of four
bytes, so that a file or a log entry with it cannot be decoded. As the name of a
field it is read in pieces: the reader finds the empty name, takes the next unit
for a type it does not know, which is null, and the two behind that for the
length of a name, and so on (`Spill`, the names it finds), until it has as many
fields as it was told, or runs past the end (`Readable`, `LongAt`): a document
with one such field comes back as `{"": null}`. Choices: `Spill` is that of one
long name; a name with a '/' is left out, its file operations throw; a delete of
a document that is not there is no step. Filters are trees of any depth: a
filter is matched by a function on them that asks itself for the conditions of
an and/or. They are compared with what they mean on values that have an order
(`Decided`, `Means`).

### Facade

Dart runs one event handler, then the queue of microtasks to its end, then the
next event. `queue` is that queue. Events: the code of the application (`Begin`,
`AppPaused`), the timer (`IdleTimeoutFires`), the answer of a file operation
(`OpenAnswers`, `CloseAnswers`, `OperationAnswers`). Microtasks: `Opened`,
`Ensured`, `Wake`, `Ready`, `Resumed`, `Returned`, `Suspend`, `Closed`.
`running` says whose code may call the store now: a caller whose call has just
returned, anybody while an event of the application is handled, nobody while
the engine's own events are. What the engine does in an operation is one
answer. Every continuation gets a microtask of its own; the virtual machine
runs some of them at once.

### RecordLog, QueryPlans, Database

A file is a length and a sequence of records with their offsets; header fields
and names have their lengths in bytes (29 declared, 24 written), the payload has
a length and a value. `ReadAt` and `ScanAll` look for records where the code
does. A *thread* runs one call of `Database`; each call it makes to a part is an
action, because the part's lock is taken and released there:

| code | actions |
|---|---|
| `put` | `Put`, `AppendRecord`, `SetPrimary`, `IndexExact`, `IndexOrdered`, `Notify` |
| `update` | `Update`, `Collect`, `UnindexExact`, `UnindexOrdered`, then as put |
| `delete` | `Delete`, `AppendRecord`, `SetPrimary`, `Collect`, `UnindexExact`, `UnindexOrdered`, `Notify` |
| `compact` | `Compact`, `CompactOpen`, `CompactWrite`, `CompactRemove`, `CompactRename`, `CompactReopen`, `CompactMeasure`, `CompactResize` |
| `torex_init` | `InitDatabase`, `Reinit`, `Install` |
| `close`, `subscribe`, `unsubscribe`, a subscriber | `Close`, `Subscribe`, `Unsubscribe`, `Receive` |
| environment | `Crash`, `AppendFails` |

`get`, `exists`, `count`, `get_all` and `query` only read: `Get`, `Exists`,
`Count`, `GetAll`, `Plan`, `IndexScan`, `Result` are operators, and properties
compare them with the calls that were acknowledged and with what the documents
say (`Matches`). `Payload` has the pairs torex_serialize_document was given: the
index takes all that can be read back (`IndexFields`), a query the last one of a
name (`RecordFields`). Both readers stop at a name of 65,536 bytes or more; where
its bytes are cut inside a character (`SplitFields`) they give up the fields in
front of it as well (`Unreadable`). Floats are ranks with a sign, -0.0 included,
since the index orders them by their bits. A range whose bounds are the wrong
way round in that order panics (`Panics`), and its query has no answer
(`Answers`).

Choices: names are short, so that a read at a wrong offset meets no magic byte;
one compaction at a time and no open during one; queries are conditions and
flat and/or of them; one subscriber per collection at a time, which knows the
documents when it subscribes; needs_compaction, which only reads, and rotate,
which nothing calls, are left out.

## 3. Runs

Every run is exhaustive. Bounds are the constants named `Max...`, `Handles`
(log objects, one per open) and `Capacity`.

| run | asks | instance |
|---|---|---|
| `Sequential` | one caller: does what was acknowledged survive crashes, in memory and on disk; do files, log and memory agree between calls; what may one crash cost; does recovery finish | 2 collections, a document each, a value the codec changes, 2 opens, 2 crashes anywhere |
| `SeqFaults` | the same when file operations fail as well, and calls are tried again | 2 collections, 2 documents in one, 2 faults of either kind; no compaction |
| `OneCollection` | two callers on two documents of one collection | compaction included, 3 log numbers, a subscriber; no crash and no close, so it is about memory and events |
| `Documents` | what becomes of names and values that the codecs change, and what a query returns then | 8 texts, 5 collection names, 3 ids, 3 field maps, 2 different writes, any restarts |
| `Facade` | who opens, who waits, who closes | 2 callers, 2 pauses, 2 failures, 3 closes at once |
| `RsAlone` | one thread: index, file, reads, queries and compaction | 2 documents, 2 payloads (a name given twice, a null, -0.0, names too long), 3 records, 1 crash, which may leave 5 bytes of a record: as many as the header is declared too long, so that a scan goes on behind them |
| `RsThreads` | two threads, a document each | 3 records, 1 failed append, a channel of 1 |
| `TornRewrite`, `DroppedEntry`, `CloseRace`, `FacadeZero`, `RsScan` | promises the code does not keep (section 5) | the smallest that show it |

What they show, in the terms of the properties:

* `AckedOnDisk`, `AckedVisible`: with calls one after the other, no crash,
  recovery, close, open or call on another document, failing ones included,
  brings an old value of a settled document back, in memory or in the file, or
  the document when its delete was written. Not settled are the documents of a
  file that a crash met half written, and one whose last call that wrote
  anything failed: it shows a value that one of its calls had, and a delete that
  then finds nothing in memory returns success and does not change that (section
  5). The next call on it that succeeds settles it, or the next open does.
* `CrashCostsOneCollection`: and that is one collection per crash.
* `DiskInSync`, `WalDrained`: between calls the files say what memory says and
  the log has nothing to replay.
* `RecoveryReachesDisk`: what the log has for a document after the last crash,
  a put or a delete, is in its file when the engine opens again, and it does
  open again.
* `MirrorInSync`: a subscriber that applies the events has the collection, each
  event of the right kind, with two callers on different documents.
* `ImplementsStore` (three runs): every behaviour is one of the abstract store,
  so that also with failures, crashes and two callers nothing is shown that was
  not acknowledged or tried since its document was settled, and no later open
  changes its mind.
* `PlainSurvive`: a document with plain names comes through anything, as long as
  no call used a name that is stored as one of its names or one that makes its
  file unreadable. `OfOneCall`: and whatever the names, no document is put
  together out of several: its fields are those of one call, as given or as read
  back. `FiltersExact`: a query returns what its
  filter means, where values have an order.
* `OpenAlone`: one open at a time (`StorageEngine.Open` relies on it);
  `AlwaysAvailable`: no call finds the engine closed after `_ensureReady`;
  `OnTheWayToClose`, `IdleCloses`: an engine left alone gets closed, unless its
  close fails; `EveryCallReturns`.
* `IndexPoints` (with one thread and with two): the primary index has the offset
  of a record of its document, for a file not rewritten or torn since open.
  `AckedIndexed`: a document is in the index just when its last call left it
  there. `ReadsTell`: exists, count, get and get_all say so too, but for the
  record at the end of the file, which cannot be read.
* `IndexFull`: the index has the fields of a document's value that can be read
  back, where no append failed. `HalvesAgree`: both halves have the same.
  `QueryFinds`: an index scan misses no document that matches, unless a float
  with its sign bit set is involved, the operator is "ne" or the query panics.
  It may find others.
* `CompactedComplete`: the compacted file has the last record of every document
  the scan found. `CompactedOnce`: and the file it leaves no tombstone and no
  document twice.
* `EventsTell`: a subscriber that missed no event has what the primary index
  leads to.

Why the bounds are enough: the hazards involve one call that failed or crashed
and one after it, or two calls under way; two documents tell "its own" from
"another's" and two values an old one from a new one (in `SeqFaults`; the two of
`Sequential` are stored as the same, for the codec, so that there a put and a
delete are told apart, and not two puts); two opens cover what a
close and what a crash leave to the next; a third record lets an update follow
two inserts; two crashes let the second hit the recovery from the first.

Fairness: `Sequential` assumes that the file operations of a call under way end
and that a closed engine is opened again (`WF` on `Continue` and `Open`: the
runtime resumes a completed await; the next call opens). `Facade` assumes that
microtasks run, that an uncancelled timer fires (`WF`), and that the answer of a
file operation is handled even if other events keep coming (`SF`: the event
queue is first in first out). `EveryCallReturns` adds that the event loop turns:
callers that keep calling when calls answer from memory starve it, which is how
Dart works.

Deadlock is not checked: after its bounds are used up, and with all calls done,
each system may stop.

## 4. Theorems

The theorems are of the form `Spec => []P`, or `Spec => P` for an action property
or a specification, and hold for every value of the constants that satisfies the
modules' named ASSUMEs (the collections and ids are not empty, special values
are apart, bounds are naturals, payloads are sequences of fields and values, a
text that was cut is not cut further and is as long, what is read in a long name
is neither long nor cut, no filter is a condition of itself) and the hypotheses
of the second column.

| theorem | hypotheses | says |
|---|---|---|
| `StorageEngineProofs!TypeCorrect` | | `TypeOK` |
| `OneCallerProofs!OneCallerInvariant` | `OneCaller`, `OpensCleanly` | the inductive invariant of a single caller, `Inv` |
| `OneCallerProofs!OneCallerOnDisk` | the same | `AckedOnDisk` |
| `OneCallerProofs!OneCallerVisible` | the same | `AckedVisible` |
| `OneCallerProofs!OneCallerInSync` | `OneCaller`, no "io" faults | `DiskInSync` |
| `OneCallerProofs!OneCallerDrains` | the same | `WalDrained` |
| `OneCallerProofs!OneCrashOneCollection` | the same | `CrashCostsOneCollection` |
| `StoreRefinementProofs!EngineImplementsStore` | `OneCaller`, `OpensCleanly` | `ImplementsStore`: each step is one of the abstract store or none |
| `SubscriberProofs!SubscribersInSync` | `OwnDocuments` | `MirrorInSync` |
| `DocumentStoreProofs!OnlyAllowed` | | the abstract store shows only allowed values (`ShownAllowed`) |
| `DocumentStoreProofs!KeptUntilCalled` | | a settled document changes by a call on it or the loss of its file only (`SettledStays`) |
| `DocumentsProofs!DocumentsTypes` | | `TypeOK` |
| `DocumentsProofs!PlainDocumentsSurvive` | | `PlainSurvive` |
| `DocumentsProofs!DocumentsHaveOrigins` | | `OfOneCall` |
| `DocumentsProofs!QueriesExact` | | `FiltersExact` |
| `FacadeProofs!FacadeTypes` | | `TypeOK` |
| `FacadeProofs!OneOpen` | | `OpenAlone` |
| `FacadeProofs!Available` | | `AlwaysAvailable` |
| `FacadeProofs!WillBeClosed` | | `OnTheWayToClose` |
| `DatabaseProofs!DatabaseTypes` | | `TypeOK` |
| `DatabaseProofs!OffsetsPoint` | `ScansAlone` | `IndexPoints` |
| `DatabaseProofs!AckedInIndex` | `ScansAlone`, `OwnDocuments` | `AckedIndexed` |
| `DatabaseProofs!ReadsTellCalls` | the same | `ReadsTell` |
| `DatabaseProofs!IndexComplete` | the same, no "io" faults | `IndexFull` |
| `DatabaseProofs!QueriesFind` | the same, no "io" faults | `QueryFinds` |
| `DatabaseProofs!HalvesTogether` | `OwnDocuments` | `HalvesAgree` |
| `DatabaseProofs!SubscribersTold` | `ScansAlone`, `OwnDocuments` | `EventsTell` |
| `DatabaseProofs!CompactionComplete` | | `CompactedComplete` |
| `DatabaseProofs!CompactionEnds` | `CompactsAlone` | `CompactedOnce` |

The hypotheses are about who calls, and each is needed: without it the property
is false of the code, as section 5 has it.

* `OneCaller` (`Tasks` has one element): every call is awaited before the next.
  Two overlapping calls on one collection write its file in any order.
* `OpensCleanly` (a condition on behaviours, `Spec /\ OpensCleanly => ...`: a
  process in which an open failed does not open the engine again): the second
  open would find the log cleared by the first and keep its memory. Everything
  else may fail, and an engine that was closed may be opened again as often as
  the process likes; without "io" faults the condition always holds.
* `OwnDocuments` (no document is written by two threads or tasks): two puts of
  one document leave memory and event, or file and index, in different orders.
* `ScansAlone` (who calls `torex_init` again is the only thread): it reads the
  file before it takes the bridge's lock.
* `CompactsAlone` (who compacts is the only thread): a record written during a
  compaction is lost or is a second one; the bridge's mutex keeps threads out.
* no "io" faults (`"io" \notin Faults`): a failed file operation leaves its entry
  in the log, or the document without the index entries an update took away
  first. Crashes stay allowed.

### The Dart engine

`TypeCorrect` rests on `TypeInv`, which adds `HasLog` to the types: an open
engine has a log object, and so has every call under way, so that
`sequence[call[t].log]` is a number when a call takes or resets it. What the
readers of a log return comes first: the readable part is a
sequence of entries, filters of it are, replay gives each document the value of
its last entry.

None of `AckedOnDisk`, `AckedVisible`, `DiskInSync`, `WalDrained` is inductive:
they speak of a store between calls, and every call passes through states where
memory, file and log disagree. `Inv` of `OneCallerProofs` says where the value of
every document is at each step of the call:

* `Control`: which steps belong to which calls, and which log object they use;
* `AtTarget`: the image about to be written is the collection in memory, a
  file in the middle of a write is torn and is the target's;
* `InCall`: the value of the call is one its document may have, is in memory
  from the step after the log on, and in the file from the end of the write on;
* `InWal`: the entry is numbered with the sequence of the log, the append is at
  the end of the file, and what the commit is about to write back is nothing;
* `InLog`: every legible entry is of a call that may still show, with a number
  that the next commit covers - why a replay brings nothing old back;
* `Allowed`: files and memory hold allowed values only, and a torn file is of a
  collection whose documents may be gone;
* `Opening`, `Closing`: which collections are loaded, replayed, persisted so far;
* `Quiet`: without failures, what a call leaves alone is in sync and the log has
  nothing legible between calls. (With failures there may be entries of failed
  calls in the log, and files that memory is ahead of.)

There is one lemma per action (`Step...`). `EngineImplementsStore` uses `Inv`
for the steps that change what the abstract store knows: `RefinesMutate`,
`RefinesMissing`, `RefinesLogged`, `RefinesCommitted`, `RefinesOpened`,
`RefinesLose`, `RefinesCrash` map them to its actions, all others keep its variables
(`Stutters`). With it the two theorems on `DocumentStore` hold of the engine.

`SubscribersInSync` is for any number of tasks. `Follows` relates a subscriber's
copy of a document to memory: they agree, or a call on the document has changed
memory and will send the event of the kind the copy needs. A crash or a close
ends the subscription; a failing call ends it too (section 2).

The theorems on `Documents` rest on `IInv`, which says the same of memory and of
the files, collection by collection (`Good`): every entry comes from a call that
can have left it there, and a plain, undisturbed document is what it may be.
`PlainSurvive` is not inductive by itself: that the file of a plain collection
can be decoded, and that no other file is loaded in its place, follows from where
the entries of the files come from (`OwnFile`). One lemma each says what a call,
the recovery of its entry, a persist and a load make of good stores
(`GoodApplied`, `GoodRecovered`, `GoodPersisted`, `GoodLoaded`). Under them is
what the readers of maps return, for maps of any size: a map, with entries that
were there and all keys that were there (`MapOfMap`), and the same map when it
is read once more (`FieldsReread`), also where a long name made its keys, since
what is read in one is not long itself (`FirstLong`, `EntryReread`). `QueriesExact` needs that a filter has an
answer at all, however deep its conditions are nested (`Solution`); then a filter
that is matched wrongly has a condition that is (`MatchesExact`), and simple ones
follow the order of the ranks (`ComparisonRight`).

The facade's theorems rest on `FacadeInv`. Its parts: `Alone` (a continuation of
open or close is the only job, and nobody's code runs: the event that queued it
was the engine's own), `Opener` (who opens is one caller, and the job that ends
the open is for it), `Admitted` (jobs that let callers go on are there only while
the engine is open), `Attended` (why an open engine will be closed, also in the
middle of a turn of the event loop). `AlwaysAvailable` by itself is not
inductive: without `Alone` the end of a close could be queued in front of a
caller that was let go on.

### The Rust engine

All invariants are in `DatabaseProofs`, each built on `TypeInv`: the types, with
`SoundFiles` (records lie one behind the other inside the file), `SoundCalls`
(the locals of a call fit its next step), `HasFiles` and `Listening`.

* `IndexInv` adds `Scanned` (what torex_init found in the file it still finds)
  and `Pointing` (every offset in the index, and every one a call is about to
  put there, is that of a whole record of the document). An append, torn or
  whole, moves no record: `IndexPoints` follows for any threads.
* `AckedInv` adds `Answering`: the index has the value acknowledged last, or the
  one of the call under way on the document, from `SetPrimary` on.
* `Halves`: the halves of the secondary index differ in the entries a call has
  put in or taken out of the first and not yet of the second.
* `FullInv` adds `FieldsIndexed`: the entries of a document's value are in the
  index, or a call on it is still to put them there.
* `Telling`: what a subscriber's copy of a document lacks of the value
  acknowledged last is the last event for it in the channel; with `AckedInv`,
  which has the index lead to that value, `EventsTell` follows.
* `Copied`, `Settling`: the second file has what the compaction has passed, in
  order, once, and nobody appends to it before the compaction ends.

`QueriesFind` needs lemmas about the planner and the index besides `FullInv`:
what a plan asks the index for is a condition of the query (`PlanIsCondition`),
a value that satisfies a condition lies where the index looks for it, but for
the bits of negative floats (`ComparesBelow`, `ComparesEqual`), and the fields a
query reads in a payload were given to the index (`FieldsOfRecord`).

Facts about sequences of any length (the offsets of a file, the last record of a
document, the last value of a field) are proved by taking the least or greatest
index that violates them, since the library's induction rules take an operator.
So are the facts about maps and filters in `DocumentsProofs`.

### Only model-checked

* Liveness (`RecoveryReachesDisk`, `IdleCloses`, `EveryCallReturns`): fairness
  and ENABLED are out of the prover's reach.
* `AckedOnDisk` and `ImplementsStore` for callers that overlap on different
  collections: TLC has two callers on one collection (`OneCollection`).

## 5. Disagreements

Runs whose property is what a document of the repository says:

| run | document | code |
|---|---|---|
| `TornRewrite` | README.md:214 zero data loss | a file is truncated and rewritten in place (storage_engine.dart:311) |
| `DroppedEntry` | README.md:214 the entry survives | commit writes back a log it read earlier (wal.dart:57) |
| `CloseRace` | torexstore.dart:39 always available, no data loss | close runs next to calls (storage_engine.dart:68) |
| `FacadeZero` | torexstore.dart:369 zero disables the idle timeout | it fires at once (lifecycle_manager.dart:132) |
| `RsScan` | db.rs:37 rebuild indexes from existing data, engine.rs:94 scan all records | header size 29, written 24 (format.rs:81): the one record of the file is not found when it is opened again |

Met in the same models as counterexamples, without a run of their own:

* Recovery clears the log before it writes the files (wal.dart:124,
  storage_engine.dart:276), against wal.dart:6; a crash in between loses what was
  only in the log. No acknowledged document is lost by it that the torn file
  does not lose.
* delete changes memory before it logs (storage_engine.dart:138), against
  README.md:205. When the log write fails, the retry finds nothing, succeeds at
  once (torexstore.dart:163 "Delete a document"), and the next open shows the
  document again. `SeqFaults` has these behaviours (`DeleteMissing`), and the
  properties and theorems on settled documents say nothing of the document.
* A recovery replays an entry into memory, clears the log, and fails to write the
  file: open throws. The next open of the same process keeps what memory has of a
  collection whose file is missing or half written, finds the log empty and
  writes nothing, so it shows a value that is in no file and that a crash loses
  (storage_engine.dart:274, wal.dart:124, against wal.dart:12 and README.md:214).
* A torn append in front of later entries hides them from readers (wal.dart:89).
* The entry of a failed call stays in the log and a later crash replays it over
  the acknowledged value, when that value's commit had a smaller number
  (wal.dart:58).
* Two overlapping puts on one document or one collection: the older image may
  reach the file last (storage_engine.dart:310), against README.md:23
  "thread-safe". Two overlapping unlinks: one throws although its document is
  gone, and its event is not sent.
* A pause, a call during the close it starts, another pause: two closes run, and
  the second is still running when the engine is opened again; it then clears
  the log and sets `isOpen` to false under the new calls. `AlwaysAvailable`
  still holds: the next call opens again.
* A close that fails leaves the engine open, suspended and without a timer until
  the next call (lifecycle_manager.dart:73).
* Names outside Latin-1, ids and field names of 65,536 units, ".tdb" inside a
  name: `Documents` has the documents come back under other names or with fields
  nobody gave them (`{"": null}`, document.dart:82), shadow each other or take
  their file with them, against README.md:214 (storage_engine.dart
  :289, :321, :343). A missing field is smaller than every value, so "lt" finds
  documents without the field (storage_engine.dart:389).
* Rust: finalize_compaction removes data.torex and then renames the compacted
  file, against engine.rs:201 "Replace active file with compacted file": after a
  crash in between, open creates an empty file and nothing looks at
  data_compacted.torex (engine.rs:223-230).
* Rust: `get` cannot read the last record of the file (engine.rs:74 asks for 29
  bytes of header plus the body); after a compaction the index has the offsets
  of the old file (db.rs:239), so a get finds nothing or, where the offset of one
  document is now that of another, the other document; compaction drops live records the scan does not
  see and keeps removed ones (compaction.rs:34-38); `find_exact` has entries of
  values a put replaced (db.rs:80); a failed update leaves a document without
  index entries (db.rs:123); an and is answered with the matches of one of its
  conditions (query/engine.rs:54); `find_gt` returns values of other types
  (secondary.rs:209); negative floats sort by their bits (secondary.rs:34); a range
  with its bounds the wrong way round panics (secondary.rs:192); the fields behind
  a name of 65,536 bytes, or all of the document where it is cut inside a
  character, are neither indexed nor found (lib.rs:194, db.rs:293); two
  threads on one document leave index and file apart (db.rs:77); torex_init reads
  the file before it takes the lock (lib.rs:32); torex_watch drops the receiver
  it made (lib.rs:162).
* Read in the code, not modelled: a '/' in a collection name (every persist, close
  and recovery throws, storage_engine.dart:261); NaN in the Rust engine, equal to
  itself in the index and not in a scan.

## 6. Not modelled

error.rs, the Flutter application, the example, the benchmark and the platform
projects hold no state of the store. `TorexStore.configure`, the reset of the
tests and the compatibility wrapper forward or set a field before first use.
Stream plumbing of `StoreWatcher`, the statistics of a compaction,
needs_compaction, the collections() list and `rotate`, which nothing calls, are left out.

## 7. Plan

`ImplementsStore` for callers that keep to their own collections: entries of
several calls in the log, an append in the middle of others.
