---------------------------- MODULE StorageEngine ----------------------------
(* The Dart storage engine (engine/storage_engine.dart), with its log        *)
(* (engine/wal.dart) and the change events it emits.                         *)
(*                                                                           *)
(* A task is one asynchronous call of the engine.  Dart runs the code        *)
(* between two awaits without interruption, and the file operations it       *)
(* awaits run on other threads: a task alternates steps that run on the      *)
(* event loop and touch memory with steps that touch one file, and tasks     *)
(* interleave between any two of them.                                       *)
EXTENDS WriteAheadLog

CONSTANTS Absent,       \* a key _store does not have, a file that is missing
          Tasks,        \* the calls that may be under way together
          Does,         \* what each task calls: a subset of Operations
          Home,         \* the documents each task writes
          Watched,      \* the collections somebody subscribes to
          Faults,       \* what goes wrong: a subset of {"crash", "io"}
          MaxFaults,    \* bound: how often it does
          MaxSequence   \* bound: the numbers one log object hands out

Operations == {"open", "put", "update", "delete", "compact", "close"}
Documents == Collections \X Ids
Docs == [Ids -> MaybeValue]
NoDocs == [i \in Ids |-> None]

ASSUME AbsentAssumption == {Absent, Torn} \cap Docs = {} /\ Absent # Torn
ASSUME NonEmptyAssumption == Collections # {} /\ Ids # {}
ASSUME TasksAssumption ==
  /\ Does \in [Tasks -> SUBSET Operations]
  /\ Home \in [Tasks -> SUBSET Documents]
  /\ Watched \subseteq Collections
ASSUME BoundsAssumption == MaxFaults \in Nat /\ MaxSequence \in Nat

VARIABLES store,     \* _store: the documents of each collection, or Absent
          isOpen,    \* _isOpen
          wal,       \* _wal: the number of the current log object, 0 for null
          disk,      \* the file <collection>.tdb: documents, Torn or Absent
          mirror,    \* what a subscriber of a collection makes of its events
          call,      \* the call each task runs: its next step and its locals
          acked,     \* history: the value each document was last acknowledged with
          attempts,  \* history: the values its later calls, and those of
                     \* before that are not settled, may have left
          forfeit,   \* history: documents whose file was half written when
                     \* a crash took the copy in memory
          faults     \* faults so far

memory  == <<store, isOpen, wal, sequence, mirror>>
files   == <<disk, walFile>>
history == <<acked, attempts, forfeit, faults>>
vars    == <<memory, files, call, history>>

\* Steps that run on the event loop; a task at any other one waits for a file.
Resuming == {"logged", "next", "commit_filter", "committed", "loaded",
             "replay", "cleared"}
FileSteps == {"log_open", "log_write", "log_tail", "unlink_test", "unlink",
              "truncate", "write", "write_unlinked", "commit_read",
              "commit_open", "commit_write", "load", "recover_read", "clear"}

Call == [pc       : {"idle"} \cup Resuming \cup FileSteps,
         op       : Operations,
         entry    : Entry,                       \* the document and its value
         log      : 0..Handles,                  \* the log object it awaits
         seq      : Nat,                         \* what logWrite returned
         offset   : Nat,                         \* where its append will go
         batch    : Seq(Entry),                  \* the entries it has read
         target   : Collections,                 \* whose file it works on
         image    : Docs \cup {Absent, Torn},    \* documents it serialised, or read
         todo     : SUBSET Collections,          \* what its loop has left
         isUpdate : BOOLEAN]                     \* its put replaced a document

NoEntry == [seq |-> 0, coll |-> CHOOSE c \in Collections : TRUE,
            id |-> CHOOSE i \in Ids : TRUE, val |-> None]
Idle == [pc |-> "idle", op |-> "open", entry |-> NoEntry, log |-> 0, seq |-> 0,
         offset |-> 0, batch |-> << >>, target |-> NoEntry.coll,
         image |-> NoDocs, todo |-> {}, isUpdate |-> FALSE]

DocsOf(x)     == IF x \in {Absent, Torn} THEN NoDocs ELSE x
Stored(m)     == [i \in Ids |-> Encoded[m[i]]]
Keys          == {c \in Collections : store[c] # Absent}
DocumentOf(t) == <<call[t].entry.coll, call[t].entry.id>>

TypeOK ==
  /\ WalTypeOK
  /\ store \in [Collections -> Docs \cup {Absent}]
  /\ isOpen \in BOOLEAN
  /\ wal \in 0..Handles
  /\ disk \in [Collections -> Docs \cup {Absent, Torn}]
  /\ mirror \in [Collections -> Docs \cup {Absent, Torn}]
  /\ call \in [Tasks -> Call]
  /\ acked \in [Collections -> Docs]
  /\ attempts \in [Documents -> SUBSET MaybeValue]
  /\ forfeit \subseteq Documents
  /\ faults \in 0..MaxFaults

Init ==
  /\ store = [c \in Collections |-> Absent]
  /\ isOpen = FALSE
  /\ wal = 0
  /\ sequence = [h \in 1..Handles |-> 0]
  /\ mirror = [c \in Collections |-> Absent]
  /\ disk = [c \in Collections |-> Absent]
  /\ walFile = << >>
  /\ call = [t \in Tasks |-> Idle]
  /\ acked = [c \in Collections |-> NoDocs]
  /\ attempts = [d \in Documents |-> {}]
  /\ forfeit = {}
  /\ faults = 0

-----------------------------------------------------------------------------
\* Task t is at this step; it goes on with that call.
At(t, step)    == call[t].pc = step
Become(t, new) == call' = [call EXCEPT ![t] = new]
Goto(t, step)  == Become(t, [call[t] EXCEPT !.pc = step])

\* _persistCollection up to its first await: the file of collection c is to be
\* removed when the documents m are none, else rewritten with them.
Persisting(now, c, m) ==
  [now EXCEPT !.pc = IF DocsOf(m) = NoDocs THEN "unlink_test" ELSE "truncate",
              !.target = c,
              !.image = Stored(DocsOf(m))]

-----------------------------------------------------------------------------
\* put and delete, up to the first await.

Mutate(t, o, c, i, v) ==
  /\ At(t, "idle") /\ isOpen
  /\ <<c, i>> \in Home[t]
  /\ sequence[wal] < MaxSequence
  /\ NextSequence(wal)
  /\ Become(t, [Idle EXCEPT !.pc = "log_open", !.op = o, !.log = wal,
                            !.entry = [seq |-> sequence[wal] + 1, coll |-> c,
                                       id |-> i, val |-> v]])
  /\ attempts' = [attempts EXCEPT ![<<c, i>>] = @ \cup {v}]
  /\ UNCHANGED <<isOpen, wal, mirror, files, acked, forfeit, faults>>

Put(t, c, i, v) ==
  /\ "put" \in Does[t]
  /\ Mutate(t, "put", c, i, v)
  /\ UNCHANGED store

\* update is put behind a test that the document is there.
Update(t, c, i, v) ==
  /\ "update" \in Does[t]
  /\ DocsOf(store[c])[i] # None
  /\ Mutate(t, "update", c, i, v)
  /\ UNCHANGED store

\* delete takes the document out of memory before it logs anything.
Delete(t, c, i) ==
  /\ "delete" \in Does[t]
  /\ DocsOf(store[c])[i] # None
  /\ Mutate(t, "delete", c, i, None)
  /\ store' = [store EXCEPT ![c][i] = None]

\* A document that is not in memory is deleted with success, and nothing else
\* happens: the log and the files keep what an earlier call, which failed or
\* could not read them, left there.  So this success is the last one, but a
\* document that was in doubt stays so, the value it had with it.
DeleteMissing(t, c, i) ==
  /\ At(t, "idle") /\ isOpen
  /\ "delete" \in Does[t]
  /\ <<c, i>> \in Home[t]
  /\ DocsOf(store[c])[i] = None
  /\ acked' = [acked EXCEPT ![c][i] = None]
  /\ attempts' = [attempts EXCEPT ![<<c, i>>] = @ \cup ({acked[c][i]} \ {None})]
  /\ UNCHANGED <<memory, files, call, forfeit, faults>>

-----------------------------------------------------------------------------
\* _appendEntry: open the log at its end, write there.

LogOpen(t) ==
  /\ At(t, "log_open")
  /\ Become(t, [call[t] EXCEPT !.pc = "log_write", !.offset = Len(walFile)])
  /\ UNCHANGED <<memory, files, history>>

LogWrite(t) ==
  /\ At(t, "log_write")
  /\ walFile' \in WriteAt(walFile, call[t].offset, <<Torn>>)
  /\ Goto(t, "log_tail")
  /\ UNCHANGED <<memory, disk, history>>

LogTail(t) ==
  /\ At(t, "log_tail")
  /\ walFile' \in WriteAt(walFile, call[t].offset, <<call[t].entry>>)
  /\ Goto(t, "logged")
  /\ UNCHANGED <<memory, disk, history>>

\* What the call leaves in memory: put adds its document to the map that the
\* collection has or gets now; delete has changed memory before.
OnlyItsDocument(t) ==  \* mutant: the map is replaced
  [NoDocs EXCEPT ![call[t].entry.id] = call[t].entry.val]

DocsAfter(t) ==
  LET e == call[t].entry
  IN  IF call[t].op = "delete" THEN store[e.coll]
      ELSE [DocsOf(store[e.coll]) EXCEPT ![e.id] = e.val]

TestedAfterwards(t) == TRUE  \* mutant: containsKey after the assignment

Existed(t) == DocsOf(store[call[t].entry.coll])[call[t].entry.id] # None

\* logWrite returns the counter as it is by now, not the number it took; put
\* then applies the document to memory, and both start to persist.
PersistedFirst(t) ==  \* mutant: serialised before memory has the document
  LET c == call[t].entry.coll
  IN  /\ At(t, "logged")
      /\ store' = [store EXCEPT ![c] = DocsAfter(t)]
      /\ Become(t, Persisting([call[t] EXCEPT !.seq = sequence[call[t].log],
                                              !.isUpdate = Existed(t)],
                              c, store[c]))
      /\ UNCHANGED <<isOpen, wal, sequence, mirror, files, history>>

Logged(t) ==
  LET c == call[t].entry.coll
  IN  /\ At(t, "logged")
      /\ store' = [store EXCEPT ![c] = DocsAfter(t)]
      /\ Become(t, Persisting([call[t] EXCEPT !.seq = sequence[call[t].log],
                                              !.isUpdate = Existed(t)],
                              c, DocsAfter(t)))
      /\ UNCHANGED <<isOpen, wal, sequence, mirror, files, history>>

-----------------------------------------------------------------------------
\* _persistCollection: writeAsBytes truncates the file, then fills it.

TruncateLoop(t) ==  \* mutant: a loop truncates all its files first
  /\ At(t, "truncate")
  /\ disk' = [c \in Collections |->
                IF c \in {call[t].target} \cup call[t].todo THEN Torn ELSE disk[c]]
  /\ Goto(t, "write")
  /\ UNCHANGED <<memory, walFile, history>>

Truncate(t) ==
  /\ At(t, "truncate")
  /\ disk' = [disk EXCEPT ![call[t].target] = Torn]
  /\ Goto(t, "write")
  /\ UNCHANGED <<memory, walFile, history>>

Write(t) ==
  /\ At(t, "write")
  /\ disk' = [disk EXCEPT ![call[t].target] = call[t].image]
  /\ Goto(t, "next")
  /\ UNCHANGED <<memory, walFile, history>>

\* The file was unlinked after it was opened: the bytes go nowhere.
WriteUnlinked(t) ==
  /\ At(t, "write_unlinked")
  /\ Goto(t, "next")
  /\ UNCHANGED <<memory, files, history>>

UnlinkMissing(t) ==  \* mutant: the test is inverted
  /\ At(t, "unlink_test")
  /\ Goto(t, IF disk[call[t].target] # Absent THEN "next" ELSE "unlink")
  /\ UNCHANGED <<memory, files, history>>

UnlinkTest(t) ==
  /\ At(t, "unlink_test")
  /\ Goto(t, IF disk[call[t].target] = Absent THEN "next" ELSE "unlink")
  /\ UNCHANGED <<memory, files, history>>

Unlink(t) ==
  /\ At(t, "unlink")
  /\ disk[call[t].target] # Absent
  /\ disk' = [disk EXCEPT ![call[t].target] = Absent]
  /\ call' = [u \in Tasks |->
                IF u = t THEN [call[t] EXCEPT !.pc = "next"]
                ELSE IF At(u, "write") /\ call[u].target = call[t].target
                     THEN [call[u] EXCEPT !.pc = "write_unlinked"]
                     ELSE call[u]]
  /\ UNCHANGED <<memory, walFile, history>>

\* The call throws.  Clients that follow the collection learn of it and start
\* over: they subscribe and read again.
Throw(t) ==
  /\ Become(t, Idle)
  /\ mirror' = IF call[t].op \in {"put", "update", "delete"}
               THEN [mirror EXCEPT ![call[t].entry.coll] = Absent]
               ELSE mirror
  /\ UNCHANGED <<store, isOpen, wal, sequence>>

\* Another task removed the file first: File.delete throws.
UnlinkFails(t) ==
  /\ At(t, "unlink")
  /\ disk[call[t].target] = Absent
  /\ Throw(t)
  /\ UNCHANGED <<files, history>>

-----------------------------------------------------------------------------
\* After a collection is persisted: put and delete commit, loops take the next
\* collection.  The order of a loop is that of the map's keys, here any order.

StartCommit(t) ==
  /\ At(t, "next")
  /\ call[t].op \in {"put", "update", "delete"}
  /\ Become(t, [call[t] EXCEPT !.pc = "commit_read", !.log = wal])
  /\ UNCHANGED <<memory, files, history>>

\* The loops of close and of _recoverFromWAL.
PersistNext(t) ==
  /\ At(t, "next")
  /\ call[t].op \in {"close", "open"}
  /\ \E c \in call[t].todo :
       Become(t, Persisting([call[t] EXCEPT !.todo = @ \ {c}], c, store[c]))
  /\ UNCHANGED <<memory, files, history>>

\* The loop of compact: it forgets the key of an empty collection, and passes
\* over a key that somebody else removed.
CompactNext(t) ==
  /\ At(t, "next")
  /\ call[t].op = "compact"
  /\ \E c \in call[t].todo :
       LET now == [call[t] EXCEPT !.todo = @ \ {c}]
       IN  /\ Become(t, IF store[c] = Absent THEN now
                        ELSE Persisting(now, c, store[c]))
           /\ store' = IF store[c] = NoDocs THEN [store EXCEPT ![c] = Absent]
                       ELSE store
  /\ UNCHANGED <<isOpen, wal, sequence, mirror, files, history>>

\* The engine is open.  What a document shows from here on counts as its
\* value, although calls on it failed or were cut off, unless one is under way
\* or its file was lost.
Shown ==
  {d \in Documents :
     /\ attempts[d] # {} /\ d \notin forfeit
     /\ \A t \in Tasks : \/ call[t].op \notin {"put", "update", "delete"}
                        \/ At(t, "idle") \/ DocumentOf(t) # d}

Opened ==
  /\ isOpen' = TRUE
  /\ acked' = [c \in Collections |->
                 [i \in Ids |-> IF <<c, i>> \in Shown THEN DocsOf(store[c])[i]
                                                    ELSE acked[c][i]]]
  /\ attempts' = [d \in Documents |-> IF d \in Shown THEN {} ELSE attempts[d]]
  /\ UNCHANGED <<forfeit, faults>>

LoopDone(t) ==
  /\ At(t, "next")
  /\ call[t].todo = {}
  /\ \/ /\ call[t].op = "close"
        /\ Become(t, [call[t] EXCEPT !.pc = "clear", !.log = wal])
        /\ UNCHANGED <<isOpen, history>>
     \/ /\ call[t].op = "open"
        /\ Become(t, Idle)
        /\ Opened
     \/ /\ call[t].op = "compact"
        /\ Become(t, Idle)
        /\ UNCHANGED <<isOpen, history>>
  /\ UNCHANGED <<store, wal, sequence, mirror, files>>

-----------------------------------------------------------------------------
\* commit: read the log, drop what is committed, write the rest back.

CommitRead(t) ==
  /\ At(t, "commit_read")
  /\ Become(t, [call[t] EXCEPT !.pc = "commit_filter", !.batch = Readable(walFile)])
  /\ UNCHANGED <<memory, files, history>>

CommitFilter(t) ==
  /\ At(t, "commit_filter")
  /\ sequence' = [sequence EXCEPT ![call[t].log] = Bumped(@, call[t].batch)]
  /\ Become(t, [call[t] EXCEPT !.pc = "commit_open",
                               !.batch = Remaining(@, call[t].seq)])
  /\ UNCHANGED <<store, isOpen, wal, mirror, files, history>>

CommitOpen(t) ==
  /\ At(t, "commit_open")
  /\ walFile' = << >>
  /\ Goto(t, IF call[t].batch = << >> THEN "committed" ELSE "commit_write")
  /\ UNCHANGED <<memory, disk, history>>

CommitWrite(t) ==
  /\ At(t, "commit_write")
  /\ walFile' \in WriteAt(walFile, 0, call[t].batch)
  /\ Goto(t, "committed")
  /\ UNCHANGED <<memory, disk, history>>

\* A subscriber keeps a copy of the collection: an insert must be new to it,
\* an update and a delete must not; anything else spoils the copy (Torn).
Applied(copy, t) ==
  LET e     == call[t].entry
      known == copy[e.id] # None
  IN  IF copy = Torn \/ known # (call[t].op = "delete" \/ call[t].isUpdate)
      THEN Torn
      ELSE [copy EXCEPT ![e.id] = e.val]

\* The watcher is notified and the call returns.
Committed(t) ==
  LET c == call[t].entry.coll
      i == call[t].entry.id
  IN  /\ At(t, "committed")
      /\ mirror' = IF mirror[c] = Absent THEN mirror
                   ELSE [mirror EXCEPT ![c] = Applied(@, t)]
      /\ acked' = [acked EXCEPT ![c][i] = call[t].entry.val]
      /\ attempts' = [attempts EXCEPT ![<<c, i>>] = {}]
      /\ forfeit' = forfeit \ {<<c, i>>}
      /\ Become(t, Idle)
      /\ UNCHANGED <<store, isOpen, wal, sequence, files, faults>>

-----------------------------------------------------------------------------
\* close and compact persist every key the store has when they start.

Close(t) ==
  /\ At(t, "idle") /\ isOpen
  /\ "close" \in Does[t]
  /\ Become(t, [Idle EXCEPT !.pc = "next", !.op = "close", !.todo = Keys])
  /\ UNCHANGED <<memory, files, history>>

Compact(t) ==
  /\ At(t, "idle") /\ isOpen
  /\ "compact" \in Does[t]
  /\ Become(t, [Idle EXCEPT !.pc = "next", !.op = "compact", !.todo = Keys])
  /\ UNCHANGED <<memory, files, history>>

\* clear, awaited by close and by replay.
Clear(t) ==
  /\ At(t, "clear")
  /\ walFile' = << >>
  /\ Goto(t, "cleared")
  /\ UNCHANGED <<memory, disk, history>>

\* After it, close cancels the watchers; recovery persists every collection.
ClosedCleared(t) ==
  /\ At(t, "cleared")
  /\ call[t].op = "close"
  /\ ResetSequence(call[t].log)
  /\ mirror' = [c \in Collections |-> Absent]
  /\ isOpen' = FALSE
  /\ Become(t, Idle)
  /\ UNCHANGED <<store, wal, files, history>>

ReplayedUnpersisted(t) ==  \* mutant: what was replayed stays in memory
  /\ At(t, "cleared")
  /\ call[t].op = "open"
  /\ ResetSequence(call[t].log)
  /\ Become(t, [call[t] EXCEPT !.pc = "next"])
  /\ UNCHANGED <<store, isOpen, wal, mirror, files, history>>

ReplayedCleared(t) ==
  /\ At(t, "cleared")
  /\ call[t].op = "open"
  /\ ResetSequence(call[t].log)
  /\ Become(t, [call[t] EXCEPT !.pc = "next", !.todo = Keys])
  /\ UNCHANGED <<store, isOpen, wal, mirror, files, history>>

-----------------------------------------------------------------------------
\* open: a fresh log object, the files, the log.  The facade lets one open run
\* at a time.  Memory keeps what an earlier close left in it.

Open(t) ==
  /\ At(t, "idle") /\ ~isOpen
  /\ "open" \in Does[t]
  /\ \A u \in Tasks : ~At(u, "idle") => call[u].op # "open"
  /\ wal < Handles
  /\ wal' = wal + 1
  /\ Become(t, [Idle EXCEPT !.pc = "load", !.op = "open", !.log = wal + 1,
                            !.todo = Collections])
  /\ UNCHANGED <<store, isOpen, sequence, mirror, files, history>>

Load(t) ==
  /\ At(t, "load")
  /\ \E c \in call[t].todo :
       Become(t, [call[t] EXCEPT !.pc = "loaded", !.todo = @ \ {c},
                                 !.target = c, !.image = disk[c]])
  /\ UNCHANGED <<memory, files, history>>

LoadedOne(t) ==  \* mutant: the listing stops after one file
  /\ At(t, "loaded")
  /\ store' = IF call[t].image \in {Absent, Torn} THEN store
              ELSE [store EXCEPT ![call[t].target] = call[t].image]
  /\ Goto(t, "recover_read")
  /\ UNCHANGED <<isOpen, wal, sequence, mirror, files, history>>

\* A file that is missing, empty or cannot be decoded leaves memory as it is.
Loaded(t) ==
  /\ At(t, "loaded")
  /\ store' = IF call[t].image \in {Absent, Torn} THEN store
              ELSE [store EXCEPT ![call[t].target] = call[t].image]
  /\ Goto(t, IF call[t].todo = {} THEN "recover_read" ELSE "load")
  /\ UNCHANGED <<isOpen, wal, sequence, mirror, files, history>>

RecoverRead(t) ==
  /\ At(t, "recover_read")
  /\ Become(t, [call[t] EXCEPT !.pc = "replay", !.batch = Readable(walFile)])
  /\ UNCHANGED <<memory, files, history>>

\* replay: without entries it returns and leaves the file as it is.
Replay(t) ==
  LET entries == call[t].batch
  IN  /\ At(t, "replay")
      /\ sequence' = [sequence EXCEPT ![call[t].log] = Bumped(@, entries)]
      /\ store' = [c \in Collections |->
                     IF c \in Touched(entries)
                     THEN Replayed(DocsOf(store[c]), entries, c)
                     ELSE store[c]]
      /\ IF entries = << >>
         THEN Become(t, Idle) /\ Opened
         ELSE Goto(t, "clear") /\ UNCHANGED <<isOpen, history>>
      /\ UNCHANGED <<wal, mirror, files>>

-----------------------------------------------------------------------------
\* The environment.

\* A client subscribes to a collection and reads it, between two calls on it.
Watch(c) ==
  /\ isOpen
  /\ c \in Watched
  /\ mirror[c] = Absent
  /\ \A t \in Tasks : At(t, "idle") \/ call[t].entry.coll # c
  /\ mirror' = [mirror EXCEPT ![c] = DocsOf(store[c])]
  /\ UNCHANGED <<store, isOpen, wal, sequence, files, call, history>>

\* The process dies and starts again: only the files are left.
Crash ==
  /\ "crash" \in Faults
  /\ faults < MaxFaults
  /\ faults' = faults + 1
  /\ store' = [c \in Collections |-> Absent]
  /\ isOpen' = FALSE
  /\ wal' = 0
  /\ sequence' = [h \in 1..Handles |-> 0]
  /\ mirror' = [c \in Collections |-> Absent]
  /\ call' = [t \in Tasks |-> Idle]
  /\ forfeit' = forfeit \cup {d \in Documents : disk[d[1]] = Torn
                                                /\ store[d[1]] # Absent}
  /\ UNCHANGED <<files, acked, attempts>>

\* A file operation throws: so does the call that awaits it.
Fail(t) ==
  /\ "io" \in Faults
  /\ faults < MaxFaults
  /\ call[t].pc \in FileSteps \ {"load"}
  /\ faults' = faults + 1
  /\ Throw(t)
  /\ UNCHANGED <<files, acked, attempts, forfeit>>

\* A file that cannot be read is skipped, as if it were corrupted.
LoadFails(t) ==
  /\ "io" \in Faults
  /\ faults < MaxFaults
  /\ At(t, "load")
  /\ faults' = faults + 1
  /\ \E c \in call[t].todo :
       /\ Become(t, [call[t] EXCEPT !.pc = "loaded", !.todo = @ \ {c},
                                    !.target = c, !.image = Torn])
       /\ forfeit' = forfeit \cup ({c} \X Ids)
  /\ UNCHANGED <<memory, files, acked, attempts>>

-----------------------------------------------------------------------------
\* What a task does on its own once its call has started.
Continue(t) ==
  \/ LogOpen(t) \/ LogWrite(t) \/ LogTail(t) \/ Logged(t)
  \/ Truncate(t) \/ Write(t) \/ WriteUnlinked(t)
  \/ UnlinkTest(t) \/ Unlink(t) \/ UnlinkFails(t)
  \/ StartCommit(t) \/ PersistNext(t) \/ CompactNext(t) \/ LoopDone(t)
  \/ CommitRead(t) \/ CommitFilter(t) \/ CommitOpen(t) \/ CommitWrite(t)
  \/ Committed(t) \/ Clear(t) \/ ClosedCleared(t) \/ ReplayedCleared(t)
  \/ Load(t) \/ Loaded(t) \/ RecoverRead(t) \/ Replay(t)

Start(t) ==
  \/ \E c \in Collections, i \in Ids :
       \/ \E v \in Values : Put(t, c, i, v) \/ Update(t, c, i, v)
       \/ Delete(t, c, i) \/ DeleteMissing(t, c, i)
  \/ Open(t) \/ Close(t) \/ Compact(t)

Next ==
  \/ \E t \in Tasks : Start(t) \/ Continue(t) \/ Fail(t) \/ LoadFails(t)
  \/ \E c \in Watched : Watch(c)
  \/ Crash

Spec == Init /\ [][Next]_vars

-----------------------------------------------------------------------------
(* Properties.  A document is settled when the last of its calls that wrote  *)
(* anything returned success, or the engine was opened after it, and no      *)
(* crash or failed read since then hit its file half written.  A failed call *)
(* leaves it unsettled, and so does a delete after that, which finds nothing *)
(* in memory and returns success (DeleteMissing): the document may be back   *)
(* when the engine is opened again.                                          *)

Settled(d)  == attempts[d] = {} /\ d \notin forfeit
AllIdle     == \A t \in Tasks : At(t, "idle")
OnDisk(c)   == DocsOf(disk[c])
InMemory(c) == DocsOf(store[c])

\* Whatever is under way, crashed or being recovered, the file of a settled
\* document holds the value it was acknowledged with, unless that file is
\* being rewritten: other documents' writes, a commit, a replay or a close
\* never bring an old value back, nor a document whose delete was written.
AckedOnDisk ==
  \A c \in Collections, i \in Ids :
    Settled(<<c, i>>) /\ disk[c] # Torn
      => OnDisk(c)[i] = Encoded[acked[c][i]]

\* An open engine answers for a settled document with the acknowledged value,
\* through every crash, recovery, close and reopen.  (What a failed call leaves
\* unsettled shows a value again that one of its calls had.)
AckedVisible ==
  isOpen => \A c \in Collections, i \in Ids :
              Settled(<<c, i>>) => Encoded[InMemory(c)[i]] = Encoded[acked[c][i]]

\* With no call under way the files say what memory says: the next start of
\* the process would show the documents this one shows.
DiskInSync ==
  isOpen /\ AllIdle => \A c \in Collections : OnDisk(c) = Stored(InMemory(c))

\* With no call under way nothing is left in the log to replay.
WalDrained == isOpen /\ AllIdle => Readable(walFile) = << >>

\* With no call under way a subscriber that applied the events in the order it
\* got them has the documents of the collection: each event was the right kind
\* (insert, update, delete) and none was missing.
MirrorInSync ==
  isOpen /\ AllIdle => \A c \in Collections :
                         mirror[c] # Absent => mirror[c] = InMemory(c)

\* One crash costs acknowledged documents of at most one collection: files are
\* rewritten one at a time, in recovery and in close as well.
CrashCostsOneCollection ==
  [][\E c \in Collections : forfeit' \ forfeit \subseteq {c} \X Ids]_vars

-----------------------------------------------------------------------------
\* Liveness: the runtime finishes every file operation and goes on with the
\* task, and the facade opens a closed engine for the next call.
FairSpec == /\ Spec
            /\ \A t \in Tasks : WF_vars(Continue(t)) /\ WF_vars(Open(t))

\* The value the log would leave in document d, if it has one for it.
EntriesOf(d) == {k \in DOMAIN Readable(walFile) :
                Readable(walFile)[k].coll = d[1] /\ Readable(walFile)[k].id = d[2]}
Replays(d, v) == \E k \in EntriesOf(d) :
                   /\ \A j \in EntriesOf(d) : j <= k
                   /\ Readable(walFile)[k].val = v

\* What a crash left in the log, a put or a delete, is in the file of its
\* collection when the engine is open again, and it does open again, once the
\* process is not interrupted any more.
RecoveryReachesDisk ==
  \A d \in Documents, v \in MaybeValue :
    (faults = MaxFaults /\ wal = 0 /\ Replays(d, v))
      ~> (isOpen /\ OnDisk(d[1])[d[2]] = Encoded[v])

-----------------------------------------------------------------------------
(* What the documents of the repository promise, and the code does not keep. *)


=============================================================================
