--------------------------- MODULE OneCallerProofs ---------------------------
(* The storage engine used by one caller at a time, as the facade of the     *)
(* Dart package uses it when every call is awaited: what it keeps through    *)
(* crashes, recovery, failing file operations, closes and reopenings.        *)
EXTENDS StorageEngineProofs

Me == CHOOSE t \in Tasks : TRUE

\* The hypotheses of the theorems below.  A process in which an open failed
\* does not open the engine again: the recovery would be tried on the memory of
\* the first try, and without the log that it cleared.
OneCaller    == Tasks = {Me}
LastOpen     == \A t \in Tasks : Fail(t) /\ call[t].op = "open" => wal = Handles
OpensCleanly == [][LastOpen]_vars

-----------------------------------------------------------------------------
(* The inductive invariant.  It says, at each step of the one call that may  *)
(* be under way, where the value of every document is: in memory, in its     *)
(* file, in the log, or in the record of the call.                           *)

Mine         == call[Me]
Mutations    == {"put", "update", "delete"}
Mutating     == Mine.pc # "idle" /\ Mine.op \in Mutations
BeforeMemory == Mine.pc \in {"log_open", "log_write", "log_tail", "logged"}
AtFile       == Mine.pc \in {"truncate", "write", "unlink_test", "unlink"}
FileDone     == Mine.pc \in {"next", "commit_read", "commit_filter", "commit_open",
                             "committed"}

Whole(c) == {c} \X Ids

\* The values a document may have: its acknowledged one, those of the calls
\* on it since then, and none when its file was lost.
May(d) == {Encoded[v] : v \in attempts[d] \cup {acked[d[1]][d[2]]}}
          \cup (IF d \in forfeit THEN {None} ELSE {})

\* The file says what memory says; memory that outlived a close is in the
\* file; what was loaded is in memory, unless the file could not be read.
Synced(c)   == OnDisk(c) = Stored(InMemory(c))
Kept(c)     == store[c] = Absent \/ (disk[c] # Torn /\ Synced(c))
Reloaded(c) == Synced(c) \/ ("io" \in Faults /\ Whole(c) \subseteq forfeit)

\* Which steps belong to which calls.
Control ==
  /\ Mine.pc # "idle" => (isOpen <=> Mine.op # "open")
  /\ Mine.pc \notin {"write_unlinked", "commit_write"}
  /\ \/ BeforeMemory
     \/ Mine.pc \in {"commit_read", "commit_filter", "commit_open", "committed"}
     => Mine.op \in Mutations
  /\ Mine.pc \in {"load", "loaded", "recover_read", "replay"} => Mine.op = "open"
  /\ Mine.pc \in {"clear", "cleared"} => Mine.op \in {"open", "close"}
  /\ wal = 0 => \A c \in Collections : store[c] = Absent

\* The file being persisted, and the bytes it will get.
AtTarget ==
  \A c \in Collections : c = Mine.target =>
    /\ Mine.pc \in {"truncate", "write"} =>
         Mine.image = Stored(InMemory(c)) /\ store[c] # Absent
    /\ Mine.pc = "write" => disk[c] = Torn
    /\ Mine.pc \in {"unlink_test", "unlink"} => InMemory(c) = NoDocs
    /\ Mine.pc = "unlink" => disk[c] # Absent
    /\ AtFile /\ Mine.op \in Mutations => c = Mine.entry.coll

\* The document of a put, update or delete under way, and its log entry.
InCall ==
  Mutating =>
    \A c \in Collections, i \in Ids : c = Mine.entry.coll /\ i = Mine.entry.id =>
      /\ Mine.entry.val \in attempts[<<c, i>>]
      /\ Mine.op = "delete" => Mine.entry.val = None
      /\ Mine.op = "delete" \/ AtFile \/ FileDone => InMemory(c)[i] = Mine.entry.val
      /\ FileDone => disk[c] # Torn /\ Synced(c)

InWal ==
  Mutating =>
    /\ BeforeMemory => Mine.log = wal /\ Mine.entry.seq = sequence[wal]
    /\ AtFile \/ FileDone => Mine.seq = sequence[wal]
    /\ FileDone /\ Mine.pc # "next" => Mine.log = wal
    /\ Mine.pc = "log_write" => Mine.offset = Len(walFile)
    /\ Mine.pc = "log_tail" =>
         Mine.offset + 1 = Len(walFile) /\ walFile[Len(walFile)] = Torn
    /\ Mine.pc = "commit_filter" => Mine.batch = Readable(walFile)
    /\ Mine.pc = "commit_open" => Mine.batch = << >>
    /\ Mine.pc = "committed" => walFile = << >>

\* Every entry a reader gets to is of a call that may still show, and has a
\* number that the commit of the next call covers.
InLog ==
  \A k \in DOMAIN walFile : Legible(walFile, k) =>
    /\ walFile[k].val \in attempts[<<walFile[k].coll, walFile[k].id>>]
    /\ isOpen => walFile[k].seq <= sequence[wal]

\* Files and memory hold allowed values.
Allowed ==
  \A c \in Collections, i \in Ids :
    /\ disk[c] # Torn => OnDisk(c)[i] \in May(<<c, i>>)
    /\ disk[c] = Torn /\ store[c] = Absent => None \in May(<<c, i>>)
    /\ isOpen \/ store[c] # Absent => Encoded[InMemory(c)[i]] \in May(<<c, i>>)
    /\ Encoded[OnDisk(c)[i]] = OnDisk(c)[i]

\* Before and during an open: what is loaded, replayed and persisted so far.
Opening ==
  /\ ~isOpen /\ Mine.pc = "idle" /\ wal < Handles => \A c \in Collections : Kept(c)
  /\ Mine.op = "open" =>
     /\ Mine.pc = "load" => \A c \in Collections : IF c \in Mine.todo THEN Kept(c)
                                                                       ELSE Reloaded(c)
     /\ Mine.pc = "loaded" =>
          \A c \in Collections :
            /\ IF c \in Mine.todo \cup {Mine.target} THEN Kept(c) ELSE Reloaded(c)
            /\ c = Mine.target =>
                 /\ c \notin Mine.todo
                 /\ \/ Mine.image = disk[c]
                    \/ Mine.image = Torn /\ "io" \in Faults /\ Whole(c) \subseteq forfeit
     /\ Mine.pc \in {"recover_read", "replay"} => \A c \in Collections : Reloaded(c)
     /\ Mine.pc = "replay" => Mine.batch = Readable(walFile)
     /\ Mine.pc \in {"clear", "cleared"} =>
          \A c \in Collections : store[c] = Absent => Reloaded(c)
     /\ Mine.pc = "next" \/ AtFile =>
          \A c \in Collections :
            /\ c \in Mine.todo \/ (c = Mine.target /\ AtFile) \/ Reloaded(c)
            /\ c \in Mine.todo \/ (c = Mine.target /\ AtFile) => store[c] # Absent
     /\ Mine.pc \in {"cleared", "next"} \/ AtFile => walFile = << >>

\* During a close: the files written so far.
Closing ==
  Mine.op = "close" =>
    /\ Mine.pc = "next" \/ AtFile =>
         \A c \in Collections : c \in Mine.todo \/ (c = Mine.target /\ AtFile) \/ Kept(c)
    /\ Mine.pc \in {"clear", "cleared"} => \A c \in Collections : Kept(c)
    /\ Mine.pc = "cleared" => walFile = << >>

\* When no file operation fails: what a call leaves alone is in sync, a call
\* that returns leaves no entry behind, and at most one file is half written.
Quiet ==
  "io" \notin Faults =>
    /\ isOpen => \A c \in Collections :
         \/ Synced(c)
         \/ Mutating /\ ~FileDone /\ c = Mine.entry.coll
         \/ AtFile /\ c = Mine.target
    /\ isOpen /\ ~Mutating => \A k \in DOMAIN walFile : ~Legible(walFile, k)
    /\ \A c \in Collections : disk[c] = Torn =>
         (Mine.pc = "write" /\ c = Mine.target) \/ Whole(c) \subseteq forfeit

Inv == /\ TypeInv /\ Control /\ AtTarget /\ InCall /\ InWal /\ InLog
       /\ Allowed /\ Opening /\ Closing /\ Quiet

-----------------------------------------------------------------------------
(* Documents, files and frames.                                              *)

LEMMA NoDocsStored ==
  /\ NoDocs \in Docs /\ Stored(NoDocs) = NoDocs
  /\ DocsOf(Absent) = NoDocs /\ DocsOf(Torn) = NoDocs
  /\ \A i \in Ids : NoDocs[i] = None
  BY EncodedAssumption DEF NoDocs, Docs, MaybeValue, Stored, DocsOf

LEMMA DocsStored ==
  ASSUME NEW m \in Docs
  PROVE  /\ m # Absent /\ m # Torn /\ DocsOf(m) = m
         /\ Stored(m) \in Docs
         /\ \A i \in Ids : m[i] \in MaybeValue /\ Stored(m)[i] = Encoded[m[i]]
         /\ (\A i \in Ids : Encoded[m[i]] = m[i]) => Stored(m) = m
<1>1. m # Absent /\ m # Torn
  BY AbsentAssumption
<1>2. DocsOf(m) = m
  BY <1>1 DEF DocsOf
<1>3. Stored(m) \in Docs
  BY EncodedAssumption DEF Stored, Docs
<1>4. \A i \in Ids : m[i] \in MaybeValue /\ Stored(m)[i] = Encoded[m[i]]
  BY DEF Docs, Stored
<1>5. ASSUME \A i \in Ids : Encoded[m[i]] = m[i] PROVE Stored(m) = m
  BY <1>5 DEF Docs, Stored
<1>6. QED
  BY <1>1, <1>2, <1>3, <1>4, <1>5

\* What a value was encoded to is encoded to itself.
LEMMA EncodedTwice ==
  \A v \in MaybeValue : Encoded[v] \in MaybeValue /\ Encoded[Encoded[v]] = Encoded[v]
  BY EncodedAssumption DEF MaybeValue

LEMMA MemoryTypes ==
  ASSUME TypeInv, NEW c \in Collections
  PROVE  /\ store[c] \in Docs \cup {Absent}
         /\ disk[c] \in Docs \cup {Absent, Torn}
         /\ InMemory(c) \in Docs /\ OnDisk(c) \in Docs
         /\ disk[c] \in {Absent, Torn} => OnDisk(c) = NoDocs
         /\ store[c] = Absent => InMemory(c) = NoDocs
         /\ disk[c] \in Docs => OnDisk(c) = disk[c]
         /\ store[c] \in Docs => InMemory(c) = store[c]
  BY DocsOfType, NoDocsStored, DocsStored
     DEF TypeInv, TypeOK, InMemory, OnDisk

LEMMA MayGrows ==
  ASSUME NEW d, attempts[d] \subseteq attempts'[d], acked'[d[1]][d[2]] = acked[d[1]][d[2]],
         forfeit \subseteq forfeit'
  PROVE  May(d) \subseteq May(d)'
  BY DEF May

LEMMA MayOf ==
  ASSUME NEW c, NEW i
  PROVE  /\ May(<<c, i>>) = {Encoded[v] : v \in attempts[<<c, i>>] \cup {acked[c][i]}}
                            \cup (IF <<c, i>> \in forfeit THEN {None} ELSE {})
         /\ May(<<c, i>>)' = {Encoded[v] : v \in attempts'[<<c, i>>] \cup {acked'[c][i]}}
                             \cup (IF <<c, i>> \in forfeit' THEN {None} ELSE {})
  BY DEF May

LEMMA SameMay ==
  ASSUME UNCHANGED history
  PROVE  \A c \in Collections, i \in Ids : May(<<c, i>>)' = May(<<c, i>>)
  BY DEF May, history

LEMMA SameDocs ==
  ASSUME NEW c \in Collections, disk'[c] = disk[c], store'[c] = store[c]
  PROVE  /\ OnDisk(c)' = OnDisk(c) /\ InMemory(c)' = InMemory(c)
         /\ Synced(c)' <=> Synced(c)
         /\ Kept(c)' <=> Kept(c)
         /\ forfeit \subseteq forfeit' /\ Reloaded(c) => Reloaded(c)'
  BY DEF OnDisk, InMemory, Synced, Kept, Reloaded, Whole

\* Whoever is the only task runs every call.
LEMMA MineBecomes ==
  ASSUME OneCaller, TypeInv
  PROVE  /\ Me \in Tasks /\ Mine \in Call
         /\ \A new : Become(Me, new) => Mine' = new
         /\ \A step : Goto(Me, step) => Mine' = [Mine EXCEPT !.pc = step]
         /\ \A t \in Tasks : t = Me
  BY DEF OneCaller, TypeInv, TypeOK, Mine, Become, Goto

\* Steps that change only the record of the call, not what it knows of the
\* document it is about.
LEMMA OwnFrame ==
  ASSUME UNCHANGED <<store, isOpen, wal, sequence, files, history>>
  PROVE  /\ \A c \in Collections :
              /\ OnDisk(c)' = OnDisk(c) /\ InMemory(c)' = InMemory(c)
              /\ Synced(c)' <=> Synced(c)
              /\ Kept(c)' <=> Kept(c)
              /\ Reloaded(c)' <=> Reloaded(c)
         /\ InLog => InLog'
         /\ Allowed => Allowed'
<1>1. \A c \in Collections : OnDisk(c)' = OnDisk(c) /\ InMemory(c)' = InMemory(c)
  BY DEF OnDisk, InMemory, files
<1>2. \A c \in Collections : (Synced(c)' <=> Synced(c)) /\ (Kept(c)' <=> Kept(c))
                            /\ (Reloaded(c)' <=> Reloaded(c))
  BY <1>1 DEF Synced, Kept, Reloaded, files, history
<1>3. InLog => InLog'
  BY DEF InLog, Legible, files, history
<1>4. Allowed => Allowed'
  BY <1>1, SameMay DEF Allowed, files
<1>5. QED
  BY <1>1, <1>2, <1>3, <1>4

LEMMA StepLogOpen ==
  ASSUME OneCaller, Inv, LogOpen(Me)
  PROVE  Inv'
<1>1. TypeInv'
  BY TypeContinue, MineBecomes DEF Inv, Continue
<1>2. /\ Mine \in Call /\ Mine.pc = "log_open"
      /\ Mine' = [Mine EXCEPT !.pc = "log_write", !.offset = Len(walFile)]
      /\ UNCHANGED <<store, isOpen, wal, sequence, files, history>>
  BY MineBecomes DEF Inv, LogOpen, At, Mine, memory
<1>3. /\ Mine'.pc = "log_write" /\ Mine'.offset = Len(walFile)
      /\ UNCHANGED <<Mine.op, Mine.entry, Mine.log>>
  BY <1>2 DEF Call
<1>4. Control'
  BY <1>2, <1>3 DEF Inv, Control, BeforeMemory
<1>5. AtTarget'
  BY <1>3 DEF AtTarget, AtFile
<1>6. InCall'
  BY <1>2, <1>3, OwnFrame DEF Inv, InCall, Mutating, AtFile, FileDone, history
<1>7. InWal'
  BY <1>2, <1>3 DEF Inv, InWal, Mutating, BeforeMemory, AtFile, FileDone, files
<1>8. InLog' /\ Allowed'
  BY <1>2, OwnFrame DEF Inv
<1>9. Opening'
  BY <1>2, <1>3 DEF Inv, Control, Opening, BeforeMemory, AtFile, Mutations
<1>10. Closing'
  BY <1>2, <1>3 DEF Inv, Control, Closing, BeforeMemory, AtFile, Mutations
<1>11. Quiet'
  BY <1>2, <1>3, OwnFrame DEF Inv, Quiet, Control, Mutating, BeforeMemory, AtFile, FileDone, files, Legible, history, Whole
<1>12. QED
  BY <1>1, <1>4, <1>5, <1>6, <1>7, <1>8, <1>9, <1>10, <1>11 DEF Inv


LEMMA MineTypes ==
  ASSUME OneCaller, Inv
  PROVE  /\ Mine.pc \in {"idle"} \cup Resuming \cup FileSteps
         /\ Mine.op \in Operations /\ Mine.entry \in Entry
         /\ Mine.target \in Collections /\ Mine.todo \subseteq Collections
         /\ Mine.entry.coll \in Collections /\ Mine.entry.id \in Ids
         /\ Mine.entry.val \in MaybeValue
  BY MineBecomes DEF Inv, Call, Entry

LEMMA StepStartCommit ==
  ASSUME OneCaller, Inv, StartCommit(Me)
  PROVE  Inv'
<1>1. TypeInv'
  BY TypeContinue, MineBecomes DEF Inv, Continue
<1>2. /\ Mine \in Call /\ Mine.pc = "next" /\ Mine.op \in Mutations
      /\ Mine' = [Mine EXCEPT !.pc = "commit_read", !.log = wal]
      /\ UNCHANGED <<store, isOpen, wal, sequence, files, history>>
  BY MineBecomes DEF Inv, StartCommit, At, Mine, memory, Mutations
<1>3. /\ Mine'.pc = "commit_read" /\ Mine'.log = wal
      /\ UNCHANGED <<Mine.op, Mine.entry, Mine.seq, Mine.target>>
  BY <1>2 DEF Call
<1>4. Control'
  BY <1>2, <1>3 DEF Inv, Control, BeforeMemory, AtFile, Mutations
<1>5. AtTarget'
  BY <1>2, <1>3, OwnFrame DEF Inv, Control, AtTarget, AtFile, files
<1>6. InCall'
  BY <1>2, <1>3, OwnFrame DEF Inv, InCall, Mutating, AtFile, FileDone, files, history
<1>7. InWal'
  BY <1>2, <1>3 DEF Inv, Control, InWal, Mutating, BeforeMemory, AtFile, FileDone, files
<1>8. InLog' /\ Allowed'
  BY <1>2, OwnFrame DEF Inv
<1>9. Opening'
  BY <1>2, <1>3, OwnFrame DEF Inv, Control, Opening, AtFile, Mutations, Whole, history, files
<1>10. Closing'
  BY <1>2, <1>3, OwnFrame DEF Inv, Control, Closing, AtFile, Mutations, files
<1>11. Quiet'
  BY <1>2, <1>3, OwnFrame DEF Inv, Quiet, Control, InCall, Mutating, AtFile, FileDone,
         files, Legible, history, Whole
<1>12. QED
  BY <1>1, <1>4, <1>5, <1>6, <1>7, <1>8, <1>9, <1>10, <1>11 DEF Inv

LEMMA StepCommitRead ==
  ASSUME OneCaller, Inv, CommitRead(Me)
  PROVE  Inv'
<1>1. TypeInv'
  BY TypeContinue, MineBecomes DEF Inv, Continue
<1>2. /\ Mine \in Call /\ Mine.pc = "commit_read"
      /\ Mine' = [Mine EXCEPT !.pc = "commit_filter", !.batch = Readable(walFile)]
      /\ UNCHANGED <<store, isOpen, wal, sequence, files, history>>
  BY MineBecomes DEF Inv, CommitRead, At, Mine, memory, Mutations
<1>3. /\ Mine'.pc = "commit_filter" /\ Mine'.batch = Readable(walFile)
      /\ UNCHANGED <<Mine.op, Mine.entry, Mine.seq, Mine.log, Mine.target>>
  BY <1>2 DEF Call
<1>4. Control'
  BY <1>2, <1>3 DEF Inv, Control, BeforeMemory, AtFile, Mutations
<1>5. AtTarget'
  BY <1>2, <1>3, OwnFrame DEF Inv, Control, AtTarget, AtFile, files
<1>6. InCall'
  BY <1>2, <1>3, OwnFrame DEF Inv, InCall, Mutating, AtFile, FileDone, files, history
<1>7. InWal'
  BY <1>2, <1>3 DEF Inv, Control, InWal, Mutating, BeforeMemory, AtFile, FileDone, files
<1>8. InLog' /\ Allowed'
  BY <1>2, OwnFrame DEF Inv
<1>9. Opening'
  BY <1>2, <1>3, OwnFrame DEF Inv, Control, Opening, AtFile, Mutations, Whole, history, files
<1>10. Closing'
  BY <1>2, <1>3, OwnFrame DEF Inv, Control, Closing, AtFile, Mutations, files
<1>11. Quiet'
  BY <1>2, <1>3, OwnFrame DEF Inv, Quiet, Control, InCall, Mutating, AtFile, FileDone,
         files, Legible, history, Whole
<1>12. QED
  BY <1>1, <1>4, <1>5, <1>6, <1>7, <1>8, <1>9, <1>10, <1>11 DEF Inv

LEMMA StepRecoverRead ==
  ASSUME OneCaller, Inv, RecoverRead(Me)
  PROVE  Inv'
<1>1. TypeInv'
  BY TypeContinue, MineBecomes DEF Inv, Continue
<1>2. /\ Mine \in Call /\ Mine.pc = "recover_read"
      /\ Mine' = [Mine EXCEPT !.pc = "replay", !.batch = Readable(walFile)]
      /\ UNCHANGED <<store, isOpen, wal, sequence, files, history>>
  BY MineBecomes DEF Inv, RecoverRead, At, Mine, memory, Mutations
<1>3. /\ Mine'.pc = "replay" /\ Mine'.batch = Readable(walFile)
      /\ UNCHANGED <<Mine.op, Mine.entry, Mine.seq, Mine.log, Mine.target>>
  BY <1>2 DEF Call
<1>4. Control'
  BY <1>2, <1>3 DEF Inv, Control, BeforeMemory, AtFile, Mutations
<1>5. AtTarget'
  BY <1>2, <1>3, OwnFrame DEF Inv, Control, AtTarget, AtFile, files
<1>6. InCall'
  BY <1>2, <1>3, OwnFrame DEF Inv, InCall, Mutating, AtFile, FileDone, files, history
<1>7. InWal'
  BY <1>2, <1>3 DEF Inv, Control, InWal, Mutating, BeforeMemory, AtFile, FileDone, files
<1>8. InLog' /\ Allowed'
  BY <1>2, OwnFrame DEF Inv
<1>9. Opening'
  BY <1>2, <1>3, OwnFrame DEF Inv, Control, Opening, AtFile, Mutations, Whole, history, files
<1>10. Closing'
  BY <1>2, <1>3, OwnFrame DEF Inv, Control, Closing, AtFile, Mutations, files
<1>11. Quiet'
  BY <1>2, <1>3, OwnFrame DEF Inv, Quiet, Control, InCall, Mutating, AtFile, FileDone,
         files, Legible, history, Whole
<1>12. QED
  BY <1>1, <1>4, <1>5, <1>6, <1>7, <1>8, <1>9, <1>10, <1>11 DEF Inv

\* A file that is missing and empty documents are in sync; AbsentAssumption
\* keeps a missing file apart from a torn one.
LEMMA StepUnlinkTest ==
  ASSUME OneCaller, Inv, UnlinkTest(Me)
  PROVE  Inv'
<1>1. TypeInv'
  BY TypeContinue, MineBecomes DEF Inv, Continue
<1> DEFINE step == IF disk[Mine.target] = Absent THEN "next" ELSE "unlink"
<1>2. /\ Mine \in Call /\ Mine.pc = "unlink_test" /\ Mine' = [Mine EXCEPT !.pc = step]
      /\ UNCHANGED <<store, isOpen, wal, sequence, files, history>>
  BY MineBecomes DEF Inv, UnlinkTest, At, Mine, memory
<1>3. /\ Mine'.pc = step
      /\ UNCHANGED <<Mine.op, Mine.entry, Mine.seq, Mine.log, Mine.target, Mine.todo>>
  BY <1>2 DEF Call
<1>4. ASSUME step = "next", NEW c \in Collections, c = Mine.target
      PROVE  disk[c] # Torn /\ Synced(c)
  BY <1>2, <1>4, MemoryTypes, NoDocsStored, AbsentAssumption DEF Inv, AtTarget, Synced
<1>5. Control'
  BY <1>2, <1>3 DEF Inv, Control, BeforeMemory
<1>6. AtTarget'
  BY <1>2, <1>3, OwnFrame DEF Inv, AtTarget, AtFile, files
<1>7. InCall'
  BY <1>2, <1>3, <1>4, MineTypes, OwnFrame
     DEF Inv, InCall, AtTarget, Mutating, AtFile, FileDone, files, history
<1>8. InWal'
  BY <1>2, <1>3 DEF Inv, InWal, Mutating, BeforeMemory, AtFile, FileDone, files
<1>9. InLog' /\ Allowed'
  BY <1>2, OwnFrame DEF Inv
<1>10. Opening'
  BY <1>2, <1>3, <1>4, OwnFrame DEF Inv, Opening, AtFile, Reloaded, files
<1>11. Closing'
  BY <1>2, <1>3, <1>4, OwnFrame DEF Inv, Closing, AtFile, Kept, files
<1>12. Quiet'
  BY <1>2, <1>3, <1>4, MineTypes, OwnFrame
     DEF Inv, Quiet, AtTarget, Mutating, AtFile, FileDone, files, Legible, history, Whole
<1>13. QED
  BY <1>1, <1>5, <1>6, <1>7, <1>8, <1>9, <1>10, <1>11, <1>12 DEF Inv

\* A loop of close or recovery takes the next collection.
LEMMA StepPersistNext ==
  ASSUME OneCaller, Inv, PersistNext(Me)
  PROVE  Inv'
<1>1. TypeInv'
  BY TypeContinue, MineBecomes DEF Inv, Continue
<1>2. PICK c \in Mine.todo :
        Become(Me, Persisting([Mine EXCEPT !.todo = @ \ {c}], c, store[c]))
  BY DEF PersistNext, Mine
<1>3. /\ Mine \in Call /\ c \in Collections /\ Mine.pc = "next" /\ Mine.op \in {"close", "open"}
      /\ Mine' = Persisting([Mine EXCEPT !.todo = @ \ {c}], c, store[c])
      /\ UNCHANGED <<store, isOpen, wal, sequence, files, history>>
  BY <1>2, MineBecomes, MineTypes DEF Inv, PersistNext, At, Mine, memory
<1>4. /\ Mine'.pc = IF InMemory(c) = NoDocs THEN "unlink_test" ELSE "truncate"
      /\ Mine'.target = c /\ Mine'.image = Stored(InMemory(c)) /\ Mine'.todo = Mine.todo \ {c}
      /\ UNCHANGED <<Mine.op>>
  BY <1>3 DEF Call, Persisting, InMemory
<1>5. InMemory(c) # NoDocs => store[c] # Absent
  BY <1>3, MemoryTypes DEF Inv
<1>6. Control'
  BY <1>3, <1>4 DEF Inv, Control, BeforeMemory
<1>7. AtTarget'
  BY <1>3, <1>4, <1>5, OwnFrame DEF Inv, AtTarget, AtFile, files, Mutations, Stored
<1>8. InCall' /\ InWal'
  BY <1>3, <1>4 DEF InCall, InWal, Mutating, Mutations
<1>9. InLog' /\ Allowed'
  BY <1>3, OwnFrame DEF Inv
<1>10. Opening'
  BY <1>3, <1>4, OwnFrame DEF Inv, Opening, AtFile, files
<1>11. Closing'
  BY <1>3, <1>4, OwnFrame DEF Inv, Closing, AtFile, files
<1>12. Quiet'
  BY <1>3, <1>4, OwnFrame
     DEF Inv, Quiet, Mutating, Mutations, AtFile, FileDone, files, Legible, history, Whole
<1>13. QED
  BY <1>1, <1>6, <1>7, <1>8, <1>9, <1>10, <1>11, <1>12 DEF Inv

\* open reads the next file.
LEMMA StepLoad ==
  ASSUME OneCaller, Inv, Load(Me)
  PROVE  Inv'
<1>1. TypeInv'
  BY TypeContinue, MineBecomes DEF Inv, Continue
<1>2. PICK c \in Mine.todo :
        Become(Me, [Mine EXCEPT !.pc = "loaded", !.todo = @ \ {c}, !.target = c, !.image = disk[c]])
  BY DEF Load, Mine
<1>3. /\ Mine \in Call /\ c \in Collections /\ Mine.pc = "load" /\ Mine.op = "open"
      /\ Mine' = [Mine EXCEPT !.pc = "loaded", !.todo = @ \ {c}, !.target = c, !.image = disk[c]]
      /\ UNCHANGED <<store, isOpen, wal, sequence, files, history>>
  BY <1>2, MineBecomes, MineTypes DEF Inv, Load, At, Mine, memory, Control
<1>4. /\ Mine'.pc = "loaded" /\ Mine'.target = c /\ Mine'.image = disk[c]
      /\ Mine'.todo = Mine.todo \ {c} /\ UNCHANGED <<Mine.op>>
  BY <1>3 DEF Call
<1>5. Control' /\ AtTarget' /\ InCall' /\ InWal' /\ Closing'
  BY <1>3, <1>4 DEF Inv, Control, AtTarget, InCall, InWal, Closing, BeforeMemory, AtFile,
                    Mutating, Mutations
<1>6. InLog' /\ Allowed'
  BY <1>3, OwnFrame DEF Inv
<1>7. Opening'
  BY <1>2, <1>3, <1>4, OwnFrame DEF Inv, Opening, AtFile, files
<1>8. Quiet'
  BY <1>3, <1>4, OwnFrame
     DEF Inv, Quiet, Mutating, Mutations, AtFile, FileDone, files, Legible, history, Whole
<1>9. QED
  BY <1>1, <1>5, <1>6, <1>7, <1>8 DEF Inv

LEMMA StepCloseCompact ==
  ASSUME OneCaller, Inv, Close(Me) \/ Compact(Me)
  PROVE  Inv'
<1>1. TypeInv'
  BY TypeStart, MineBecomes DEF Inv, Start
<1>2. PICK o \in {"close", "compact"} :
        Become(Me, [Idle EXCEPT !.pc = "next", !.op = o, !.todo = Keys])
  BY DEF Close, Compact
<1>3. /\ Mine.pc = "idle" /\ isOpen
      /\ Mine' = [Idle EXCEPT !.pc = "next", !.op = o, !.todo = Keys]
      /\ UNCHANGED <<store, isOpen, wal, sequence, files, history>>
  BY <1>2, MineBecomes DEF Inv, Close, Compact, At, Mine, memory
<1>4. Mine'.pc = "next" /\ Mine'.op = o /\ Mine'.todo = Keys
  BY <1>3 DEF Idle
<1>5. Control' /\ AtTarget' /\ InCall' /\ InWal' /\ Opening'
  BY <1>3, <1>4 DEF Inv, Control, AtTarget, InCall, InWal, Opening, BeforeMemory, AtFile,
                    Mutating, Mutations
<1>6. InLog' /\ Allowed'
  BY <1>3, OwnFrame DEF Inv
<1>7. Closing'
  BY <1>3, <1>4, OwnFrame DEF Closing, AtFile, files, Keys, Kept
<1>8. Quiet'
  BY <1>3, <1>4, OwnFrame
     DEF Inv, Quiet, Mutating, Mutations, AtFile, FileDone, files, Legible, history, Whole
<1>9. QED
  BY <1>1, <1>5, <1>6, <1>7, <1>8 DEF Inv

-----------------------------------------------------------------------------
(* The steps that write a file.                                              *)

\* The log grows at its end by one torn cell, which is completed then.
LEMMA StepLogWrite ==
  ASSUME OneCaller, Inv, LogWrite(Me)
  PROVE  Inv'
<1>1. TypeInv'
  BY TypeContinue, MineBecomes DEF Inv, Continue
<1>2. /\ Mine \in Call /\ Mine.pc = "log_write" /\ Mine.op \in Mutations
      /\ Mine' = [Mine EXCEPT !.pc = "log_tail"]
      /\ walFile' \in WriteAt(walFile, Mine.offset, <<Torn>>)
      /\ UNCHANGED <<store, isOpen, wal, sequence, disk, history>>
  BY MineBecomes DEF Inv, LogWrite, At, Mine, memory, Control, BeforeMemory
<1>3. /\ Mine'.pc = "log_tail"
      /\ UNCHANGED <<Mine.op, Mine.entry, Mine.log, Mine.offset>>
  BY <1>2 DEF Call
<1>4. walFile \in Seq(Entry \cup {Torn}) /\ walFile' = Append(walFile, Torn)
  <2>1. walFile \in Seq(Entry \cup {Torn}) /\ Mine.offset = Len(walFile)
    BY <1>2 DEF Inv, TypeInv, TypeOK, WalTypeOK, InWal, Mutating
  <2>2. QED
    BY <1>2, <2>1, AppendAtEnd
<1>5. /\ Len(walFile') = Len(walFile) + 1 /\ walFile'[Len(walFile')] = Torn
      /\ DOMAIN walFile' = 1..(Len(walFile) + 1)
      /\ \A k \in DOMAIN walFile : walFile'[k] = walFile[k]
  BY <1>4
<1>6. \A k \in DOMAIN walFile' : Legible(walFile', k) =>
        k \in DOMAIN walFile /\ Legible(walFile, k)
  BY <1>4, <1>5 DEF Legible
<1>7. \A c \in Collections :
        OnDisk(c)' = OnDisk(c) /\ InMemory(c)' = InMemory(c) /\ (Synced(c)' <=> Synced(c))
  BY <1>2, SameDocs
<1>8. Control' /\ AtTarget' /\ Opening' /\ Closing'
  BY <1>2, <1>3 DEF Inv, Control, AtTarget, Opening, Closing, BeforeMemory, AtFile, Mutations
<1>9. InCall'
  BY <1>2, <1>3, <1>7 DEF Inv, InCall, Mutating, AtFile, FileDone, history
<1>10. InWal'
  BY <1>2, <1>3, <1>5 DEF Inv, InWal, Mutating, BeforeMemory, AtFile, FileDone
<1>11. InLog'
  BY <1>2, <1>5, <1>6 DEF Inv, InLog, history
<1>12. Allowed'
  BY <1>2, <1>7, SameMay DEF Inv, Allowed
<1>13. Quiet'
  BY <1>2, <1>3, <1>7 DEF Inv, Quiet, Mutating, AtFile, FileDone, Whole, history
<1>14. QED
  BY <1>1, <1>8, <1>9, <1>10, <1>11, <1>12, <1>13 DEF Inv

LEMMA StepLogTail ==
  ASSUME OneCaller, Inv, LogTail(Me)
  PROVE  Inv'
<1>1. TypeInv'
  BY TypeContinue, MineBecomes DEF Inv, Continue
<1>0. PICK e \in Entry : e = Mine.entry
  BY MineTypes
<1>2. /\ Mine \in Call /\ Mine.pc = "log_tail" /\ Mine.op \in Mutations
      /\ Mine' = [Mine EXCEPT !.pc = "logged"]
      /\ walFile' \in WriteAt(walFile, Mine.offset, <<e>>)
      /\ UNCHANGED <<store, isOpen, wal, sequence, disk, history>>
  BY <1>0, MineBecomes DEF Inv, LogTail, At, Mine, memory, Control, BeforeMemory
<1>3. /\ Mine'.pc = "logged"
      /\ UNCHANGED <<Mine.op, Mine.entry, Mine.log>>
  BY <1>2 DEF Call
<1>4. /\ walFile \in Seq(Entry \cup {Torn})
      /\ walFile' = [walFile EXCEPT ![Len(walFile)] = e]
      /\ e.val \in attempts[<<e.coll, e.id>>] /\ e.seq <= sequence[wal]
  <2>1. /\ walFile \in Seq(Entry \cup {Torn}) /\ Mine.offset + 1 = Len(walFile)
        /\ e.seq = sequence[wal]
    BY <1>0, <1>2 DEF Inv, TypeInv, TypeOK, WalTypeOK, InWal, Mutating, BeforeMemory
  <2>2. e \in Entry /\ Mine.offset \in Nat /\ e.seq \in Nat
    BY <1>2 DEF Call, Entry
  <2>3. walFile' = [walFile EXCEPT ![Mine.offset + 1] = e]
    BY <1>2, <2>1, <2>2, CompleteAtEnd
  <2>4. e.val \in attempts[<<e.coll, e.id>>]
    BY <1>0, <1>2, MineTypes DEF Inv, InCall, Mutating
  <2>5. sequence[wal] \in Nat
    BY <2>1, <2>2
  <2>6. e.seq <= sequence[wal]
    BY <2>1, <2>5
  <2>7. QED
    BY <2>1, <2>3, <2>4, <2>6
<1>5. \A k \in DOMAIN walFile' :
        k \in DOMAIN walFile /\ walFile'[k] = IF k = Len(walFile) THEN e ELSE walFile[k]
  BY <1>4
<1>6. \A k \in DOMAIN walFile' : Legible(walFile', k) => k = Len(walFile) \/ Legible(walFile, k)
  BY <1>4, <1>5 DEF Legible
<1>7. \A c \in Collections :
        OnDisk(c)' = OnDisk(c) /\ InMemory(c)' = InMemory(c) /\ (Synced(c)' <=> Synced(c))
  BY <1>2, SameDocs
<1>8. Control' /\ AtTarget' /\ Opening' /\ Closing'
  BY <1>2, <1>3 DEF Inv, Control, AtTarget, Opening, Closing, BeforeMemory, AtFile, Mutations
<1>9. InCall'
  BY <1>2, <1>3, <1>7 DEF Inv, InCall, Mutating, AtFile, FileDone, history
<1>10. InWal'
  BY <1>2, <1>3 DEF Inv, InWal, Mutating, BeforeMemory, AtFile, FileDone
<1>11. InLog'
  <2>1. ASSUME NEW k \in DOMAIN walFile', Legible(walFile', k), k = Len(walFile)
        PROVE  /\ walFile'[k].val \in attempts'[<<walFile'[k].coll, walFile'[k].id>>]
               /\ isOpen' => walFile'[k].seq <= sequence'[wal']
    <3>1. walFile'[k] = e /\ attempts' = attempts /\ sequence' = sequence /\ wal' = wal
      BY <1>2, <1>5, <2>1 DEF history
    <3>2. QED
      BY <1>4, <3>1, Zenon
  <2>2. ASSUME NEW k \in DOMAIN walFile', Legible(walFile', k), k # Len(walFile)
        PROVE  /\ walFile'[k].val \in attempts'[<<walFile'[k].coll, walFile'[k].id>>]
               /\ isOpen' => walFile'[k].seq <= sequence'[wal']
    BY <1>2, <1>5, <1>6, <2>2 DEF Inv, InLog, history
  <2>3. QED
    BY <2>1, <2>2 DEF InLog
<1>12. Allowed'
  BY <1>2, <1>7, SameMay DEF Inv, Allowed
<1>13. Quiet'
  BY <1>2, <1>3, <1>7 DEF Inv, Quiet, Mutating, AtFile, FileDone, Whole, history
<1>14. QED
  BY <1>1, <1>8, <1>9, <1>10, <1>11, <1>12, <1>13 DEF Inv

\* What the file of a collection becomes changes nothing about the others.
LEMMA OtherFiles ==
  ASSUME NEW c \in Collections, \A d \in Collections : d # c => disk'[d] = disk[d],
         UNCHANGED <<store, history>>
  PROVE  \A d \in Collections :
           /\ InMemory(d)' = InMemory(d)
           /\ d # c => /\ OnDisk(d)' = OnDisk(d)
                       /\ Synced(d)' <=> Synced(d)
                       /\ Kept(d)' <=> Kept(d)
                       /\ Reloaded(d)' <=> Reloaded(d)
  BY DEF OnDisk, InMemory, Synced, Kept, Reloaded, Whole, history

LEMMA StepTruncate ==
  ASSUME OneCaller, Inv, Truncate(Me)
  PROVE  Inv'
<1>1. TypeInv'
  BY TypeContinue, MineBecomes DEF Inv, Continue
<1>0. PICK c \in Collections : c = Mine.target
  BY MineTypes
<1>2. /\ Mine \in Call /\ Mine.pc = "truncate" /\ Mine' = [Mine EXCEPT !.pc = "write"]
      /\ disk'[c] = Torn /\ \A d \in Collections : d # c => disk'[d] = disk[d]
      /\ UNCHANGED <<store, isOpen, wal, sequence, walFile, history>>
  BY <1>0, MineBecomes DEF Inv, TypeInv, TypeOK, Truncate, At, Mine, memory
<1>3. /\ Mine'.pc = "write"
      /\ UNCHANGED <<Mine.op, Mine.entry, Mine.seq, Mine.target, Mine.image, Mine.todo>>
  BY <1>2 DEF Call
<1>4. store[c] # Absent /\ OnDisk(c)' = NoDocs
  BY <1>0, <1>2, NoDocsStored DEF Inv, AtTarget, OnDisk
<1>5. \A d \in Collections :
        /\ InMemory(d)' = InMemory(d)
        /\ d # c => /\ OnDisk(d)' = OnDisk(d)
                    /\ Synced(d)' <=> Synced(d)
                    /\ Kept(d)' <=> Kept(d)
                    /\ Reloaded(d)' <=> Reloaded(d)
  BY <1>0, <1>2, OtherFiles
<1>6. Control'
  BY <1>0, <1>2, <1>3 DEF Inv, Control, BeforeMemory
<1>7. AtTarget'
  BY <1>0, <1>2, <1>3, <1>4, <1>5 DEF Inv, AtTarget, AtFile
<1>8. InCall'
  BY <1>0, <1>2, <1>3, <1>5 DEF Inv, InCall, Mutating, AtFile, FileDone, history
<1>9. InWal' /\ InLog'
  BY <1>0, <1>2, <1>3 DEF Inv, InWal, InLog, Mutating, BeforeMemory, AtFile, FileDone, history
<1>10. Allowed'
  <2>1. ASSUME NEW d \in Collections, NEW i \in Ids
        PROVE  /\ disk'[d] # Torn => OnDisk(d)'[i] \in May(<<d, i>>)
               /\ disk'[d] = Torn /\ store[d] = Absent => None \in May(<<d, i>>)
               /\ isOpen \/ store[d] # Absent => Encoded[InMemory(d)[i]] \in May(<<d, i>>)
               /\ Encoded[OnDisk(d)'[i]] = OnDisk(d)'[i]
    <3>1. CASE d = c
      BY <1>2, <1>4, <3>1, NoDocsStored, EncodedAssumption DEF Inv, Allowed
    <3>2. CASE d # c
      BY <1>2, <1>5, <3>2 DEF Inv, Allowed
    <3>3. QED
      BY <3>1, <3>2
  <2>2. QED
    BY <1>2, <1>5, <2>1, SameMay DEF Allowed
<1>11. Opening' /\ Closing'
  BY <1>0, <1>2, <1>3, <1>5 DEF Inv, Opening, Closing, AtFile
<1>12. Quiet'
  BY <1>0, <1>2, <1>3, <1>5 DEF Inv, Quiet, Mutating, AtFile, FileDone, Whole, history
<1>13. QED
  BY <1>1, <1>6, <1>7, <1>8, <1>9, <1>10, <1>11, <1>12 DEF Inv

\* A write or an unlink brings the file in step with memory.
LEMMA StepPersisted ==
  ASSUME OneCaller, Inv, Write(Me) \/ Unlink(Me)
  PROVE  Inv'
<1>1. TypeInv'
  BY TypeContinue, MineBecomes DEF Inv, Continue
<1>0. PICK c \in Collections : c = Mine.target
  BY MineTypes
<1> DEFINE m == IF Mine.pc = "write" THEN Mine.image ELSE Absent
<1>2. /\ Mine \in Call /\ Mine.pc \in {"write", "unlink"}
      /\ Mine' = [Mine EXCEPT !.pc = "next"]
      /\ disk'[c] = m /\ \A d \in Collections : d # c => disk'[d] = disk[d]
      /\ UNCHANGED <<store, isOpen, wal, sequence, walFile, history>>
  <2>1. CASE Write(Me)
    BY <2>1, <1>0, MineBecomes DEF Inv, TypeInv, TypeOK, Write, At, Mine, memory
  <2>2. CASE Unlink(Me)
    BY <2>2, <1>0, MineBecomes DEF Inv, TypeInv, TypeOK, Unlink, At, Mine, memory
  <2>3. QED
    BY <2>1, <2>2
<1>3. /\ Mine'.pc = "next"
      /\ UNCHANGED <<Mine.op, Mine.entry, Mine.seq, Mine.target, Mine.todo>>
  BY <1>2 DEF Call
<1>4. \A d \in Collections :
        /\ InMemory(d)' = InMemory(d)
        /\ d # c => /\ OnDisk(d)' = OnDisk(d)
                    /\ Synced(d)' <=> Synced(d)
                    /\ Kept(d)' <=> Kept(d)
                    /\ Reloaded(d)' <=> Reloaded(d)
  BY <1>0, <1>2, OtherFiles
<1>5. disk'[c] # Torn /\ OnDisk(c)' = Stored(InMemory(c)) /\ Synced(c)'
  <2>1. CASE Mine.pc = "write"
    <3>1. disk'[c] = Stored(InMemory(c)) /\ Stored(InMemory(c)) \in Docs
      BY <1>0, <1>2, <2>1, MemoryTypes, DocsStored DEF Inv, AtTarget, history
    <3>2. QED
      BY <1>0, <1>2, <1>4, <3>1, DocsStored DEF OnDisk, Synced
  <2>2. CASE Mine.pc = "unlink"
    BY <1>0, <1>2, <1>4, <2>2, NoDocsStored, AbsentAssumption
       DEF Inv, AtTarget, OnDisk, Synced, history
  <2>3. QED
    BY <1>0, <1>2, <2>1, <2>2
<1>6. ASSUME NEW i \in Ids
      PROVE  /\ OnDisk(c)'[i] = Encoded[InMemory(c)[i]]
             /\ Encoded[OnDisk(c)'[i]] = OnDisk(c)'[i]
             /\ isOpen \/ store[c] # Absent
  <2>1. OnDisk(c)'[i] = Encoded[InMemory(c)[i]] /\ InMemory(c)[i] \in MaybeValue
    BY <1>0, <1>2, <1>5, MemoryTypes, DocsStored DEF Inv
  <2>2. isOpen \/ store[c] # Absent
    BY <1>0, <1>2 DEF Inv, Control, Opening, AtFile
  <2>3. QED
    BY <2>1, <2>2, EncodedTwice
<1> HIDE DEF m
<1>7. Control' /\ AtTarget'
  BY <1>0, <1>2, <1>3 DEF Inv, Control, AtTarget, BeforeMemory, AtFile
<1>8. InCall'
  BY <1>0, <1>2, <1>3, <1>4, <1>5, MineTypes
     DEF Inv, InCall, AtTarget, Mutating, AtFile, FileDone, history
<1>9. InWal' /\ InLog'
  BY <1>0, <1>2, <1>3 DEF Inv, InWal, InLog, Mutating, BeforeMemory, AtFile, FileDone, history
<1>10. Allowed'
  <2>1. ASSUME NEW d \in Collections, NEW i \in Ids
        PROVE  /\ disk'[d] # Torn => OnDisk(d)'[i] \in May(<<d, i>>)
               /\ disk'[d] = Torn /\ store[d] = Absent => None \in May(<<d, i>>)
               /\ isOpen \/ store[d] # Absent => Encoded[InMemory(d)[i]] \in May(<<d, i>>)
               /\ Encoded[OnDisk(d)'[i]] = OnDisk(d)'[i]
    <3>1. CASE d = c
      BY <1>2, <1>5, <1>6, <3>1 DEF Inv, Allowed
    <3>2. CASE d # c
      BY <1>2, <1>4, <3>2 DEF Inv, Allowed
    <3>3. QED
      BY <3>1, <3>2
  <2>2. QED
    BY <1>2, <1>4, <2>1, SameMay DEF Allowed
<1>11. Opening' /\ Closing'
  BY <1>0, <1>2, <1>3, <1>4, <1>5 DEF Inv, Opening, Closing, AtFile, Reloaded, Kept
<1>12. Quiet'
  BY <1>0, <1>2, <1>3, <1>4, <1>5, MineTypes
     DEF Inv, Quiet, AtTarget, Mutating, AtFile, FileDone, Whole, history
<1>13. QED
  BY <1>1, <1>7, <1>8, <1>9, <1>10, <1>11, <1>12 DEF Inv

-----------------------------------------------------------------------------
(* Starting a call on a document, and applying it to memory.                 *)

\* A cell the reader gets to holds an entry.
LEMMA LegibleEntry ==
  ASSUME TypeInv, NEW k \in DOMAIN walFile, Legible(walFile, k)
  PROVE  /\ walFile[k] \in Entry /\ walFile[k].seq \in Nat
         /\ walFile[k].coll \in Collections /\ walFile[k].id \in Ids
         /\ walFile[k].val \in MaybeValue
<1>1. walFile \in Seq(Entry \cup {Torn}) /\ k \in 1..Len(walFile)
  BY DEF TypeInv, TypeOK, WalTypeOK
<1>2. walFile[k] # Torn /\ walFile[k] \in Entry \cup {Torn}
  BY <1>1 DEF Legible
<1>3. QED
  BY <1>2 DEF Entry

LEMMA StepMutate ==
  ASSUME OneCaller, Inv, NEW o \in Mutations, NEW c \in Collections, NEW i \in Ids,
         NEW v \in MaybeValue, Mutate(Me, o, c, i, v), TypeInv',
         o # "delete" => store' = store,
         o = "delete" => v = None /\ store[c] # Absent
                         /\ store' = [store EXCEPT ![c][i] = None]
  PROVE  Inv'
<1>1. /\ Mine.pc = "idle" /\ isOpen /\ wal # 0
      /\ Mine' = [Idle EXCEPT !.pc = "log_open", !.op = o, !.log = wal,
                              !.entry = [seq |-> sequence[wal] + 1, coll |-> c,
                                         id |-> i, val |-> v]]
      /\ attempts' = [attempts EXCEPT ![<<c, i>>] = @ \cup {v}]
      /\ UNCHANGED <<isOpen, wal, files, acked, forfeit>>
  BY MineBecomes DEF Inv, Mutate, At, Mine, TypeInv, HasLog
<1>2. /\ Mine'.pc = "log_open" /\ Mine'.op = o /\ Mine'.log = wal
      /\ Mine'.entry.seq = sequence[wal] + 1 /\ Mine'.entry.coll = c
      /\ Mine'.entry.id = i /\ Mine'.entry.val = v
  BY <1>1 DEF Idle
<1>3. sequence[wal] \in Nat /\ sequence'[wal] = sequence[wal] + 1
  BY <1>1, HandlesAssumption DEF Inv, TypeInv, TypeOK, WalTypeOK, Mutate, NextSequence
<1>4. /\ v \in attempts'[<<c, i>>]
      /\ \A d \in Documents : attempts[d] \subseteq attempts'[d]
      /\ \A d \in Documents : May(d) \subseteq May(d)'
      /\ Encoded[v] \in May(<<c, i>>)'
  <2>1. /\ v \in attempts'[<<c, i>>]
        /\ \A d \in Documents : attempts[d] \subseteq attempts'[d]
    BY <1>1 DEF Inv, TypeInv, TypeOK, Documents
  <2>2. QED
    BY <1>1, <2>1 DEF May
<1>5. /\ \A d \in Collections : d # c => store'[d] = store[d]
      /\ store[c] # Absent <=> store'[c] # Absent
      /\ \A j \in Ids : j # i => InMemory(c)'[j] = InMemory(c)[j]
      /\ o = "delete" => InMemory(c)'[i] = v
      /\ InMemory(c)'[i] = InMemory(c)[i] \/ InMemory(c)'[i] = v
  <2>1. CASE o # "delete"
    BY <2>1 DEF InMemory
  <2>2. CASE o = "delete"
    <3>1. store[c] \in Docs /\ InMemory(c) = store[c]
      BY <2>2, MemoryTypes DEF Inv
    <3>5. store'[c] = [store[c] EXCEPT ![i] = None]
      BY <2>2 DEF Inv, TypeInv, TypeOK
    <3>2. store'[c] = [store[c] EXCEPT ![i] = None] /\ store'[c] \in Docs
      BY <3>1, <3>5 DEF Docs, MaybeValue
    <3>3. InMemory(c)' = store'[c] /\ store'[c] # Absent
      BY <3>2, DocsStored DEF InMemory
    <3>4. QED
      BY <2>2, <3>1, <3>2, <3>3 DEF Inv, TypeInv, TypeOK, Docs
  <2>3. QED
    BY <2>1, <2>2
<1>6. \A d \in Collections : /\ OnDisk(d)' = OnDisk(d)
                             /\ d # c => InMemory(d)' = InMemory(d)
                             /\ d # c => (Synced(d)' <=> Synced(d))
  BY <1>1, <1>5 DEF OnDisk, InMemory, Synced, files
<1>7. Control' /\ AtTarget' /\ Opening' /\ Closing'
  BY <1>1, <1>2 DEF Inv, Control, AtTarget, Opening, Closing, BeforeMemory, AtFile, Mutations
<1>8. InCall'
  BY <1>1, <1>2, <1>4, <1>5 DEF InCall, Mutating, AtFile, FileDone
<1>9. InWal'
  BY <1>1, <1>2, <1>3 DEF InWal, Mutating, BeforeMemory, AtFile, FileDone
<1>10. InLog'
  <2>1. ASSUME NEW k \in DOMAIN walFile, Legible(walFile, k)
        PROVE  /\ walFile[k].val \in attempts'[<<walFile[k].coll, walFile[k].id>>]
               /\ walFile[k].seq <= sequence'[wal]
    <3>1. walFile[k].seq \in Nat /\ walFile[k].coll \in Collections /\ walFile[k].id \in Ids
      BY <2>1, LegibleEntry DEF Inv
    <3>2. /\ walFile[k].val \in attempts[<<walFile[k].coll, walFile[k].id>>]
          /\ walFile[k].seq <= sequence[wal]
      BY <1>1, <2>1 DEF Inv, InLog
    <3>3. QED
      BY <1>3, <1>4, <3>1, <3>2 DEF Documents
  <2>2. QED
    BY <1>1, <2>1 DEF InLog, Legible, files
<1>11. Allowed'
  <2>1. ASSUME NEW d \in Collections, NEW j \in Ids
        PROVE  /\ disk[d] # Torn => OnDisk(d)[j] \in May(<<d, j>>)'
               /\ disk[d] = Torn /\ store'[d] = Absent => None \in May(<<d, j>>)'
               /\ Encoded[InMemory(d)'[j]] \in May(<<d, j>>)'
               /\ Encoded[OnDisk(d)[j]] = OnDisk(d)[j]
    <3>1. May(<<d, j>>) \subseteq May(<<d, j>>)'
      BY <1>4 DEF Documents
    <3>2. Encoded[InMemory(d)[j]] \in May(<<d, j>>)
      BY <1>1 DEF Inv, Allowed
    <3>3. Encoded[InMemory(d)'[j]] \in May(<<d, j>>)'
      BY <1>4, <1>5, <1>6, <3>1, <3>2
    <3>4. store'[d] = Absent => store[d] = Absent
      BY <1>5
    <3>5. QED
      BY <3>1, <3>3, <3>4 DEF Inv, Allowed
  <2>2. QED
    BY <1>1, <1>6, <2>1 DEF Allowed, files
<1>12. Quiet'
  BY <1>1, <1>2, <1>6 DEF Inv, Quiet, Mutating, AtFile, FileDone, files, Whole
<1>13. QED
  BY <1>7, <1>8, <1>9, <1>10, <1>11, <1>12 DEF Inv

\* Memory gets the value, and the file of its collection is to follow.
LEMMA StepLogged ==
  ASSUME OneCaller, Inv, Logged(Me)
  PROVE  Inv'
<1>1. TypeInv'
  BY TypeContinue, MineBecomes DEF Inv, Continue
<1>0. PICK c \in Collections, i \in Ids, v \in MaybeValue :
        c = Mine.entry.coll /\ i = Mine.entry.id /\ v = Mine.entry.val
  BY MineTypes
<1>2. /\ Mine \in Call /\ Mine.pc = "logged" /\ Mine.op \in Mutations /\ isOpen
      /\ Mine' = Persisting([Mine EXCEPT !.seq = sequence[Mine.log], !.isUpdate = Existed(Me)],
                            c, DocsAfter(Me))
      /\ store' = [store EXCEPT ![c] = DocsAfter(Me)]
      /\ UNCHANGED <<isOpen, wal, sequence, files, history>>
  BY <1>0, MineBecomes
     DEF Inv, Logged, At, Mine, Control, BeforeMemory, Mutations
<1>3. store'[c] = DocsAfter(Me) /\ \A d \in Collections : d # c => store'[d] = store[d]
  BY <1>2 DEF Inv, TypeInv, TypeOK
<1>4. /\ Mine'.pc = IF InMemory(c)' = NoDocs THEN "unlink_test" ELSE "truncate"
      /\ Mine'.target = c /\ Mine'.image = Stored(InMemory(c)')
      /\ Mine'.seq = sequence[Mine.log]
      /\ UNCHANGED <<Mine.op, Mine.entry>>
  BY <1>2, <1>3 DEF Call, Persisting, InMemory
<1>5. /\ v \in attempts[<<c, i>>] /\ sequence[Mine.log] = sequence[wal]
      /\ Mine.op = "delete" => v = None /\ InMemory(c)[i] = v
  BY <1>0, <1>2 DEF Inv, InCall, InWal, Mutating, BeforeMemory
<1>6. /\ InMemory(c)'[i] = v
      /\ \A j \in Ids : j # i => InMemory(c)'[j] = InMemory(c)[j]
      /\ InMemory(c)' # NoDocs => store'[c] # Absent
      /\ store[c] # Absent => store'[c] # Absent
  <2>1. CASE Mine.op = "delete"
    <3>1. store'[c] = store[c]
      BY <1>0, <1>3, <2>1 DEF DocsAfter, Mine
    <3>2. QED
      BY <1>5, <2>1, <3>1, MemoryTypes DEF Inv, InMemory
  <2>2. CASE Mine.op # "delete"
    <3>1. InMemory(c) \in Docs /\ store'[c] = [InMemory(c) EXCEPT ![i] = v]
      BY <1>0, <1>3, <2>2, MemoryTypes DEF Inv, DocsAfter, Mine, InMemory
    <3>2. store'[c] \in Docs
      BY <3>1 DEF Docs
    <3>3. InMemory(c)' = store'[c] /\ store'[c] # Absent
      BY <3>2, DocsStored DEF InMemory
    <3>4. QED
      BY <3>1, <3>3 DEF Docs
  <2>3. QED
    BY <2>1, <2>2
<1>7. \A d \in Collections : /\ OnDisk(d)' = OnDisk(d)
                             /\ d # c => InMemory(d)' = InMemory(d)
                             /\ d # c => (Synced(d)' <=> Synced(d))
  BY <1>2, <1>3 DEF OnDisk, InMemory, Synced, files
<1>8. Control'
  BY <1>2, <1>4 DEF Inv, Control, BeforeMemory, TypeInv, HasLog
<1>9. AtTarget'
  BY <1>0, <1>2, <1>4, <1>6 DEF AtTarget, AtFile
<1>10. InCall'
  BY <1>0, <1>2, <1>4, <1>5, <1>6 DEF InCall, Mutating, AtFile, FileDone, history
<1>11. InWal'
  BY <1>2, <1>4, <1>5 DEF InWal, Mutating, BeforeMemory, AtFile, FileDone
<1>12. InLog'
  BY <1>2 DEF Inv, InLog, Legible, files, history
<1>13. Allowed'
  <2>1. ASSUME NEW d \in Collections, NEW j \in Ids
        PROVE  /\ disk[d] # Torn => OnDisk(d)[j] \in May(<<d, j>>)
               /\ disk[d] = Torn /\ store'[d] = Absent => None \in May(<<d, j>>)
               /\ Encoded[InMemory(d)'[j]] \in May(<<d, j>>)
               /\ Encoded[OnDisk(d)[j]] = OnDisk(d)[j]
    <3>1. Encoded[InMemory(d)[j]] \in May(<<d, j>>) /\ Encoded[v] \in May(<<c, i>>)
      BY <1>2, <1>5 DEF Inv, Allowed, May
    <3>2. Encoded[InMemory(d)'[j]] \in May(<<d, j>>)
      BY <1>6, <1>7, <3>1
    <3>3. store'[d] = Absent => store[d] = Absent
      BY <1>3, <1>6
    <3>4. QED
      BY <3>2, <3>3 DEF Inv, Allowed
  <2>2. QED
    BY <1>2, <1>7, <2>1, SameMay DEF Allowed, files
<1>14. Opening' /\ Closing'
  BY <1>2, <1>4 DEF Opening, Closing, Mutations
<1>15. Quiet'
  BY <1>0, <1>2, <1>4, <1>7
     DEF Inv, Quiet, Mutating, AtFile, FileDone, files, history, Whole
<1>16. QED
  BY <1>1, <1>8, <1>9, <1>10, <1>11, <1>12, <1>13, <1>14, <1>15 DEF Inv

-----------------------------------------------------------------------------
(* commit and the end of a call.                                             *)

LEMMA LogSequences ==
  ASSUME OneCaller, Inv, isOpen, NEW k \in DOMAIN Readable(walFile)
  PROVE  Readable(walFile)[k].seq <= sequence[wal]
<1>1. walFile \in Seq(Entry \cup {Torn})
  BY DEF Inv, TypeInv, TypeOK, WalTypeOK
<1>2. k \in DOMAIN walFile /\ Legible(walFile, k) /\ Readable(walFile)[k] = walFile[k]
  BY <1>1, ReadableEntries
<1>3. QED
  BY <1>2 DEF Inv, InLog

\* Every entry commit finds has been committed by now: none is written back.
LEMMA StepCommitFilter ==
  ASSUME OneCaller, Inv, CommitFilter(Me)
  PROVE  Inv'
<1>1. TypeInv'
  BY TypeContinue, MineBecomes DEF Inv, Continue
<1>2. /\ Mine \in Call /\ Mine.pc = "commit_filter" /\ Mine.op \in Mutations /\ isOpen
      /\ Mine' = [Mine EXCEPT !.pc = "commit_open", !.batch = Remaining(@, Mine.seq)]
      /\ sequence' = [sequence EXCEPT ![Mine.log] = Bumped(@, Mine.batch)]
      /\ UNCHANGED <<store, isOpen, wal, files, history>>
  BY MineBecomes DEF Inv, CommitFilter, At, Mine, Control, Mutations
<1>3. /\ Mine'.pc = "commit_open" /\ Mine'.batch = Remaining(Mine.batch, Mine.seq)
      /\ UNCHANGED <<Mine.op, Mine.entry, Mine.seq, Mine.log, Mine.target>>
  BY <1>2 DEF Call
<1>4. /\ Mine.batch = Readable(walFile) /\ Mine.batch \in Seq(Entry)
      /\ Mine.seq = sequence[wal] /\ Mine.log = wal
      /\ wal \in 1..Handles /\ sequence[wal] \in Nat
  BY <1>2, HandlesAssumption
     DEF Inv, InWal, Mutating, FileDone, Call, TypeInv, TypeOK, WalTypeOK, HasLog, At, Mine
<1>5. \A k \in DOMAIN Mine.batch : Mine.batch[k].seq <= sequence[wal]
  BY <1>2, <1>4, LogSequences
<1>6. sequence' = sequence
  <2>1. Bumped(sequence[wal], Mine.batch) = sequence[wal]
    BY <1>4, <1>5, BumpedCounter
  <2>2. sequence' = [sequence EXCEPT ![wal] = sequence[wal]]
    BY <1>2, <1>4, <2>1
  <2>3. QED
    BY <2>2 DEF Inv, TypeInv, TypeOK, WalTypeOK
<1>7. Mine'.batch = << >>
  <2>0. \A k \in DOMAIN Mine.batch : Mine.batch[k] \in Entry
    BY <1>4
  <2>1. \A k \in DOMAIN Mine.batch : Mine.batch[k].seq \in Nat
    BY <2>0 DEF Entry
  <2>2. {k \in DOMAIN Mine.batch : Mine.batch[k].seq > Mine.seq} = {}
    BY <1>4, <1>5, <2>1
  <2>3. QED
    BY <1>3, <2>2, PickedNone DEF Remaining
<1>8. Control'
  BY <1>2, <1>3 DEF Inv, Control, BeforeMemory
<1>9. AtTarget' /\ Opening' /\ Closing'
  BY <1>2, <1>3 DEF AtTarget, Opening, Closing, AtFile, Mutations
<1>10. InCall'
  BY <1>2, <1>3, <1>6, OwnFrame DEF Inv, InCall, Mutating, AtFile, FileDone, files, history
<1>11. InWal'
  BY <1>2, <1>3, <1>4, <1>6, <1>7 DEF Inv, InWal, Mutating, BeforeMemory, AtFile, FileDone
<1>12. InLog' /\ Allowed'
  BY <1>2, <1>6, OwnFrame DEF Inv
<1>13. Quiet'
  BY <1>2, <1>3, <1>6, OwnFrame
     DEF Inv, Quiet, Mutating, AtFile, FileDone, files, Legible, history, Whole
<1>14. QED
  BY <1>1, <1>8, <1>9, <1>10, <1>11, <1>12, <1>13 DEF Inv

\* commit and close empty the log.
LEMMA StepEmptyLog ==
  ASSUME OneCaller, Inv, CommitOpen(Me) \/ Clear(Me)
  PROVE  Inv'
<1>1. TypeInv'
  BY TypeContinue, MineBecomes DEF Inv, Continue
<1> DEFINE step == IF Mine.pc = "clear" THEN "cleared" ELSE "committed"
<1>2. /\ Mine \in Call /\ Mine.pc \in {"clear", "commit_open"}
      /\ Mine' = [Mine EXCEPT !.pc = step]
      /\ walFile' = << >>
      /\ UNCHANGED <<store, isOpen, wal, sequence, disk, history>>
  <2>1. CASE CommitOpen(Me)
    <3>1. Mine.pc = "commit_open" /\ Mine.batch = << >>
      BY <2>1 DEF Inv, CommitOpen, At, Mine, Control, InWal, Mutating
    <3>2. QED
      BY <2>1, <3>1, MineBecomes DEF Inv, CommitOpen, Mine, memory
  <2>2. CASE Clear(Me)
    BY <2>2, MineBecomes DEF Inv, Clear, At, Mine, memory
  <2>3. QED
    BY <2>1, <2>2
<1>3. Mine'.pc = step /\ UNCHANGED <<Mine.op, Mine.entry, Mine.seq, Mine.log>>
  BY <1>2 DEF Call
<1>4. \A c \in Collections :
        /\ OnDisk(c)' = OnDisk(c) /\ InMemory(c)' = InMemory(c)
        /\ Synced(c)' <=> Synced(c)
        /\ Kept(c)' <=> Kept(c)
        /\ Reloaded(c)' <=> Reloaded(c)
  BY <1>2, OtherFiles DEF OnDisk, Synced, Kept, Reloaded, Whole, history
<1>5. Control' /\ AtTarget'
  BY <1>2, <1>3 DEF Inv, Control, AtTarget, BeforeMemory, AtFile
<1>6. InCall'
  BY <1>2, <1>3, <1>4 DEF Inv, Control, InCall, Mutating, Mutations, AtFile, FileDone, history
<1>7. InWal'
  BY <1>2, <1>3 DEF Inv, Control, InWal, Mutating, Mutations, BeforeMemory, AtFile, FileDone
<1>8. InLog'
  BY <1>2 DEF InLog
<1>9. Allowed'
  BY <1>2, <1>4, SameMay DEF Inv, Allowed
<1>10. Opening' /\ Closing'
  BY <1>2, <1>3, <1>4 DEF Inv, Control, Opening, Closing, AtFile, Mutations
<1>11. Quiet'
  BY <1>2, <1>3, <1>4 DEF Inv, Quiet, Mutating, AtFile, FileDone, Whole, history
<1>12. QED
  BY <1>1, <1>5, <1>6, <1>7, <1>8, <1>9, <1>10, <1>11 DEF Inv

\* The document has one value from here on.
LEMMA StepCommitted ==
  ASSUME OneCaller, Inv, Committed(Me)
  PROVE  Inv'
<1>1. TypeInv'
  BY TypeContinue, MineBecomes DEF Inv, Continue
<1>0. PICK c \in Collections, i \in Ids, v \in MaybeValue :
        c = Mine.entry.coll /\ i = Mine.entry.id /\ v = Mine.entry.val
  BY MineTypes
<1>2. /\ Mine \in Call /\ Mine.pc = "committed" /\ Mine.op \in Mutations /\ isOpen
      /\ Mine' = Idle /\ walFile = << >>
      /\ acked' = [acked EXCEPT ![c][i] = v]
      /\ attempts' = [attempts EXCEPT ![<<c, i>>] = {}]
      /\ forfeit' = forfeit \ {<<c, i>>}
      /\ UNCHANGED <<store, isOpen, wal, sequence, files>>
  BY <1>0, MineBecomes DEF Inv, Committed, At, Mine, Control, Mutations, InWal, Mutating
<1>3. Mine'.pc = "idle" /\ Mine'.op = "open"
  BY <1>2 DEF Idle
<1>4. disk[c] # Torn /\ Synced(c) /\ InMemory(c)[i] = v /\ wal # 0
  BY <1>0, <1>2 DEF Inv, InCall, Mutating, FileDone, TypeInv, HasLog, At, Mine
<1>5. \A d \in Collections :
        /\ OnDisk(d)' = OnDisk(d) /\ InMemory(d)' = InMemory(d)
        /\ Synced(d)' <=> Synced(d)
  BY <1>2 DEF OnDisk, InMemory, Synced, files
<1>6. /\ Encoded[v] \in May(<<c, i>>)'
      /\ \A d \in Documents : d # <<c, i>> => May(d)' = May(d)
  <2>1. acked'[c][i] = v /\ \A d \in Documents : d # <<c, i>> => acked'[d[1]][d[2]] = acked[d[1]][d[2]]
    BY <1>2 DEF Inv, TypeInv, TypeOK, Docs, Documents
  <2>2. \A d \in Documents : d # <<c, i>> => attempts'[d] = attempts[d]
    BY <1>2 DEF Inv, TypeInv, TypeOK
  <2>3. QED
    BY <1>2, <2>1, <2>2 DEF May
<1>7. OnDisk(c)[i] = Encoded[v]
  BY <1>4, MemoryTypes, DocsStored DEF Inv, Synced
<1>8. Control' /\ AtTarget' /\ InCall' /\ InWal' /\ InLog' /\ Opening' /\ Closing'
  BY <1>2, <1>3, <1>4 DEF Control, AtTarget, InCall, InWal, InLog, Opening, Closing,
                          BeforeMemory, AtFile, Mutating, files
<1>9. Allowed'
  <2>1. ASSUME NEW d \in Collections, NEW j \in Ids
        PROVE  /\ disk[d] # Torn => OnDisk(d)[j] \in May(<<d, j>>)'
               /\ disk[d] = Torn /\ store[d] = Absent => None \in May(<<d, j>>)'
               /\ Encoded[InMemory(d)[j]] \in May(<<d, j>>)'
               /\ Encoded[OnDisk(d)[j]] = OnDisk(d)[j]
    <3>1. CASE <<d, j>> = <<c, i>>
      BY <1>4, <1>6, <1>7, <3>1 DEF Inv, Allowed
    <3>2. CASE <<d, j>> # <<c, i>>
      BY <1>2, <1>6, <3>2 DEF Inv, Allowed, Documents
    <3>3. QED
      BY <3>1, <3>2
  <2>2. QED
    BY <1>2, <1>5, <2>1 DEF Allowed, files
<1>10. Quiet'
  <2>1. \A d \in Collections : d # c /\ Whole(d) \subseteq forfeit => Whole(d) \subseteq forfeit'
    BY <1>2 DEF Whole
  <2>2. QED
    BY <1>0, <1>2, <1>3, <1>4, <1>5, <2>1
       DEF Inv, Quiet, Mutating, AtFile, FileDone, files, Whole
<1>11. QED
  BY <1>1, <1>8, <1>9, <1>10 DEF Inv

-----------------------------------------------------------------------------
(* Opening, closing, compacting.                                             *)

\* What an open that is done shows becomes the value of the documents.
LEMMA OpenedAllowed ==
  ASSUME OneCaller, Inv, Opened, ~Mutating, UNCHANGED <<store, disk>>,
         \A c \in Collections : Reloaded(c)
  PROVE  Allowed'
<1>1. UNCHANGED forfeit /\ Shown = {d \in Documents : attempts[d] # {} /\ d \notin forfeit}
  BY MineBecomes DEF Inv, Opened, Shown, Mutating, Mutations, Mine, At
<1>2. ASSUME NEW c \in Collections, NEW i \in Ids
      PROVE  /\ disk[c] # Torn => OnDisk(c)[i] \in May(<<c, i>>)'
             /\ disk[c] = Torn /\ store[c] = Absent => None \in May(<<c, i>>)'
             /\ Encoded[InMemory(c)[i]] \in May(<<c, i>>)'
             /\ Encoded[OnDisk(c)[i]] = OnDisk(c)[i]
  <2>1. /\ OnDisk(c)[i] = Encoded[InMemory(c)[i]] \/ (Whole(c) \subseteq forfeit)
        /\ store[c] = Absent => Encoded[InMemory(c)[i]] = None
    <3>1. InMemory(c) \in Docs
      BY MemoryTypes DEF Inv
    <3>2. store[c] = Absent => Encoded[InMemory(c)[i]] = None
      BY MemoryTypes, NoDocsStored, EncodedAssumption DEF Inv
    <3>3. Synced(c) => OnDisk(c)[i] = Encoded[InMemory(c)[i]]
      BY <3>1, DocsStored DEF Synced
    <3>4. QED
      BY <3>2, <3>3 DEF Reloaded
  <2>2. Encoded[OnDisk(c)[i]] = OnDisk(c)[i]
    BY DEF Inv, Allowed
  <2>3. CASE <<c, i>> \in Shown
    <3>1. acked'[c][i] = InMemory(c)[i] /\ <<c, i>> \notin forfeit
      BY <1>1, <2>3 DEF Opened, InMemory
    <3>2. Encoded[InMemory(c)[i]] \in May(<<c, i>>)'
      BY <3>1 DEF May
    <3>3. OnDisk(c)[i] = Encoded[InMemory(c)[i]]
      BY <2>1, <3>1 DEF Whole
    <3>4. QED
      BY <2>1, <2>2, <3>2, <3>3
  <2>4. CASE <<c, i>> \notin Shown
    <3>1. acked'[c][i] = acked[c][i] /\ attempts'[<<c, i>>] = attempts[<<c, i>>]
      BY <2>4 DEF Opened, Documents
    <3>2. May(<<c, i>>)' = May(<<c, i>>)
      BY <1>1, <3>1 DEF May
    <3>3. Whole(c) \subseteq forfeit => None \in May(<<c, i>>)
      BY DEF Whole, May
    <3>4. /\ disk[c] # Torn => OnDisk(c)[i] \in May(<<c, i>>)
          /\ disk[c] = Torn /\ store[c] = Absent => None \in May(<<c, i>>)
          /\ store[c] # Absent => Encoded[InMemory(c)[i]] \in May(<<c, i>>)
      BY DEF Inv, Allowed
    <3>5. store[c] = Absent => Encoded[InMemory(c)[i]] \in May(<<c, i>>)
      BY <2>1, <3>3, <3>4
    <3>6. QED
      BY <2>2, <3>2, <3>4, <3>5
  <2>5. QED
    BY <2>3, <2>4
<1>3. \A c \in Collections : OnDisk(c)' = OnDisk(c) /\ InMemory(c)' = InMemory(c)
  BY SameDocs
<1>4. QED
  BY <1>2, <1>3 DEF Allowed

LEMMA StepOpened ==
  ASSUME OneCaller, Inv, Mine.op = "open", Mine.pc \in {"next", "replay"}, Mine' = Idle,
         Opened, UNCHANGED <<store, files, wal>>, \A c \in Collections : Reloaded(c),
         \A k \in DOMAIN walFile : ~Legible(walFile, k), TypeInv'
  PROVE  Inv'
<1>1. /\ Mine'.pc = "idle" /\ Mine'.op = "open" /\ isOpen' /\ wal # 0
      /\ UNCHANGED <<disk, walFile, forfeit>> /\ ~Mutating
  BY MineBecomes DEF Inv, Idle, Opened, files, TypeInv, HasLog, At, Mine, Mutating, Mutations
<1>2. \A c \in Collections : Synced(c)' <=> Synced(c)
  BY <1>1, SameDocs
<1>3. Control' /\ AtTarget' /\ InCall' /\ InWal' /\ InLog' /\ Opening' /\ Closing'
  BY <1>1 DEF Control, AtTarget, InCall, InWal, InLog, Opening, Closing, Legible,
              BeforeMemory, AtFile, Mutating
<1>4. Allowed'
  BY <1>1, OpenedAllowed
<1>5. Quiet'
  BY <1>1, <1>2 DEF Inv, Quiet, Mutating, AtFile, Legible, Reloaded, Whole
<1>6. QED
  BY <1>3, <1>4, <1>5 DEF Inv

LEMMA StepLoopDone ==
  ASSUME OneCaller, Inv, LoopDone(Me)
  PROVE  Inv'
<1>1. TypeInv'
  BY TypeContinue, MineBecomes DEF Inv, Continue
<1>2. /\ Mine \in Call /\ Mine.pc = "next" /\ Mine.todo = {} /\ wal # 0
      /\ UNCHANGED <<store, wal, sequence, files>>
  BY MineBecomes DEF Inv, LoopDone, At, Mine, TypeInv, HasLog
<1>3. CASE Mine.op = "open"
  <2>1. Opened /\ Mine' = Idle
    BY <1>3, MineBecomes DEF Inv, LoopDone, Mine
  <2>2. walFile = << >> /\ \A c \in Collections : Reloaded(c)
    BY <1>2, <1>3 DEF Inv, Opening, AtFile
  <2>3. QED
    BY <1>1, <1>2, <1>3, <2>1, <2>2, StepOpened
<1>4. CASE Mine.op # "open"
  <2>1. /\ UNCHANGED <<isOpen, history>> /\ Mine.op \in {"close", "compact"}
        /\ \/ Mine' = [Mine EXCEPT !.pc = "clear", !.log = wal] /\ Mine.op = "close"
           \/ Mine' = Idle /\ Mine.op = "compact"
    BY <1>4, MineBecomes DEF Inv, LoopDone, Mine
  <2>2. \/ Mine'.pc = "clear" /\ Mine.op = "close" /\ Mine'.op = "close"
        \/ Mine'.pc = "idle" /\ Mine'.op = "open"
    <3>1. Idle.pc = "idle" /\ Idle.op = "open"
      BY DEF Idle
    <3>2. /\ [Mine EXCEPT !.pc = "clear", !.log = wal].pc = "clear"
          /\ [Mine EXCEPT !.pc = "clear", !.log = wal].op = Mine.op
      BY <1>2 DEF Call
    <3>3. QED
      BY <2>1, <3>1, <3>2
  <2>3. isOpen
    BY <1>2, <1>4 DEF Inv, Control
  <2>4. Control' /\ AtTarget' /\ InCall' /\ InWal' /\ Opening'
    BY <1>2, <2>1, <2>2, <2>3
       DEF Control, AtTarget, InCall, InWal, Opening, BeforeMemory, AtFile, Mutating, Mutations
  <2>5. InLog' /\ Allowed'
    BY <1>2, <2>1, OwnFrame DEF Inv
  <2>6. Closing'
    BY <1>2, <2>1, <2>2, OwnFrame DEF Inv, Closing, AtFile
  <2>7. Quiet'
    BY <1>2, <2>1, <2>2, OwnFrame
       DEF Inv, Quiet, Mutating, Mutations, AtFile, FileDone, files, Legible, history, Whole
  <2>8. QED
    BY <1>1, <2>4, <2>5, <2>6, <2>7 DEF Inv
<1>5. QED
  BY <1>3, <1>4

\* compact forgets an empty collection and has its file removed.
LEMMA StepCompactNext ==
  ASSUME OneCaller, Inv, CompactNext(Me)
  PROVE  Inv'
<1>1. TypeInv'
  BY TypeContinue, MineBecomes DEF Inv, Continue
<1>2. PICK c \in Mine.todo :
        LET now == [Mine EXCEPT !.todo = @ \ {c}]
        IN  /\ Become(Me, IF store[c] = Absent THEN now ELSE Persisting(now, c, store[c]))
            /\ store' = IF store[c] = NoDocs THEN [store EXCEPT ![c] = Absent] ELSE store
  BY DEF CompactNext, Mine
<1> DEFINE now == [Mine EXCEPT !.todo = @ \ {c}]
<1>3. /\ Mine \in Call /\ c \in Collections /\ Mine.pc = "next" /\ Mine.op = "compact" /\ isOpen
      /\ Mine' = IF store[c] = Absent THEN now ELSE Persisting(now, c, store[c])
      /\ UNCHANGED <<isOpen, wal, sequence, files, history>> /\ wal # 0
  BY <1>2, MineBecomes, MineTypes
     DEF Inv, CompactNext, At, Mine, Control, TypeInv, HasLog
<1>4. \/ Mine'.pc = "next" /\ Mine'.op = "compact"
      \/ /\ Mine'.pc = IF InMemory(c) = NoDocs THEN "unlink_test" ELSE "truncate"
         /\ Mine'.target = c /\ Mine'.image = Stored(InMemory(c)) /\ Mine'.op = "compact"
  BY <1>3 DEF Call, Persisting, InMemory
<1>5. \A d \in Collections :
        /\ InMemory(d)' = InMemory(d)
        /\ store'[d] = store[d] \/ (store'[d] = Absent /\ InMemory(d) = NoDocs)
  BY <1>2, <1>3, MemoryTypes, NoDocsStored DEF Inv, TypeInv, TypeOK, InMemory
<1>6. \A d \in Collections : OnDisk(d)' = OnDisk(d) /\ (Synced(d)' <=> Synced(d))
  BY <1>3, <1>5 DEF OnDisk, Synced, files
<1>7. Control'
  BY <1>3, <1>4 DEF Control, BeforeMemory
<1>8. AtTarget'
  BY <1>3, <1>4, <1>5, MemoryTypes DEF Inv, AtTarget, AtFile, Mutations
<1>9. InCall' /\ InWal' /\ Opening' /\ Closing'
  BY <1>3, <1>4 DEF InCall, InWal, Opening, Closing, Mutating, Mutations
<1>10. InLog'
  BY <1>3 DEF Inv, InLog, Legible, files, history
<1>11. Allowed'
  <2>1. ASSUME NEW d \in Collections, NEW j \in Ids
        PROVE  /\ disk[d] # Torn => OnDisk(d)[j] \in May(<<d, j>>)
               /\ disk[d] = Torn /\ store'[d] = Absent => None \in May(<<d, j>>)
               /\ Encoded[InMemory(d)[j]] \in May(<<d, j>>)
               /\ Encoded[OnDisk(d)[j]] = OnDisk(d)[j]
    <3>1. Encoded[InMemory(d)[j]] \in May(<<d, j>>)
      BY <1>3 DEF Inv, Allowed
    <3>2. store'[d] = Absent => store[d] = Absent \/ None \in May(<<d, j>>)
      BY <1>5, <3>1, NoDocsStored, EncodedAssumption
    <3>3. QED
      BY <3>1, <3>2 DEF Inv, Allowed
  <2>2. QED
    BY <1>3, <1>5, <1>6, <2>1, SameMay DEF Allowed, files
<1>12. Quiet'
  BY <1>3, <1>4, <1>6
     DEF Inv, Quiet, Mutating, Mutations, AtFile, files, Legible, history, Whole
<1>13. QED
  BY <1>1, <1>7, <1>8, <1>9, <1>10, <1>11, <1>12 DEF Inv

LEMMA StepClosed ==
  ASSUME OneCaller, Inv, ClosedCleared(Me)
  PROVE  Inv'
<1>1. TypeInv'
  BY TypeContinue, MineBecomes DEF Inv, Continue
<1>2. /\ Mine.pc = "cleared" /\ Mine.op = "close" /\ Mine' = Idle /\ isOpen' = FALSE /\ isOpen
      /\ UNCHANGED <<store, wal, files, history>> /\ wal # 0
  BY MineBecomes DEF Inv, ClosedCleared, At, Mine, Control, TypeInv, HasLog
<1>3. Mine'.pc = "idle" /\ Mine'.op = "open"
  BY <1>2 DEF Idle
<1>4. \A c \in Collections :
        /\ OnDisk(c)' = OnDisk(c) /\ InMemory(c)' = InMemory(c)
        /\ Kept(c)' <=> Kept(c)
  BY <1>2, SameDocs DEF files
<1>5. Control' /\ AtTarget' /\ InCall' /\ InWal'
  BY <1>2, <1>3 DEF Control, AtTarget, InCall, InWal, BeforeMemory, AtFile, Mutating
<1>6. InLog'
  BY <1>2 DEF Inv, InLog, Legible, files, history
<1>7. Allowed'
  BY <1>2, <1>4, SameMay DEF Inv, Allowed, files
<1>8. Opening' /\ Closing'
  BY <1>2, <1>3, <1>4 DEF Inv, Opening, Closing, AtFile
<1>9. Quiet'
  BY <1>2, <1>3 DEF Inv, Quiet, files, history, Whole
<1>10. QED
  BY <1>1, <1>5, <1>6, <1>7, <1>8, <1>9 DEF Inv

\* Recovery persists every collection memory has.
LEMMA StepReplayedCleared ==
  ASSUME OneCaller, Inv, ReplayedCleared(Me)
  PROVE  Inv'
<1>1. TypeInv'
  BY TypeContinue, MineBecomes DEF Inv, Continue
<1>2. /\ Mine \in Call /\ Mine.pc = "cleared" /\ Mine.op = "open" /\ ~isOpen
      /\ Mine' = [Mine EXCEPT !.pc = "next", !.todo = Keys]
      /\ UNCHANGED <<store, isOpen, wal, files, history>> /\ wal # 0
  BY MineBecomes DEF Inv, ReplayedCleared, At, Mine, Control, TypeInv, HasLog
<1>3. Mine'.pc = "next" /\ Mine'.todo = Keys /\ Mine'.op = "open"
  BY <1>2 DEF Call
<1>4. \A c \in Collections :
        /\ OnDisk(c)' = OnDisk(c) /\ InMemory(c)' = InMemory(c)
        /\ Reloaded(c)' <=> Reloaded(c)
  BY <1>2, OtherFiles DEF files, history, Reloaded, Synced, OnDisk, Whole
<1>5. Control' /\ AtTarget' /\ InCall' /\ InWal' /\ Closing'
  BY <1>2, <1>3 DEF Control, AtTarget, InCall, InWal, Closing, BeforeMemory, AtFile,
                    Mutating, Mutations
<1>6. InLog'
  BY <1>2 DEF Inv, InLog, Legible, files, history
<1>7. Allowed'
  BY <1>2, <1>4, SameMay DEF Inv, Allowed, files
<1>8. Opening'
  BY <1>2, <1>3, <1>4 DEF Inv, Opening, AtFile, files, Keys
<1>9. Quiet'
  BY <1>2, <1>3 DEF Inv, Quiet, files, history, Whole
<1>10. QED
  BY <1>1, <1>5, <1>6, <1>7, <1>8, <1>9 DEF Inv

LEMMA StepOpen ==
  ASSUME OneCaller, Inv, Open(Me)
  PROVE  Inv'
<1>1. TypeInv'
  BY TypeStart, MineBecomes DEF Inv, Start
<1>2. /\ Mine.pc = "idle" /\ ~isOpen /\ wal < Handles /\ wal' = wal + 1 /\ wal' # 0
      /\ Mine' = [Idle EXCEPT !.pc = "load", !.op = "open", !.log = wal + 1,
                              !.todo = Collections]
      /\ UNCHANGED <<store, isOpen, files, history>>
  BY MineBecomes, HandlesAssumption DEF Inv, Open, At, Mine, TypeInv, TypeOK
<1>3. Mine'.pc = "load" /\ Mine'.todo = Collections /\ Mine'.op = "open"
  BY <1>2 DEF Idle
<1>4. \A c \in Collections :
        /\ OnDisk(c)' = OnDisk(c) /\ InMemory(c)' = InMemory(c)
        /\ Kept(c)' <=> Kept(c)
  BY <1>2, SameDocs DEF files
<1>5. Control' /\ AtTarget' /\ InCall' /\ InWal' /\ Closing'
  BY <1>2, <1>3 DEF Control, AtTarget, InCall, InWal, Closing, BeforeMemory, AtFile,
                    Mutating, Mutations
<1>6. InLog'
  BY <1>2 DEF Inv, InLog, Legible, files, history
<1>7. Allowed'
  BY <1>2, <1>4, SameMay DEF Inv, Allowed, files
<1>8. Opening'
  BY <1>2, <1>3, <1>4 DEF Inv, Opening, AtFile
<1>9. Quiet'
  BY <1>2, <1>3 DEF Inv, Quiet, files, history, Whole
<1>10. QED
  BY <1>1, <1>5, <1>6, <1>7, <1>8, <1>9 DEF Inv

\* What was read is in memory now, or memory had it, or the file is lost.
LEMMA StepLoaded ==
  ASSUME OneCaller, Inv, Loaded(Me)
  PROVE  Inv'
<1>1. TypeInv'
  BY TypeContinue, MineBecomes DEF Inv, Continue
<1>0. PICK c \in Collections : c = Mine.target
  BY MineTypes
<1> DEFINE step == IF Mine.todo = {} THEN "recover_read" ELSE "load"
<1>2. /\ Mine \in Call /\ Mine.pc = "loaded" /\ Mine.op = "open" /\ ~isOpen
      /\ Mine' = [Mine EXCEPT !.pc = step]
      /\ store' = IF Mine.image \in {Absent, Torn} THEN store
                  ELSE [store EXCEPT ![c] = Mine.image]
      /\ UNCHANGED <<isOpen, wal, sequence, files, history>> /\ wal # 0
  BY <1>0, MineBecomes DEF Inv, Loaded, At, Mine, Control, TypeInv, HasLog
<1>3. Mine'.pc = step /\ UNCHANGED <<Mine.op, Mine.entry, Mine.todo>>
  BY <1>2 DEF Call
<1>4. \A d \in Collections : d # c => store'[d] = store[d]
  BY <1>2 DEF Inv, TypeInv, TypeOK
<1>5. \A d \in Collections :
        /\ OnDisk(d)' = OnDisk(d)
        /\ d # c => /\ InMemory(d)' = InMemory(d)
                    /\ Synced(d)' <=> Synced(d)
                    /\ Kept(d)' <=> Kept(d)
                    /\ Reloaded(d)' <=> Reloaded(d)
  BY <1>2, <1>4 DEF OnDisk, InMemory, Synced, Kept, Reloaded, Whole, files, history
<1>6. /\ Reloaded(c)'
      /\ store'[c] = store[c] \/ (disk[c] # Torn /\ InMemory(c)' = OnDisk(c))
  <2>1. /\ Kept(c)
        /\ \/ Mine.image = disk[c]
           \/ Mine.image = Torn /\ "io" \in Faults /\ Whole(c) \subseteq forfeit
    BY <1>0, <1>2 DEF Inv, Opening
  <2>2. CASE Mine.image \in Docs
    <3>1. Mine.image = disk[c] /\ disk[c] \in Docs /\ disk[c] # Torn /\ disk[c] # Absent
      BY <2>1, <2>2, AbsentAssumption
    <3>2. store'[c] = disk[c]
      BY <1>2, <3>1 DEF Inv, TypeInv, TypeOK
    <3>3. OnDisk(c) = disk[c] /\ InMemory(c)' = disk[c] /\ Stored(disk[c]) = disk[c]
      <4>1. OnDisk(c) = disk[c]
        BY <3>1 DEF OnDisk, DocsOf
      <4>2. InMemory(c)' = disk[c]
        BY <3>1, <3>2 DEF InMemory, DocsOf
      <4>3. \A i \in Ids : Encoded[disk[c][i]] = disk[c][i]
        BY <4>1 DEF Inv, Allowed
      <4>4. QED
        BY <3>1, <4>1, <4>2, <4>3, DocsStored
    <3>4. Synced(c)'
      BY <1>5, <3>3 DEF Synced
    <3>5. QED
      BY <3>1, <3>3, <3>4 DEF Reloaded
  <2>3. CASE Mine.image \notin Docs
    <3>1. store' = store /\ Mine.image \in {Absent, Torn}
      BY <1>2, <2>3, MineBecomes DEF Inv, Call
    <3>2. disk[c] \in {Absent, Torn} => Synced(c)
      BY <2>1, MemoryTypes, NoDocsStored, AbsentAssumption DEF Inv, Kept, Synced
    <3>3. Synced(c) => Synced(c)'
      BY <1>2, <3>1, SameDocs DEF files
    <3>4. QED
      BY <1>2, <2>1, <3>1, <3>2, <3>3 DEF Reloaded, Whole, history
  <2>4. QED
    BY <2>2, <2>3
<1>7. Control' /\ AtTarget' /\ InCall' /\ InWal' /\ Closing'
  BY <1>2, <1>3 DEF Control, AtTarget, InCall, InWal, Closing, BeforeMemory, AtFile,
                    Mutating, Mutations
<1>8. InLog'
  BY <1>2 DEF Inv, InLog, Legible, files, history
<1>9. Allowed'
  <2>1. ASSUME NEW d \in Collections, NEW j \in Ids
        PROVE  /\ disk[d] # Torn => OnDisk(d)[j] \in May(<<d, j>>)
               /\ disk[d] = Torn /\ store'[d] = Absent => None \in May(<<d, j>>)
               /\ store'[d] # Absent => Encoded[InMemory(d)'[j]] \in May(<<d, j>>)
               /\ Encoded[OnDisk(d)[j]] = OnDisk(d)[j]
    <3>1. CASE store'[d] = store[d]
      BY <3>1 DEF Inv, Allowed, InMemory
    <3>2. CASE store'[d] # store[d]
      BY <1>4, <1>6, <3>2 DEF Inv, Allowed
    <3>3. QED
      BY <3>1, <3>2
  <2>2. QED
    BY <1>2, <1>5, <2>1, SameMay DEF Allowed, files
<1>10. Opening'
  BY <1>0, <1>2, <1>3, <1>5, <1>6 DEF Inv, Opening, AtFile, files
<1>11. Quiet'
  BY <1>2, <1>3 DEF Inv, Quiet, files, history, Whole
<1>12. QED
  BY <1>1, <1>7, <1>8, <1>9, <1>10, <1>11 DEF Inv

\* What is replayed are values of calls that may still show.
LEMMA StepReplay ==
  ASSUME OneCaller, Inv, Replay(Me)
  PROVE  Inv'
<1>1. TypeInv'
  BY TypeContinue, MineBecomes DEF Inv, Continue
<1>0. PICK entries \in Seq(Entry) : entries = Mine.batch
  BY MineBecomes DEF Inv, Call
<1>2. /\ Mine \in Call /\ Mine.pc = "replay" /\ Mine.op = "open" /\ ~isOpen
      /\ entries = Readable(walFile) /\ walFile \in Seq(Entry \cup {Torn})
      /\ \A c \in Collections : Reloaded(c)
      /\ store' = [c \in Collections |->
                     IF c \in Touched(entries)
                     THEN Replayed(DocsOf(store[c]), entries, c)
                     ELSE store[c]]
      /\ IF entries = << >> THEN Mine' = Idle /\ Opened
                            ELSE /\ Mine' = [Mine EXCEPT !.pc = "clear"]
                                 /\ UNCHANGED <<isOpen, history>>
      /\ UNCHANGED <<wal, files>> /\ wal # 0
  BY <1>0, MineBecomes
     DEF Inv, Replay, At, Mine, Control, Opening, TypeInv, TypeOK, WalTypeOK, HasLog
<1>3. CASE entries = << >>
  <2>1. \A k \in DOMAIN walFile : ~Legible(walFile, k)
    <3>1. DOMAIN Readable(walFile) = {}
      BY <1>2, <1>3
    <3>2. QED
      BY <1>2, <3>1, ReadableEntries
  <2>2. UNCHANGED store
    BY <1>2, <1>3 DEF Touched, Inv, TypeInv, TypeOK
  <2>3. QED
    BY <1>1, <1>2, <1>3, <2>1, <2>2, StepOpened
<1>4. CASE entries # << >>
  <2>1. /\ Mine'.pc = "clear" /\ Mine'.op = "open"
        /\ UNCHANGED <<isOpen, history, disk, walFile>>
    BY <1>2, <1>4 DEF Call, files
  <2>2. \A c \in Collections : OnDisk(c)' = OnDisk(c)
    BY <2>1 DEF OnDisk
  <2>3. Control' /\ AtTarget' /\ InCall' /\ InWal' /\ Closing'
    BY <1>2, <2>1 DEF Control, AtTarget, InCall, InWal, Closing, BeforeMemory, AtFile,
                      Mutating, Mutations
  <2>4. InLog'
    BY <1>2, <2>1 DEF Inv, InLog, Legible, history
  <2>5. ASSUME NEW c \in Collections, NEW i \in Ids
        PROVE  Encoded[InMemory(c)[i]] \in May(<<c, i>>)
    <3>1. store[c] # Absent => Encoded[InMemory(c)[i]] \in May(<<c, i>>)
      BY DEF Inv, Allowed
    <3>2. CASE store[c] = Absent
      <4>1. InMemory(c) = NoDocs /\ Encoded[InMemory(c)[i]] = None
        BY <3>2, MemoryTypes, NoDocsStored, EncodedAssumption DEF Inv
      <4>2. CASE Whole(c) \subseteq forfeit
        BY <4>1, <4>2 DEF Whole, May
      <4>3. CASE Synced(c)
        <5>1. OnDisk(c)[i] = None
          BY <4>1, <4>3, NoDocsStored DEF Synced
        <5>2. QED
          BY <3>2, <4>1, <5>1 DEF Inv, Allowed
      <4>4. QED
        BY <1>2, <4>2, <4>3 DEF Reloaded
    <3>3. QED
      BY <3>1, <3>2
  <2>6. ASSUME NEW c \in Collections, NEW i \in Ids, c \in Touched(entries)
        PROVE  Encoded[InMemory(c)'[i]] \in May(<<c, i>>)
    <3> DEFINE docs == Replayed(InMemory(c), entries, c)
    <3>1. InMemory(c) \in [Ids -> MaybeValue]
      BY MemoryTypes DEF Inv, Docs
    <3>a. docs \in [Ids -> MaybeValue]
      BY <1>0, <3>1, ReplayedDocs
    <3>b. \/ docs[i] = InMemory(c)[i]
          \/ \E k \in DOMAIN entries : /\ entries[k].coll = c /\ entries[k].id = i
                                       /\ docs[i] = Encoded[entries[k].val]
      BY <1>0, <3>1, ReplayedDocs
    <3>2. docs \in Docs
      BY <3>a DEF Docs
    <3>3. store'[c] = docs /\ InMemory(c)' = docs
      BY <1>2, <2>6, <3>2, DocsStored DEF InMemory
    <3> HIDE DEF docs
    <3>4. CASE docs[i] = InMemory(c)[i]
      BY <2>5, <3>3, <3>4
    <3>5. CASE docs[i] # InMemory(c)[i]
      <4>1. PICK k \in DOMAIN entries : /\ entries[k].coll = c /\ entries[k].id = i
                                        /\ docs[i] = Encoded[entries[k].val]
        BY <3>b, <3>5
      <4>2. k \in DOMAIN walFile /\ Legible(walFile, k) /\ entries[k] = walFile[k]
        BY <1>2, ReadableEntries
      <4>3. entries[k].val \in attempts[<<c, i>>] /\ entries[k].val \in MaybeValue
        BY <4>1, <4>2, LegibleEntry DEF Inv, InLog
      <4>4. Encoded[docs[i]] = Encoded[entries[k].val]
        BY <4>1, <4>3, EncodedTwice
      <4>5. QED
        BY <3>3, <4>3, <4>4 DEF May
    <3>6. QED
      BY <3>4, <3>5
  <2>7. \A c \in Collections : c \notin Touched(entries) =>
          store'[c] = store[c] /\ InMemory(c)' = InMemory(c) /\ (Reloaded(c)' <=> Reloaded(c))
    BY <1>2, <2>1 DEF InMemory, OnDisk, Synced, Reloaded, Whole, history
  <2>8. \A c \in Collections : c \in Touched(entries) => store'[c] \in Docs /\ store'[c] # Absent
    <3>1. ASSUME NEW c \in Collections, c \in Touched(entries)
          PROVE  store'[c] \in Docs
      BY <1>0, <1>2, <3>1, ReplayedDocs, MemoryTypes DEF Inv, InMemory, Docs
    <3>2. QED
      BY <3>1, AbsentAssumption
  <2>9. Allowed'
    <3>1. ASSUME NEW d \in Collections, NEW j \in Ids
          PROVE  /\ disk[d] # Torn => OnDisk(d)[j] \in May(<<d, j>>)
                 /\ disk[d] = Torn /\ store'[d] = Absent => None \in May(<<d, j>>)
                 /\ Encoded[InMemory(d)'[j]] \in May(<<d, j>>)
                 /\ Encoded[OnDisk(d)[j]] = OnDisk(d)[j]
      <4>1. CASE d \in Touched(entries)
        BY <2>6, <2>8, <4>1 DEF Inv, Allowed
      <4>2. CASE d \notin Touched(entries)
        BY <2>5, <2>7, <4>2 DEF Inv, Allowed
      <4>3. QED
        BY <4>1, <4>2
    <3>2. QED
      BY <2>1, <2>2, <3>1, SameMay DEF Allowed
  <2>10. Opening'
    BY <1>2, <2>1, <2>7, <2>8 DEF Opening, AtFile
  <2>11. Quiet'
    BY <1>2, <2>1 DEF Inv, Quiet, history, Whole
  <2>12. QED
    BY <1>1, <2>3, <2>4, <2>9, <2>10, <2>11 DEF Inv
<1>5. QED
  BY <1>3, <1>4

-----------------------------------------------------------------------------
(* The environment, and steps that concern none of it.                       *)

LEMMA StepElsewhere ==
  ASSUME Inv, TypeInv',
         UNCHANGED <<store, isOpen, wal, sequence, files, history, call>>
  PROVE  Inv'
<1>1. Mine' = Mine
  BY DEF Mine
<1>2. Control' /\ AtTarget'
  BY <1>1, OwnFrame DEF Inv, Control, AtTarget, BeforeMemory, AtFile, files
<1>3. InCall' /\ InWal'
  BY <1>1, OwnFrame
     DEF Inv, InCall, InWal, Mutating, BeforeMemory, AtFile, FileDone, files, history
<1>4. InLog' /\ Allowed'
  BY OwnFrame DEF Inv
<1>5. Opening' /\ Closing'
  BY <1>1, OwnFrame DEF Inv, Opening, Closing, AtFile, Whole, files, history
<1>6. Quiet'
  BY <1>1, OwnFrame
     DEF Inv, Quiet, Mutating, AtFile, FileDone, Legible, Whole, files, history
<1>7. QED
  BY <1>2, <1>3, <1>4, <1>5, <1>6 DEF Inv

\* A delete that finds nothing: what its document may show does not shrink.
LEMMA StepMissing ==
  ASSUME Inv, TypeInv', Me \in Tasks, NEW c0 \in Collections, NEW i0 \in Ids,
         DeleteMissing(Me, c0, i0)
  PROVE  Inv'
<1>0. TypeInv
  BY DEF Inv
<1>1. UNCHANGED <<store, isOpen, wal, sequence, files, call, forfeit>>
  BY <1>0, Missing DEF memory
<1>d. /\ acked'[c0][i0] = None
      /\ attempts'[<<c0, i0>>] = attempts[<<c0, i0>>] \cup ({acked[c0][i0]} \ {None})
      /\ \A e \in Collections, j \in Ids : <<e, j>> # <<c0, i0>> =>
           acked'[e][j] = acked[e][j] /\ attempts'[<<e, j>>] = attempts[<<e, j>>]
  <2>1. InDoubt(c0, i0)
    BY <1>0, Missing
  <2>2. QED
    BY <2>1 DEF InDoubt
<1>2. \A c \in Collections, i \in Ids :
        /\ attempts[<<c, i>>] \subseteq attempts'[<<c, i>>]
        /\ May(<<c, i>>) \subseteq May(<<c, i>>)'
  <2>1. SUFFICES ASSUME NEW c \in Collections, NEW i \in Ids
                 PROVE  /\ attempts[<<c, i>>] \subseteq attempts'[<<c, i>>]
                        /\ May(<<c, i>>) \subseteq May(<<c, i>>)'
    OBVIOUS
  <2>2. CASE <<c, i>> = <<c0, i0>>
    <3>1. /\ acked'[c][i] = None
          /\ attempts'[<<c, i>>] = attempts[<<c, i>>] \cup ({acked[c][i]} \ {None})
      <4>1. c = c0 /\ i = i0
        BY <2>2
      <4>2. QED
        BY <1>d, <4>1
    <3>2. attempts[<<c, i>>] \cup {acked[c][i]} \subseteq attempts'[<<c, i>>] \cup {acked'[c][i]}
      BY <3>1
    <3>3. QED
      BY <1>1, <3>1, <3>2, MayOf
  <2>3. CASE <<c, i>> # <<c0, i0>>
    <3>1. acked'[c][i] = acked[c][i] /\ attempts'[<<c, i>>] = attempts[<<c, i>>]
      BY <1>d, <2>3
    <3>2. QED
      BY <1>1, <3>1, MayOf
  <2>4. QED
    BY <2>2, <2>3
<1>3. Mine' = Mine /\ \A c \in Collections :
        /\ OnDisk(c)' = OnDisk(c) /\ InMemory(c)' = InMemory(c)
        /\ Synced(c)' <=> Synced(c)
        /\ Kept(c)' <=> Kept(c)
        /\ Reloaded(c)' <=> Reloaded(c)
  BY <1>1 DEF Mine, OnDisk, InMemory, Synced, Kept, Reloaded, files
<1>4. Control' /\ AtTarget'
  BY <1>1, <1>3 DEF Inv, Control, AtTarget, BeforeMemory, AtFile, files
<1>5. InCall' /\ InWal'
  BY <1>1, <1>2, <1>3
     DEF Inv, InCall, InWal, Mutating, BeforeMemory, AtFile, FileDone, files
<1>6. InLog'
  <2>1. walFile' = walFile /\ isOpen' = isOpen /\ sequence' = sequence /\ wal' = wal
    BY <1>1 DEF files
  <2>2. ASSUME NEW k \in DOMAIN walFile, Legible(walFile, k)
        PROVE  walFile[k].val \in attempts'[<<walFile[k].coll, walFile[k].id>>]
    <3>1. walFile[k] \in Entry
      BY <2>2 DEF Inv, TypeInv, TypeOK, WalTypeOK, Legible
    <3>2. walFile[k].coll \in Collections /\ walFile[k].id \in Ids
      BY <3>1 DEF Entry
    <3>3. QED
      BY <1>2, <2>2, <3>2 DEF Inv, InLog
  <2>3. QED
    BY <2>1, <2>2 DEF Inv, InLog, Legible
<1>7. Allowed'
  BY <1>1, <1>2, <1>3 DEF Inv, Allowed, files
<1>8. Opening' /\ Closing' /\ Quiet'
  BY <1>1, <1>3 DEF Inv, Opening, Closing, Quiet, Mutating, AtFile, FileDone, Legible,
                    Whole, files
<1>9. QED
  BY <1>4, <1>5, <1>6, <1>7, <1>8 DEF Inv

\* A crash forgets memory; what a file that was half written lost is named.
LEMMA StepCrash ==
  ASSUME OneCaller, Inv, Crash
  PROVE  Inv'
<1>1. TypeInv'
  BY TypeEnvironment DEF Inv
<1>2. /\ Mine' = Idle /\ ~isOpen' /\ wal' = 0
      /\ \A c \in Collections : store'[c] = Absent
      /\ forfeit' = forfeit \cup {d \in Documents : disk[d[1]] = Torn /\ store[d[1]] # Absent}
      /\ UNCHANGED <<files, acked, attempts>>
  BY MineBecomes DEF Inv, Crash, Mine
<1>3. Mine'.pc = "idle" /\ Mine'.op = "open"
  BY <1>2 DEF Idle
<1>4. \A c \in Collections, i \in Ids :
        /\ OnDisk(c)' = OnDisk(c)
        /\ May(<<c, i>>) \subseteq May(<<c, i>>)'
        /\ disk[c] = Torn /\ store[c] # Absent => None \in May(<<c, i>>)'
  BY <1>2 DEF OnDisk, May, files, Documents
<1>5. Control' /\ AtTarget' /\ InCall' /\ InWal' /\ Closing'
  BY <1>2, <1>3 DEF Control, AtTarget, InCall, InWal, Closing, BeforeMemory, AtFile, Mutating
<1>6. InLog'
  BY <1>2 DEF Inv, InLog, Legible, files
<1>7. Allowed'
  BY <1>2, <1>4 DEF Inv, Allowed, files
<1>8. Opening'
  BY <1>2, <1>3 DEF Opening, AtFile, Kept
<1>9. Quiet'
  BY <1>2, <1>3 DEF Inv, Quiet, AtTarget, Whole, Documents, files
<1>10. QED
  BY <1>1, <1>5, <1>6, <1>7, <1>8, <1>9 DEF Inv

\* A call that throws leaves memory and files as they are.
LEMMA StepFail ==
  ASSUME OneCaller, LastOpen, Inv, Fail(Me)
  PROVE  Inv'
<1>1. TypeInv'
  BY TypeEnvironment, MineBecomes DEF Inv
<1>2. /\ Mine' = Idle /\ "io" \in Faults /\ Mine.pc # "idle"
      /\ UNCHANGED <<store, isOpen, wal, sequence, files, acked, attempts, forfeit>>
  BY MineBecomes DEF Inv, Fail, Throw, FileSteps, Mine
<1>3. Mine'.pc = "idle" /\ Mine'.op = "open"
  BY <1>2 DEF Idle
<1>4. /\ wal # 0
      /\ isOpen' \/ ~ (wal < Handles)
  <2>1. wal # 0
    BY <1>2, MineBecomes DEF Inv, TypeInv, HasLog, At, Mine
  <2>2. CASE Mine.op = "open"
    BY <2>1, <2>2, MineBecomes, HandlesAssumption DEF Inv, LastOpen, Mine
  <2>3. CASE Mine.op # "open"
    BY <1>2, <2>1, <2>3 DEF Inv, Control
  <2>4. QED
    BY <2>2, <2>3
<1>5. \A c \in Collections : OnDisk(c)' = OnDisk(c) /\ InMemory(c)' = InMemory(c)
  BY <1>2, SameDocs DEF files
<1>6. Control' /\ AtTarget' /\ InCall' /\ InWal' /\ Opening' /\ Closing' /\ Quiet'
  BY <1>2, <1>3, <1>4
     DEF Control, AtTarget, InCall, InWal, Opening, Closing, Quiet, BeforeMemory, AtFile, Mutating
<1>7. InLog'
  BY <1>2 DEF Inv, InLog, Legible, files
<1>8. Allowed'
  <2>1. \A d : May(d)' = May(d)
    BY <1>2 DEF May
  <2>2. QED
    BY <1>2, <1>5, <2>1 DEF Inv, Allowed, files
<1>9. QED
  BY <1>1, <1>6, <1>7, <1>8 DEF Inv

LEMMA StepLoadFails ==
  ASSUME OneCaller, Inv, LoadFails(Me)
  PROVE  Inv'
<1>1. TypeInv'
  BY TypeEnvironment, MineBecomes DEF Inv
<1>2. PICK c \in Mine.todo :
        /\ Become(Me, [Mine EXCEPT !.pc = "loaded", !.todo = @ \ {c}, !.target = c,
                                   !.image = Torn])
        /\ forfeit' = forfeit \cup Whole(c)
  BY DEF LoadFails, Mine, Whole
<1>3. /\ Mine \in Call /\ c \in Collections /\ Mine.pc = "load" /\ Mine.op = "open"
      /\ Mine' = [Mine EXCEPT !.pc = "loaded", !.todo = @ \ {c}, !.target = c, !.image = Torn]
      /\ "io" \in Faults
      /\ UNCHANGED <<store, isOpen, wal, sequence, files, acked, attempts>>
  BY <1>2, MineBecomes, MineTypes DEF Inv, LoadFails, At, Mine, memory, Control
<1>4. /\ Mine'.pc = "loaded" /\ Mine'.target = c /\ Mine'.image = Torn
      /\ Mine'.todo = Mine.todo \ {c} /\ UNCHANGED <<Mine.op>>
  BY <1>3 DEF Call
<1>5. \A d \in Collections :
        /\ OnDisk(d)' = OnDisk(d) /\ InMemory(d)' = InMemory(d)
        /\ Kept(d)' <=> Kept(d)
        /\ Reloaded(d) => Reloaded(d)'
        /\ \A i \in Ids : May(<<d, i>>) \subseteq May(<<d, i>>)'
  BY <1>2, <1>3 DEF OnDisk, InMemory, Kept, Synced, Reloaded, May, files
<1>6. Control' /\ AtTarget' /\ InCall' /\ InWal' /\ Closing'
  BY <1>3, <1>4 DEF Inv, Control, AtTarget, InCall, InWal, Closing, BeforeMemory, AtFile,
                    Mutating, Mutations
<1>7. InLog'
  BY <1>3 DEF Inv, InLog, Legible, files
<1>8. Allowed'
  BY <1>3, <1>5 DEF Inv, Allowed, files
<1>9. Opening'
  BY <1>2, <1>3, <1>4, <1>5 DEF Inv, Opening, AtFile, files, Whole
<1>10. Quiet'
  BY <1>3 DEF Quiet
<1>11. QED
  BY <1>1, <1>6, <1>7, <1>8, <1>9, <1>10 DEF Inv

\* The steps only a second task makes possible.
LEMMA NeverAlone ==
  ASSUME OneCaller, Inv
  PROVE  ~WriteUnlinked(Me) /\ ~CommitWrite(Me) /\ ~UnlinkFails(Me)
<1>1. Mine.pc # "write_unlinked" /\ Mine.pc # "commit_write"
  BY DEF Inv, Control
<1>2. Mine.pc = "unlink" => disk[Mine.target] # Absent
  BY MineTypes DEF Inv, AtTarget
<1>3. QED
  BY <1>1, <1>2 DEF WriteUnlinked, CommitWrite, UnlinkFails, At, Mine

LEMMA StepStart ==
  ASSUME OneCaller, Inv, Start(Me)
  PROVE  Inv'
<1>1. TypeInv'
  BY TypeStart, MineBecomes DEF Inv
<1>2. ASSUME NEW c \in Collections, NEW i \in Ids, NEW v \in Values,
             Put(Me, c, i, v) \/ Update(Me, c, i, v)
      PROVE  Inv'
  <2>1. \E o \in {"put", "update"} : Mutate(Me, o, c, i, v)
    BY <1>2 DEF Put, Update
  <2>2. UNCHANGED store
    BY <1>2 DEF Put, Update
  <2>3. QED
    BY <1>1, <2>1, <2>2, StepMutate DEF Mutations, MaybeValue
<1>3. ASSUME NEW c \in Collections, NEW i \in Ids, Delete(Me, c, i)
      PROVE  Inv'
  <2>1. Mutate(Me, "delete", c, i, None) /\ store' = [store EXCEPT ![c][i] = None]
    BY <1>3 DEF Delete
  <2>2. store[c] # Absent
    BY <1>3 DEF Delete, DocsOf, NoDocs
  <2>3. QED
    BY <1>1, <2>1, <2>2, StepMutate DEF Mutations, MaybeValue
<1>4. ASSUME NEW c \in Collections, NEW i \in Ids, DeleteMissing(Me, c, i)
      PROVE  Inv'
  BY <1>1, <1>4, StepMissing, MineBecomes DEF Inv
<1>5. QED
  BY <1>2, <1>3, <1>4, StepOpen, StepCloseCompact DEF Start

LEMMA StepContinue ==
  ASSUME OneCaller, Inv, Continue(Me)
  PROVE  Inv'
  BY NeverAlone, StepLogOpen, StepLogWrite, StepLogTail, StepLogged, StepTruncate,
     StepPersisted, StepUnlinkTest, StepStartCommit, StepPersistNext, StepCompactNext,
     StepLoopDone, StepCommitRead, StepCommitFilter, StepEmptyLog, StepCommitted,
     StepClosed, StepReplayedCleared, StepLoad, StepLoaded, StepRecoverRead, StepReplay
     DEF Continue

LEMMA InvInit ==
  ASSUME OneCaller, Init
  PROVE  Inv
<1>1. TypeInv
  BY TypeInit
<1>2. /\ Mine.pc = "idle" /\ Mine.op = "open" /\ ~isOpen /\ wal = 0 /\ walFile = << >>
      /\ \A c \in Collections : store[c] = Absent /\ disk[c] = Absent
      /\ \A d \in Documents : attempts[d] = {} /\ acked[d[1]][d[2]] = None
      /\ forfeit = {}
  BY DEF OneCaller, Init, Mine, Idle, NoDocs, Documents
<1>3. /\ Control /\ AtTarget /\ InCall /\ InWal /\ InLog /\ Opening /\ Closing
  BY <1>2 DEF Control, AtTarget, InCall, InWal, InLog, Opening, Closing, BeforeMemory,
              AtFile, Mutating, Kept
<1>4. Allowed
  <2>1. ASSUME NEW c \in Collections, NEW i \in Ids
        PROVE  OnDisk(c)[i] = None /\ None \in May(<<c, i>>)
    BY <1>2, NoDocsStored, EncodedAssumption DEF OnDisk, May, Documents
  <2>2. QED
    BY <1>2, <2>1, EncodedAssumption DEF Allowed
<1>5. Quiet
  BY <1>2, AbsentAssumption DEF Quiet
<1>6. QED
  BY <1>1, <1>3, <1>4, <1>5 DEF Inv

LEMMA InvFrame == Inv /\ UNCHANGED vars => Inv'
<1> SUFFICES ASSUME Inv, UNCHANGED vars PROVE Inv'
  OBVIOUS
<1>1. UNCHANGED <<store, isOpen, wal, sequence, files, history, call>>
  BY DEF vars, memory
<1>2. TypeInv'
  BY TypeStep DEF Inv
<1>3. QED
  BY <1>1, <1>2, StepElsewhere

LEMMA InvStep ==
  ASSUME OneCaller, LastOpen, Inv, [Next]_vars
  PROVE  Inv'
<1>1. Me \in Tasks /\ \A t \in Tasks : t = Me
  BY MineBecomes DEF Inv
<1>2. CASE Start(Me) \/ Continue(Me) \/ Fail(Me) \/ LoadFails(Me) \/ Crash
  BY <1>2, StepStart, StepContinue, StepFail, StepLoadFails, StepCrash
<1>3. CASE (\E c \in Watched : Watch(c)) \/ UNCHANGED vars
  <2>1. UNCHANGED <<store, isOpen, wal, sequence, files, history, call>>
    BY <1>3 DEF Watch, vars, memory
  <2>2. TypeInv'
    BY TypeStep DEF Inv
  <2>3. QED
    BY <2>1, <2>2, StepElsewhere
<1>4. QED
  BY <1>1, <1>2, <1>3 DEF Next

-----------------------------------------------------------------------------
\* One caller at a time, any crash and any failing file operation, but for an
\* open that is tried again in the same process: at every step of every call
\* files and memory hold values their documents may have, the value of the call
\* under way is where its step has put it, and the file it is writing will hold
\* what memory holds.  (Quiet says more, of an engine no file operation of which
\* fails.)
THEOREM OneCallerInvariant ==
  ASSUME OneCaller
  PROVE  Spec /\ OpensCleanly => []Inv
<1>1. Init => Inv
  BY InvInit
<1>2. Inv /\ [Next]_vars /\ [LastOpen]_vars => Inv'
  <2>1. Inv /\ UNCHANGED vars => Inv'
    BY InvFrame
  <2>2. QED
    BY <2>1, InvStep
<1>3. QED
  BY <1>1, <1>2, PTL DEF Spec, OpensCleanly

\* Where no file operation fails, no open does.
LEMMA NeverFails ==
  ASSUME "io" \notin Faults
  PROVE  Spec => OpensCleanly
<1>1. [Next]_vars => [LastOpen]_vars
  BY DEF LastOpen, Fail
<1>2. QED
  BY <1>1, PTL DEF Spec, OpensCleanly

\* What Inv says of the properties the runs check.
LEMMA InvOnDisk == OneCaller /\ Inv => AckedOnDisk
<1> SUFFICES ASSUME OneCaller, Inv, NEW c \in Collections, NEW i \in Ids,
                    Settled(<<c, i>>), disk[c] # Torn
             PROVE  OnDisk(c)[i] = Encoded[acked[c][i]]
  BY DEF AckedOnDisk
<1>1. May(<<c, i>>) = {Encoded[acked[c][i]]}
  BY DEF May, Settled
<1>2. QED
  BY <1>1 DEF Inv, Allowed

LEMMA InvVisible == OneCaller /\ Inv => AckedVisible
<1> SUFFICES ASSUME OneCaller, Inv, isOpen, NEW c \in Collections, NEW i \in Ids,
                    Settled(<<c, i>>)
             PROVE  Encoded[InMemory(c)[i]] = Encoded[acked[c][i]]
  BY DEF AckedVisible
<1>1. May(<<c, i>>) = {Encoded[acked[c][i]]}
  BY DEF May, Settled
<1>2. QED
  BY <1>1 DEF Inv, Allowed

LEMMA InvQuiet ==
  ASSUME OneCaller, "io" \notin Faults, Inv
  PROVE  DiskInSync /\ WalDrained
<1> SUFFICES ASSUME isOpen, AllIdle
             PROVE  /\ \A c \in Collections : Synced(c)
                    /\ Readable(walFile) = << >>
  BY DEF DiskInSync, WalDrained, Synced
<1>1. Mine.pc = "idle"
  BY MineBecomes DEF Inv, AllIdle, At, Mine
<1>2. \A c \in Collections : Synced(c)
  BY <1>1 DEF Inv, Quiet, Mutating, AtFile
<1>3. \A k \in DOMAIN walFile : ~Legible(walFile, k)
  BY <1>1 DEF Inv, Quiet, Mutating
<1>4. walFile \in Seq(Entry \cup {Torn})
  BY DEF Inv, TypeInv, TypeOK, WalTypeOK
<1>5. Readable(walFile) \in Seq(Entry) /\ DOMAIN Readable(walFile) = {}
  BY <1>3, <1>4, ReadableEntries
<1>6. Readable(walFile) = << >>
  BY <1>5
<1>7. QED
  BY <1>2, <1>6

\* With one caller no call, crash, recovery, close or reopening brings an old
\* value of a settled document into its file, or back a document whose delete
\* was written: storage_engine.dart and wal.dart, any number of collections and
\* documents.  File operations may fail, but a process whose open failed is not
\* one that opens again (OpensCleanly).
THEOREM OneCallerOnDisk ==
  ASSUME OneCaller
  PROVE  Spec /\ OpensCleanly => []AckedOnDisk
<1>1. Inv => AckedOnDisk
  BY InvOnDisk
<1>2. Spec /\ OpensCleanly => []Inv
  BY OneCallerInvariant
<1>3. QED
  BY <1>1, <1>2, PTL

\* With one caller an open engine answers for a settled document with its
\* acknowledged value, whatever crashed, was closed or recovered; and whatever
\* failed, but for an open that is tried again (OpensCleanly).
THEOREM OneCallerVisible ==
  ASSUME OneCaller
  PROVE  Spec /\ OpensCleanly => []AckedVisible
<1>1. Inv => AckedVisible
  BY InvVisible
<1>2. Spec /\ OpensCleanly => []Inv
  BY OneCallerInvariant
<1>3. QED
  BY <1>1, <1>2, PTL

\* When no file operation fails, an engine with no call under way has its
\* memory in its files, after recoveries and compactions as well.
THEOREM OneCallerInSync ==
  ASSUME OneCaller, "io" \notin Faults
  PROVE  Spec => []DiskInSync
<1>1. Inv => DiskInSync
  BY InvQuiet
<1>2. Spec => OpensCleanly
  BY NeverFails
<1>3. Spec /\ OpensCleanly => []Inv
  BY OneCallerInvariant
<1>4. QED
  BY <1>1, <1>2, <1>3, PTL

\* When no file operation fails, every call that returns, and every recovery,
\* leaves the log with nothing to replay.
THEOREM OneCallerDrains ==
  ASSUME OneCaller, "io" \notin Faults
  PROVE  Spec => []WalDrained
<1>1. Inv => WalDrained
  BY InvQuiet
<1>2. Spec => OpensCleanly
  BY NeverFails
<1>3. Spec /\ OpensCleanly => []Inv
  BY OneCallerInvariant
<1>4. QED
  BY <1>1, <1>2, <1>3, PTL

\* When no file operation fails, a crash finds at most one file half written:
\* also the loops of close and of recovery rewrite one after the other.
THEOREM OneCrashOneCollection ==
  ASSUME OneCaller, "io" \notin Faults
  PROVE  Spec => CrashCostsOneCollection
<1> DEFINE OneCollection == \E c \in Collections : forfeit' \ forfeit \subseteq Whole(c)
<1>1. ASSUME Inv, Next PROVE OneCollection
  <2>0. Me \in Tasks /\ \A t \in Tasks : t = Me
    BY <1>1, MineBecomes DEF Inv
  <2>1. CASE Crash
    <3>1. forfeit' = forfeit \cup {d \in Documents : disk[d[1]] = Torn /\ store[d[1]] # Absent}
      BY <2>1 DEF Crash
    <3>2. PICK c \in Collections : c = Mine.target
      BY <1>1, MineTypes
    <3>3. \A d \in Documents : disk[d[1]] = Torn => d[1] = c \/ d \in forfeit
      BY <1>1, <3>2 DEF Inv, Quiet, Whole, Documents
    <3>4. forfeit' \ forfeit \subseteq Whole(c)
      BY <3>1, <3>3 DEF Whole, Documents
    <3>5. QED
      BY <3>4
  <2>2. CASE ~Crash
    <3>1. ~LoadFails(Me) /\ ~Fail(Me)
      BY DEF LoadFails, Fail
    <3>2. forfeit' \subseteq forfeit
      <4>1. Start(Me) => UNCHANGED forfeit
        <5>1. ASSUME NEW c \in Collections, NEW i \in Ids,
                     (\E v \in Values : Put(Me, c, i, v) \/ Update(Me, c, i, v))
                     \/ Delete(Me, c, i) \/ DeleteMissing(Me, c, i)
              PROVE  UNCHANGED forfeit
          BY <5>1 DEF Put, Update, Delete, DeleteMissing, Mutate, history
        <5>2. Open(Me) \/ Close(Me) \/ Compact(Me) => UNCHANGED forfeit
          BY DEF Open, Close, Compact, history
        <5>3. QED
          BY <5>1, <5>2 DEF Start
      <4>2. Committed(Me) => forfeit' \subseteq forfeit
        BY DEF Committed
      <4>3. LoopDone(Me) \/ Replay(Me) => UNCHANGED forfeit
        BY DEF LoopDone, Replay, Opened, history
      <4>4. Continue(Me) => Committed(Me) \/ LoopDone(Me) \/ Replay(Me) \/ UNCHANGED forfeit
        BY DEF Continue, LogOpen, LogWrite, LogTail, Logged, Truncate, Write, WriteUnlinked,
               UnlinkTest, Unlink, UnlinkFails, StartCommit, PersistNext, CompactNext,
               CommitRead, CommitFilter, CommitOpen, CommitWrite, Clear, ClosedCleared,
               ReplayedCleared, Load, Loaded, RecoverRead, history
      <4>5. (\E c \in Watched : Watch(c)) => UNCHANGED forfeit
        BY DEF Watch, history
      <4>6. QED
        BY <1>1, <2>0, <2>2, <3>1, <4>1, <4>2, <4>3, <4>4, <4>5 DEF Next
    <3>3. QED
      BY <3>2, NonEmptyAssumption
  <2>3. QED
    BY <2>1, <2>2
<1>2. Inv /\ [Next]_vars => [OneCollection]_vars
  BY <1>1
<1>3. Spec => OpensCleanly
  BY NeverFails
<1>4. Spec /\ OpensCleanly => []Inv
  BY OneCallerInvariant
<1>5. Spec => [][OneCollection]_vars
  BY <1>2, <1>3, <1>4, PTL DEF Spec
<1>6. QED
  BY <1>5 DEF CrashCostsOneCollection, Whole
=============================================================================
