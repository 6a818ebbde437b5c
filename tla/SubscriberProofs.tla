--------------------------- MODULE SubscriberProofs ---------------------------
(* What a subscriber of the storage engine can rely on, whatever calls run   *)
(* together: the change events of a collection add up to its documents.      *)
EXTENDS StorageEngineProofs

\* The hypothesis of the theorem: no two tasks write the same document.  Two
\* that do are not kept apart by anything in the code.
OwnDocuments == \A t, u \in Tasks : t # u => Home[t] \cap Home[u] = {}

-----------------------------------------------------------------------------
(* The inductive invariant.                                                  *)

Mutations == {"put", "update", "delete"}

\* Task t runs a call, writes, writes document <<c, i>>, is before the step that
\* changes memory.  delete changes memory with its first step.
Runs(t, o)     == ~At(t, "idle") /\ call[t].op = o
Writing(t)     == ~At(t, "idle") /\ call[t].op \in Mutations
On(t, c, i)    == Writing(t) /\ call[t].entry.coll = c /\ call[t].entry.id = i
Pending(t)     == /\ call[t].op # "delete"
                  /\ call[t].pc \in {"log_open", "log_write", "log_tail", "logged"}

\* Which steps belong to which calls; opens run one at a time on a store that
\* is not open; a task writes the documents of its home.
Steps ==
  /\ \A t \in Tasks :
       /\ call[t].pc \in {"log_open", "log_write", "log_tail", "logged", "commit_read",
                          "commit_filter", "commit_open", "commit_write", "committed"}
            => call[t].op \in Mutations
       /\ call[t].pc \in {"load", "loaded", "recover_read", "replay"} => call[t].op = "open"
       /\ Writing(t) => <<call[t].entry.coll, call[t].entry.id>> \in Home[t]
       /\ Runs(t, "open") => ~isOpen
  /\ \A t, u \in Tasks : Runs(t, "open") /\ Runs(u, "open") => t = u

\* The copy of a subscriber has the document as memory has it, but for the
\* calls on it that have changed memory and not sent their event: the event
\* they will send is of the kind the copy needs.
Follows(c, i) ==
  /\ \/ mirror[c][i] = InMemory(c)[i]
     \/ \E t \in Tasks : On(t, c, i) /\ ~Pending(t)
  /\ \A t \in Tasks : On(t, c, i) /\ ~Pending(t) =>
       /\ InMemory(c)[i] = call[t].entry.val
       /\ mirror[c][i] # None <=> (call[t].op = "delete" \/ call[t].isUpdate)

Subscribers ==
  \A c \in Collections : mirror[c] # Absent =>
    /\ isOpen /\ mirror[c] \in Docs
    /\ \A i \in Ids : Follows(c, i)

MirrorInv == TypeInv /\ Steps /\ Subscribers

-----------------------------------------------------------------------------
(* Frames: what every task's record keeps, and what a call that ends leaves. *)

BeforeMemory == {"log_open", "log_write", "log_tail", "logged"}
CommitSteps  == {"commit_read", "commit_filter", "commit_open", "commit_write",
                 "committed"}
OpenSteps    == {"load", "loaded", "recover_read", "replay"}

\* Task u keeps its call; all but t keep their records.
Same(u)   == /\ call'[u].op = call[u].op
             /\ call'[u].entry = call[u].entry
             /\ call'[u].isUpdate = call[u].isUpdate
Others(t) == \A u \in Tasks : u # t => call'[u] = call[u]

\* A task goes on with its call, on the same side of the change of memory.
GoesOn(u) ==
  /\ Same(u)
  /\ call'[u].pc = "idle" <=> call[u].pc = "idle"
  /\ call'[u].pc \in BeforeMemory <=> call[u].pc \in BeforeMemory
  /\ call'[u].pc \in CommitSteps => call[u].op \in Mutations
  /\ call'[u].pc \in OpenSteps => call[u].op = "open"

LEMMA Continues ==
  ASSUME MirrorInv, TypeInv', UNCHANGED <<isOpen, mirror>>,
         \A u \in Tasks : GoesOn(u),
         isOpen => \A c \in Collections : InMemory(c)' = InMemory(c)
  PROVE  MirrorInv'
<1>1. Steps'
  BY DEF MirrorInv, Steps, GoesOn, Same, BeforeMemory, CommitSteps, OpenSteps, Runs, Writing, At
<1>2. ASSUME NEW c \in Collections, mirror'[c] # Absent
      PROVE  isOpen' /\ mirror'[c] \in Docs /\ \A i \in Ids : Follows(c, i)'
  <2>1. isOpen /\ mirror[c] \in Docs /\ InMemory(c)' = InMemory(c) /\ mirror'[c] = mirror[c]
    BY <1>2 DEF MirrorInv, Subscribers
  <2>2. ASSUME NEW i \in Ids PROVE Follows(c, i)'
    <3>1. \A u \in Tasks :
            /\ On(u, c, i)' <=> On(u, c, i)
            /\ Pending(u)' <=> Pending(u)
            /\ call'[u].entry = call[u].entry /\ call'[u].op = call[u].op
            /\ call'[u].isUpdate = call[u].isUpdate
      BY DEF GoesOn, Same, BeforeMemory, On, Writing, Pending, At
    <3>2. Follows(c, i)
      BY <1>2 DEF MirrorInv, Subscribers
    <3>3. mirror'[c][i] = mirror[c][i] /\ InMemory(c)'[i] = InMemory(c)[i]
      BY <2>1
    <3>4. QED
      BY <3>1, <3>2, <3>3 DEF Follows
  <2>3. QED
    BY <1>2, <2>1, <2>2
<1>3. QED
  BY <1>1, <1>2 DEF MirrorInv, Subscribers

\* What the two ways to go on leave of a record.
LEMMA Fields ==
  ASSUME TypeInv, NEW t \in Tasks
  PROVE  /\ \A new : Become(t, new) => Others(t) /\ call'[t] = new
         /\ \A step : Goto(t, step) => Others(t) /\ Same(t) /\ call'[t].pc = step
<1>1. call \in [Tasks -> Call]
  BY DEF TypeInv, TypeOK
<1>2. ASSUME NEW new, Become(t, new) PROVE Others(t) /\ call'[t] = new
  BY <1>1, <1>2 DEF Become, Others
<1>3. ASSUME NEW step, Goto(t, step) PROVE Others(t) /\ Same(t) /\ call'[t].pc = step
  <2>1. Others(t) /\ call'[t] = [call[t] EXCEPT !.pc = step]
    BY <1>2, <1>3 DEF Goto
  <2>2. QED
    BY <1>1, <2>1 DEF Same, Call
<1>4. QED
  BY <1>2, <1>3

\* The steps that change the record of their task only.
LEMMA GoesOnAlone ==
  ASSUME Steps, NEW t \in Tasks, Others(t), Same(t),
         call'[t].pc = "idle" <=> call[t].pc = "idle",
         call'[t].pc \in BeforeMemory <=> call[t].pc \in BeforeMemory,
         call'[t].pc \in CommitSteps => call[t].op \in Mutations,
         call'[t].pc \in OpenSteps => call[t].op = "open"
  PROVE  \A u \in Tasks : GoesOn(u)
  BY DEF GoesOn, Others, Same, Steps, CommitSteps, OpenSteps

\* A call ends without an event: whoever follows its collection starts over.
LEMMA Ends ==
  ASSUME MirrorInv, TypeInv', NEW t \in Tasks, ~At(t, "idle"), Become(t, Idle),
         UNCHANGED store,
         \A c \in Collections : mirror'[c] \in {mirror[c], Absent},
         Writing(t) => mirror'[call[t].entry.coll] = Absent,
         \/ UNCHANGED isOpen
         \/ Runs(t, "open")
         \/ ~isOpen' /\ \A c \in Collections : mirror'[c] = Absent
  PROVE  MirrorInv'
<1>1. /\ call'[t].pc = "idle" /\ call'[t].op = "open"
      /\ \A u \in Tasks : u # t => call'[u] = call[u]
  BY DEF Become, Idle, MirrorInv, TypeInv, TypeOK
<1>2. Steps'
  BY <1>1 DEF MirrorInv, Steps, Runs, Writing, At
<1>3. ASSUME NEW c \in Collections, mirror'[c] # Absent
      PROVE  isOpen' /\ mirror'[c] \in Docs /\ \A i \in Ids : Follows(c, i)'
  <2>1. isOpen /\ mirror[c] \in Docs /\ mirror'[c] = mirror[c]
    BY <1>3 DEF MirrorInv, Subscribers
  <2>2. isOpen'
    BY <1>3, <2>1 DEF MirrorInv, Steps
  <2>3. ASSUME NEW i \in Ids PROVE Follows(c, i)'
    <3>1. ~On(t, c, i) /\ ~On(t, c, i)'
      BY <1>1, <1>3 DEF On, Writing, At
    <3>2. \A u \in Tasks : u # t => (On(u, c, i)' <=> On(u, c, i)) /\ (Pending(u)' <=> Pending(u))
      BY <1>1 DEF On, Writing, Pending, At
    <3>3. InMemory(c)' = InMemory(c)
      BY DEF InMemory
    <3>4. Follows(c, i)
      BY <1>3, <2>1 DEF MirrorInv, Subscribers
    <3>5. QED
      BY <1>1, <2>1, <3>1, <3>2, <3>3, <3>4 DEF Follows
  <2>4. QED
    BY <2>1, <2>2, <2>3
<1>4. QED
  BY <1>2, <1>3 DEF MirrorInv, Subscribers

LEMMA OnTypes ==
  ASSUME TypeInv, NEW t \in Tasks
  PROVE  /\ call[t] \in Call
         /\ call[t].entry.coll \in Collections /\ call[t].entry.id \in Ids
         /\ call[t].entry.val \in MaybeValue
         /\ call[t].op \in Operations /\ call[t].todo \subseteq Collections
         /\ call[t].target \in Collections /\ call[t].isUpdate \in BOOLEAN
  BY DEF TypeInv, TypeOK, Call, Entry

LEMMA MemoryDocs ==
  ASSUME TypeInv, NEW c \in Collections
  PROVE  /\ store[c] \in Docs \cup {Absent}
         /\ InMemory(c) \in Docs
         /\ store[c] \in Docs => InMemory(c) = store[c]
         /\ store[c] = Absent => InMemory(c) = NoDocs
  BY DocsOfType, AbsentAssumption DEF TypeInv, TypeOK, InMemory, DocsOf

-----------------------------------------------------------------------------
(* The steps.                                                                *)

\* A call begins that writes no document, or waits for the log first.
LEMMA MirrorStart ==
  ASSUME MirrorInv, TypeInv', NEW t \in Tasks, At(t, "idle"), Others(t),
         UNCHANGED <<store, isOpen, mirror>>,
         \/ /\ call'[t].op \in {"put", "update"} /\ call'[t].pc = "log_open"
            /\ <<call'[t].entry.coll, call'[t].entry.id>> \in Home[t]
         \/ call'[t].op \in {"close", "compact"} /\ call'[t].pc = "next"
         \/ /\ call'[t].op = "open" /\ call'[t].pc = "load" /\ ~isOpen
            /\ \A u \in Tasks : ~Runs(u, "open")
  PROVE  MirrorInv'
<1>1. \A u \in Tasks : u # t => call'[u] = call[u]
  BY DEF Others
<1>2. Steps'
  BY <1>1 DEF MirrorInv, Steps, Runs, Writing, At, Mutations
<1>3. ASSUME NEW c \in Collections, NEW i \in Ids, Follows(c, i) PROVE Follows(c, i)'
  <2>1. ~On(t, c, i) /\ (On(t, c, i)' => Pending(t)')
    BY <1>1 DEF On, Writing, Pending, At, Mutations
  <2>2. \A u \in Tasks : u # t => (On(u, c, i)' <=> On(u, c, i)) /\ (Pending(u)' <=> Pending(u))
    BY <1>1 DEF On, Writing, Pending, At
  <2>3. InMemory(c)' = InMemory(c)
    BY DEF InMemory
  <2>4. QED
    BY <1>1, <1>3, <2>1, <2>2, <2>3 DEF Follows
<1>4. QED
  BY <1>2, <1>3 DEF MirrorInv, Subscribers

\* Nobody else runs a call on a document of this task's home.
LEMMA Owned ==
  ASSUME OwnDocuments, Steps, NEW t \in Tasks, NEW c \in Collections, NEW i \in Ids,
         <<c, i>> \in Home[t]
  PROVE  \A u \in Tasks : u # t => ~On(u, c, i)
  BY DEF OwnDocuments, Steps, On

LEMMA MirrorDelete ==
  ASSUME OwnDocuments, MirrorInv, TypeInv', NEW t \in Tasks, NEW c \in Collections,
         NEW i \in Ids, Delete(t, c, i)
  PROVE  MirrorInv'
<1>1. /\ At(t, "idle") /\ isOpen /\ <<c, i>> \in Home[t] /\ InMemory(c)[i] # None
      /\ UNCHANGED <<isOpen, mirror>> /\ store' = [store EXCEPT ![c][i] = None]
      /\ \A u \in Tasks : u # t => call'[u] = call[u]
  BY DEF Delete, Mutate, InMemory, Become, MirrorInv, TypeInv, TypeOK
<1>2. /\ call'[t].op = "delete" /\ call'[t].pc = "log_open" /\ call'[t].entry.coll = c
      /\ call'[t].entry.id = i /\ call'[t].entry.val = None
  BY DEF Delete, Mutate, Become, Idle, MirrorInv, TypeInv, TypeOK
<1>3. Steps'
  BY <1>1, <1>2 DEF MirrorInv, Steps, Runs, Writing, At, Mutations
<1>4. /\ \A d \in Collections : d # c => InMemory(d)' = InMemory(d)
      /\ \A j \in Ids : InMemory(c)'[j] = IF j = i THEN None ELSE InMemory(c)[j]
  <2>1. store[c] \in Docs
    BY <1>1, MemoryDocs DEF MirrorInv, NoDocs
  <2>2. store'[c] = [store[c] EXCEPT ![i] = None] /\ store'[c] \in Docs
    BY <1>1, <2>1 DEF MirrorInv, TypeInv, TypeOK, Docs, MaybeValue
  <2>3. InMemory(c) = store[c] /\ InMemory(c)' = store'[c]
    BY <2>1, <2>2, AbsentAssumption DEF InMemory, DocsOf
  <2>4. \A d \in Collections : d # c => InMemory(d)' = InMemory(d)
    BY <1>1 DEF MirrorInv, TypeInv, TypeOK, InMemory
  <2>5. QED
    BY <2>1, <2>2, <2>3, <2>4 DEF Docs
<1>5. ASSUME NEW d \in Collections, NEW j \in Ids, mirror[d] # Absent PROVE Follows(d, j)'
  <2>1. Follows(d, j)
    BY <1>5 DEF MirrorInv, Subscribers
  <2>2. \A u \in Tasks : u # t => (On(u, d, j)' <=> On(u, d, j)) /\ (Pending(u)' <=> Pending(u))
    BY <1>1 DEF On, Writing, Pending, At
  <2>3. ~On(t, d, j) /\ (On(t, d, j)' <=> d = c /\ j = i) /\ ~Pending(t)'
    BY <1>1, <1>2 DEF On, Writing, Pending, At, Mutations
  <2>4. CASE d = c /\ j = i
    <3>1. \A u \in Tasks : u # t => ~On(u, c, i)
      BY <1>1, Owned DEF MirrorInv
    <3>2. mirror[c][i] # None
      BY <1>1, <2>1, <2>3, <2>4, <3>1 DEF Follows
    <3>3. QED
      BY <1>1, <1>2, <1>4, <2>2, <2>3, <2>4, <3>1, <3>2 DEF Follows
  <2>5. CASE ~(d = c /\ j = i)
    <3>1. InMemory(d)'[j] = InMemory(d)[j]
      BY <1>4, <2>5
    <3>2. QED
      BY <1>1, <2>1, <2>2, <2>3, <2>5, <3>1 DEF Follows
  <2>6. QED
    BY <2>4, <2>5
<1>6. QED
  BY <1>1, <1>3, <1>5 DEF MirrorInv, Subscribers

\* A put, or an update, changes memory: it remembers whether the document was
\* there, which is what the copies know of it.
LEMMA MirrorLogged ==
  ASSUME OwnDocuments, MirrorInv, TypeInv', NEW t \in Tasks, Logged(t)
  PROVE  MirrorInv'
<1>1. PICK c \in Collections, i \in Ids, v \in MaybeValue :
        c = call[t].entry.coll /\ i = call[t].entry.id /\ v = call[t].entry.val
  BY OnTypes DEF MirrorInv
<1>2. /\ call[t].pc = "logged" /\ call[t].op \in Mutations
      /\ store' = [store EXCEPT ![c] = DocsAfter(t)] /\ UNCHANGED <<isOpen, mirror>>
      /\ \A u \in Tasks : u # t => call'[u] = call[u]
      /\ <<c, i>> \in Home[t]
  BY <1>1 DEF Logged, At, MirrorInv, TypeInv, TypeOK, Become, Steps, Writing
<1>3. /\ call'[t].op = call[t].op /\ call'[t].entry = call[t].entry
      /\ call'[t].pc \in {"unlink_test", "truncate"}
      /\ call'[t].isUpdate = (InMemory(c)[i] # None)
  <2>1. Existed(t) = (InMemory(c)[i] # None)
    BY <1>1 DEF Existed, InMemory
  <2>2. call \in [Tasks -> Call] /\ call[t] \in Call
    BY DEF MirrorInv, TypeInv, TypeOK
  <2> DEFINE now == [call[t] EXCEPT !.seq = sequence[call[t].log], !.isUpdate = Existed(t)]
  <2>3. call'[t] = Persisting(now, c, DocsAfter(t))
    BY <1>1, <2>2 DEF Logged, Become
  <2>4. now.op = call[t].op /\ now.entry = call[t].entry /\ now.isUpdate = Existed(t)
        /\ DOMAIN now = DOMAIN call[t]
    BY <2>2 DEF Call
  <2>5. {"pc", "op", "entry", "isUpdate", "target", "image"} \subseteq DOMAIN call[t]
    BY <2>2 DEF Call
  <2> HIDE DEF now
  <2>6. /\ call'[t].op = now.op /\ call'[t].entry = now.entry
        /\ call'[t].isUpdate = now.isUpdate
        /\ call'[t].pc \in {"unlink_test", "truncate"}
    BY <2>3, <2>4, <2>5 DEF Persisting
  <2>7. QED
    BY <2>1, <2>4, <2>6
<1>4. Steps'
  BY <1>1, <1>2, <1>3 DEF MirrorInv, Steps, Runs, Writing, At
<1>5. /\ \A d \in Collections : d # c => InMemory(d)' = InMemory(d)
      /\ call[t].op = "delete" => InMemory(c)' = InMemory(c)
      /\ call[t].op # "delete" =>
           \A j \in Ids : InMemory(c)'[j] = IF j = i THEN v ELSE InMemory(c)[j]
  <2>1. store'[c] = DocsAfter(t)
    BY <1>2 DEF MirrorInv, TypeInv, TypeOK
  <2>2. \A d \in Collections : d # c => InMemory(d)' = InMemory(d)
    BY <1>2 DEF MirrorInv, TypeInv, TypeOK, InMemory
  <2>3. call[t].op = "delete" => InMemory(c)' = InMemory(c)
    BY <1>1, <2>1 DEF DocsAfter, InMemory
  <2>4. ASSUME call[t].op # "delete", NEW j \in Ids
        PROVE  InMemory(c)'[j] = IF j = i THEN v ELSE InMemory(c)[j]
    <3>1. InMemory(c) \in Docs
      BY MemoryDocs DEF MirrorInv
    <3>2. store'[c] = [InMemory(c) EXCEPT ![i] = v] /\ store'[c] \in Docs
      BY <1>1, <2>1, <2>4, <3>1 DEF DocsAfter, InMemory, Docs
    <3>3. InMemory(c)' = store'[c]
      BY <3>2, AbsentAssumption DEF InMemory, DocsOf
    <3>4. QED
      BY <3>1, <3>2, <3>3 DEF Docs
  <2>5. QED
    BY <2>2, <2>3, <2>4
<1>6. ASSUME NEW d \in Collections, NEW j \in Ids, mirror[d] # Absent PROVE Follows(d, j)'
  <2>1. Follows(d, j)
    BY <1>6 DEF MirrorInv, Subscribers
  <2>2. \A u \in Tasks : u # t => (On(u, d, j)' <=> On(u, d, j)) /\ (Pending(u)' <=> Pending(u))
    BY <1>2 DEF On, Writing, Pending, At
  <2>3. /\ On(t, d, j) <=> d = c /\ j = i
        /\ On(t, d, j)' <=> d = c /\ j = i
        /\ ~Pending(t)' /\ (Pending(t) <=> call[t].op # "delete")
    BY <1>1, <1>2, <1>3 DEF On, Writing, Pending, At
  <2>4. CASE d = c /\ j = i /\ call[t].op # "delete"
    <3>1. \A u \in Tasks : u # t => ~On(u, c, i)
      BY <1>2, Owned DEF MirrorInv
    <3>2. mirror[c][i] = InMemory(c)[i]
      BY <2>1, <2>3, <2>4, <3>1 DEF Follows
    <3>3. InMemory(c)'[i] = v /\ call'[t].entry.val = v /\ mirror'[c][i] = mirror[c][i]
      BY <1>1, <1>2, <1>3, <1>5, <2>4
    <3>4. mirror'[c][i] # None <=> (call'[t].op = "delete" \/ call'[t].isUpdate)
      BY <1>3, <2>4, <3>2, <3>3
    <3>5. QED
      BY <2>2, <2>3, <2>4, <3>1, <3>3, <3>4 DEF Follows
  <2>5. CASE d = c /\ j = i /\ call[t].op = "delete"
    <3>1. \A u \in Tasks : u # t => ~On(u, c, i)
      BY <1>2, Owned DEF MirrorInv
    <3>2. InMemory(c)'[i] = InMemory(c)[i] /\ mirror'[c][i] = mirror[c][i]
      BY <1>2, <1>5, <2>5
    <3>3. InMemory(c)[i] = v /\ mirror[c][i] # None
      BY <1>1, <2>1, <2>3, <2>5 DEF Follows
    <3>4. QED
      BY <1>1, <1>3, <2>2, <2>3, <2>5, <3>1, <3>2, <3>3 DEF Follows
  <2>6. CASE ~(d = c /\ j = i)
    <3>1. InMemory(d)'[j] = InMemory(d)[j]
      BY <1>5, <2>6
    <3>2. QED
      BY <1>2, <2>1, <2>2, <2>3, <2>6, <3>1 DEF Follows
  <2>7. QED
    BY <2>4, <2>5, <2>6
<1>7. QED
  BY <1>2, <1>4, <1>6 DEF MirrorInv, Subscribers

\* The event reaches the copies.
LEMMA MirrorCommitted ==
  ASSUME OwnDocuments, MirrorInv, TypeInv', NEW t \in Tasks, Committed(t)
  PROVE  MirrorInv'
<1>1. PICK c \in Collections, i \in Ids, v \in MaybeValue :
        c = call[t].entry.coll /\ i = call[t].entry.id /\ v = call[t].entry.val
  BY OnTypes DEF MirrorInv
<1>2. /\ call[t].pc = "committed" /\ call[t].op \in Mutations /\ UNCHANGED <<isOpen, store>>
      /\ mirror' = IF mirror[c] = Absent THEN mirror
                   ELSE [mirror EXCEPT ![c] = Applied(mirror[c], t)]
      /\ \A u \in Tasks : u # t => call'[u] = call[u]
      /\ call'[t].pc = "idle" /\ call'[t].op = "open"
      /\ <<c, i>> \in Home[t]
  BY <1>1 DEF Committed, At, Idle, MirrorInv, TypeInv, TypeOK, Become, Steps, Writing
<1>3. Steps'
  BY <1>2 DEF MirrorInv, Steps, Runs, Writing, At
<1>4. \A u \in Tasks : u # t => ~On(u, c, i)
  BY <1>2, Owned DEF MirrorInv
<1>5. ASSUME mirror[c] # Absent
      PROVE  /\ mirror'[c] = [mirror[c] EXCEPT ![i] = v]
             /\ InMemory(c)[i] = v
  <2>1. mirror[c] \in Docs /\ Follows(c, i)
    BY <1>5 DEF MirrorInv, Subscribers
  <2>2. On(t, c, i) /\ ~Pending(t)
    BY <1>1, <1>2 DEF On, Writing, Pending, At
  <2>3. InMemory(c)[i] = v /\ (mirror[c][i] # None <=> (call[t].op = "delete" \/ call[t].isUpdate))
    BY <1>1, <2>1, <2>2 DEF Follows
  <2>4. Applied(mirror[c], t) = [mirror[c] EXCEPT ![i] = v]
    BY <1>1, <2>1, <2>3, OnTypes, AbsentAssumption DEF Applied, MirrorInv
  <2>5. mirror'[c] = Applied(mirror[c], t)
    BY <1>2, <1>5 DEF MirrorInv, TypeInv, TypeOK
  <2>6. QED
    BY <2>3, <2>4, <2>5
<1>6. \A d \in Collections : d # c => mirror'[d] = mirror[d]
  BY <1>2 DEF MirrorInv, TypeInv, TypeOK
<1>7. ASSUME NEW d \in Collections, mirror'[d] # Absent
      PROVE  isOpen' /\ mirror'[d] \in Docs /\ \A j \in Ids : Follows(d, j)'
  <2>1. mirror[d] # Absent
    BY <1>2, <1>6, <1>7
  <2>2. isOpen /\ mirror[d] \in Docs /\ InMemory(d)' = InMemory(d)
    BY <1>2, <2>1 DEF MirrorInv, Subscribers, InMemory
  <2>3. mirror'[d] \in Docs
    BY <1>5, <1>6, <2>1, <2>2 DEF Docs
  <2>4. ASSUME NEW j \in Ids PROVE Follows(d, j)'
    <3>1. \A u \in Tasks : u # t => (On(u, d, j)' <=> On(u, d, j)) /\ (Pending(u)' <=> Pending(u))
      BY <1>2 DEF On, Writing, Pending, At
    <3>2. ~On(t, d, j)' /\ (On(t, d, j) => d = c /\ j = i)
      BY <1>1, <1>2 DEF On, Writing, At
    <3>3. Follows(d, j)
      BY <2>1 DEF MirrorInv, Subscribers
    <3>4. CASE d = c /\ j = i
      <4>1. mirror'[c][i] = v /\ InMemory(c)'[i] = v
        BY <1>5, <2>1, <2>2, <3>4 DEF Docs
      <4>2. QED
        BY <1>4, <3>1, <3>2, <3>4, <4>1 DEF Follows
    <3>5. CASE ~(d = c /\ j = i)
      <4>1. mirror'[d][j] = mirror[d][j] /\ InMemory(d)'[j] = InMemory(d)[j]
        BY <1>5, <1>6, <2>1, <2>2, <3>5 DEF Docs
      <4>2. QED
        BY <1>2, <3>1, <3>2, <3>3, <3>5, <4>1 DEF Follows
    <3>6. QED
      BY <3>4, <3>5
  <2>5. QED
    BY <1>2, <2>2, <2>3, <2>4
<1>8. QED
  BY <1>3, <1>7 DEF MirrorInv, Subscribers

LEMMA MirrorWatch ==
  ASSUME MirrorInv, TypeInv', NEW c \in Watched, Watch(c)
  PROVE  MirrorInv'
<1>1. /\ c \in Collections /\ isOpen /\ UNCHANGED <<store, isOpen, call>>
      /\ mirror'[c] = InMemory(c)
      /\ \A d \in Collections : d # c => mirror'[d] = mirror[d]
      /\ \A t \in Tasks : At(t, "idle") \/ call[t].entry.coll # c
  BY TasksAssumption DEF Watch, InMemory, MirrorInv, TypeInv, TypeOK
<1>2. Steps'
  BY <1>1 DEF MirrorInv, Steps, Runs, Writing, At
<1>3. \A d \in Collections, i \in Ids : mirror'[d] = mirror[d] /\ Follows(d, i) => Follows(d, i)'
  BY <1>1 DEF Follows, On, Writing, Pending, At, InMemory
<1>4. mirror'[c] \in Docs /\ \A i \in Ids : Follows(c, i)'
  BY <1>1, MemoryDocs DEF MirrorInv, Follows, On, Writing, At, InMemory
<1>5. QED
  BY <1>1, <1>2, <1>3, <1>4 DEF MirrorInv, Subscribers

LEMMA MirrorGoesOn ==
  ASSUME MirrorInv, TypeInv', NEW t \in Tasks,
         \/ LogOpen(t) \/ LogWrite(t) \/ LogTail(t) \/ Truncate(t) \/ Write(t)
         \/ WriteUnlinked(t) \/ UnlinkTest(t) \/ StartCommit(t) \/ CommitRead(t)
         \/ CommitFilter(t) \/ CommitOpen(t) \/ CommitWrite(t) \/ Clear(t)
         \/ ReplayedCleared(t) \/ Load(t) \/ RecoverRead(t)
  PROVE  MirrorInv'
<1>1. UNCHANGED <<isOpen, mirror, store>>
  BY DEF LogOpen, LogWrite, LogTail, Truncate, Write, WriteUnlinked, UnlinkTest, StartCommit,
         CommitRead, CommitFilter, CommitOpen, CommitWrite, Clear, ReplayedCleared, Load,
         RecoverRead, memory
<1>2. call \in [Tasks -> Call]
  BY DEF MirrorInv, TypeInv, TypeOK
<1>3. \A u \in Tasks : GoesOn(u)
  <2>1. CASE LogOpen(t) \/ LogWrite(t) \/ LogTail(t)
    <3>1. Others(t) /\ Same(t) /\ call'[t].pc \in BeforeMemory /\ call[t].pc \in BeforeMemory
      <4>1. CASE LogOpen(t)
        BY <1>2, <4>1 DEF LogOpen, Become, Others, Same, At, BeforeMemory, Call
      <4>2. CASE LogWrite(t) \/ LogTail(t)
        BY <4>2, Fields DEF LogWrite, LogTail, At, BeforeMemory, MirrorInv
      <4>3. QED
        BY <2>1, <4>1, <4>2
    <3>2. QED
      BY <3>1, GoesOnAlone DEF MirrorInv, BeforeMemory, CommitSteps, OpenSteps
  <2>2. CASE Truncate(t) \/ Write(t) \/ WriteUnlinked(t) \/ UnlinkTest(t) \/ Clear(t)
             \/ ReplayedCleared(t)
    <3>1. /\ Others(t) /\ Same(t)
          /\ {call'[t].pc, call[t].pc} \subseteq
               {"truncate", "write", "write_unlinked", "unlink_test", "unlink", "next",
                "clear", "cleared"}
      <4>1. CASE ReplayedCleared(t)
        BY <1>2, <4>1 DEF ReplayedCleared, Become, Others, Same, At, Call
      <4>2. CASE Truncate(t) \/ Write(t) \/ WriteUnlinked(t) \/ UnlinkTest(t) \/ Clear(t)
        BY <4>2, Fields DEF Truncate, Write, WriteUnlinked, UnlinkTest, Clear, At, MirrorInv
      <4>3. QED
        BY <2>2, <4>1, <4>2
    <3>2. QED
      BY <3>1, GoesOnAlone DEF MirrorInv, BeforeMemory, CommitSteps, OpenSteps
  <2>3. CASE StartCommit(t) \/ CommitRead(t) \/ CommitFilter(t) \/ CommitOpen(t) \/ CommitWrite(t)
    <3>1. /\ Others(t) /\ Same(t)
          /\ call'[t].pc \in CommitSteps
          /\ \/ call[t].pc = "next" /\ call[t].op \in Mutations
             \/ call[t].pc \in CommitSteps
      <4>1. CASE StartCommit(t)
        BY <1>2, <4>1 DEF StartCommit, Become, Others, Same, At, Call, CommitSteps, Mutations
      <4>2. CASE CommitRead(t)
        BY <1>2, <4>2 DEF CommitRead, Become, Others, Same, At, Call, CommitSteps
      <4>3. CASE CommitFilter(t)
        BY <1>2, <4>3 DEF CommitFilter, Become, Others, Same, At, Call, CommitSteps
      <4>4. CASE CommitOpen(t) \/ CommitWrite(t)
        BY <4>4, Fields DEF CommitOpen, CommitWrite, At, CommitSteps, MirrorInv
      <4>5. QED
        BY <2>3, <4>1, <4>2, <4>3, <4>4
    <3>2. call[t].op \in Mutations
      BY <3>1 DEF MirrorInv, Steps, CommitSteps
    <3>3. QED
      BY <3>1, <3>2, GoesOnAlone DEF MirrorInv, BeforeMemory, CommitSteps, OpenSteps
  <2>4. CASE Load(t) \/ RecoverRead(t)
    <3>1. /\ Others(t) /\ Same(t)
          /\ call'[t].pc \in OpenSteps /\ call[t].pc \in OpenSteps
      <4>1. CASE Load(t)
        <5>1. PICK c \in call[t].todo :
                Become(t, [call[t] EXCEPT !.pc = "loaded", !.todo = @ \ {c}, !.target = c,
                                          !.image = disk[c]])
          BY <4>1 DEF Load
        <5>2. /\ Others(t)
              /\ call'[t] = [call[t] EXCEPT !.pc = "loaded", !.todo = @ \ {c}, !.target = c,
                                            !.image = disk[c]]
          BY <5>1, Fields DEF MirrorInv
        <5>3. call[t] \in Call /\ call[t].pc = "load"
          BY <1>2, <4>1 DEF Load, At
        <5>4. Same(t) /\ call'[t].pc = "loaded"
          BY <5>2, <5>3 DEF Same, Call
        <5>5. QED
          BY <5>2, <5>3, <5>4 DEF OpenSteps
      <4>2. CASE RecoverRead(t)
        BY <1>2, <4>2 DEF RecoverRead, Become, Others, Same, At, Call, OpenSteps
      <4>3. QED
        BY <2>4, <4>1, <4>2
    <3>2. call[t].op = "open"
      BY <3>1 DEF MirrorInv, Steps, OpenSteps
    <3>3. QED
      BY <3>1, <3>2, GoesOnAlone DEF MirrorInv, BeforeMemory, CommitSteps, OpenSteps
  <2>5. QED
    BY <2>1, <2>2, <2>3, <2>4
<1>4. QED
  BY <1>1, <1>3, Continues DEF InMemory

LEMMA MirrorUnlink ==
  ASSUME MirrorInv, TypeInv', NEW t \in Tasks, Unlink(t)
  PROVE  MirrorInv'
<1>1. UNCHANGED <<isOpen, mirror, store>> /\ call[t].pc = "unlink"
  BY DEF Unlink, memory, At
<1>2. \A u \in Tasks : call[u] \in Call
  BY OnTypes DEF MirrorInv
<1>3. ASSUME NEW u \in Tasks PROVE GoesOn(u)
  <2>1. \/ call'[u] = call[u]
        \/ call'[u] = [call[u] EXCEPT !.pc = "next"] /\ call[u].pc = "unlink"
        \/ call'[u] = [call[u] EXCEPT !.pc = "write_unlinked"] /\ call[u].pc = "write"
    BY <1>1 DEF Unlink, At
  <2>2. QED
    BY <1>2, <2>1 DEF MirrorInv, Steps, GoesOn, Same, BeforeMemory, CommitSteps, OpenSteps, Call
<1>4. QED
  BY <1>1, <1>3, Continues DEF InMemory

\* The loops: compact forgets the keys of empty collections only.
LEMMA MirrorLoops ==
  ASSUME MirrorInv, TypeInv', NEW t \in Tasks, PersistNext(t) \/ CompactNext(t)
  PROVE  MirrorInv'
<1>1. UNCHANGED <<isOpen, mirror>> /\ call[t].pc = "next"
  BY DEF PersistNext, CompactNext, memory, At
<1>2. \A c \in Collections : InMemory(c)' = InMemory(c)
  <2>1. DocsOf(NoDocs) = NoDocs /\ DocsOf(Absent) = NoDocs
    BY DEF DocsOf
  <2>2. CASE UNCHANGED store
    BY <2>2 DEF InMemory
  <2>3. CASE \E c \in Collections : store[c] = NoDocs /\ store' = [store EXCEPT ![c] = Absent]
    BY <2>1, <2>3 DEF InMemory, MirrorInv, TypeInv, TypeOK
  <2>4. QED
    BY <2>2, <2>3, OnTypes DEF PersistNext, CompactNext, memory, MirrorInv
<1>3. call \in [Tasks -> Call]
  BY DEF MirrorInv, TypeInv, TypeOK
<1>4. /\ Others(t) /\ Same(t)
      /\ call'[t].pc \in {"next", "truncate", "unlink_test"}
  <2>1. PICK c \in call[t].todo :
          \/ Become(t, Persisting([call[t] EXCEPT !.todo = @ \ {c}], c, store[c]))
          \/ Become(t, [call[t] EXCEPT !.todo = @ \ {c}])
    BY DEF PersistNext, CompactNext
  <2>2. CASE Become(t, [call[t] EXCEPT !.todo = @ \ {c}])
    BY <1>1, <1>3, <2>2, Fields DEF Same, Call, MirrorInv
  <2>3. CASE Become(t, Persisting([call[t] EXCEPT !.todo = @ \ {c}], c, store[c]))
    <3>1. Others(t) /\ call'[t] = Persisting([call[t] EXCEPT !.todo = @ \ {c}], c, store[c])
      BY <2>3, Fields DEF MirrorInv
    <3>2. QED
      BY <1>1, <1>3, <3>1 DEF Persisting, Same, Call
  <2>4. QED
    BY <2>1, <2>2, <2>3
<1>5. \A u \in Tasks : GoesOn(u)
  BY <1>1, <1>4, GoesOnAlone DEF MirrorInv, BeforeMemory, CommitSteps, OpenSteps
<1>6. QED
  BY <1>1, <1>2, <1>5, Continues

LEMMA MirrorLoopDone ==
  ASSUME MirrorInv, TypeInv', NEW t \in Tasks, LoopDone(t)
  PROVE  MirrorInv'
<1>1. UNCHANGED <<store, mirror>> /\ call[t].pc = "next" /\ call \in [Tasks -> Call]
  BY DEF LoopDone, At, MirrorInv, TypeInv, TypeOK
<1>2. CASE call[t].op = "close"
  <2>1. Become(t, [call[t] EXCEPT !.pc = "clear", !.log = wal]) /\ UNCHANGED isOpen
    BY <1>2 DEF LoopDone
  <2>2. /\ Others(t) /\ Same(t) /\ call'[t].pc = "clear"
    BY <1>1, <2>1 DEF Become, Others, Same, Call
  <2>3. \A u \in Tasks : GoesOn(u)
    BY <1>1, <2>2, GoesOnAlone DEF MirrorInv, BeforeMemory, CommitSteps, OpenSteps
  <2>4. QED
    BY <1>1, <2>1, <2>3, Continues DEF InMemory
<1>3. CASE call[t].op # "close"
  <2>1. Become(t, Idle) /\ (UNCHANGED isOpen \/ Runs(t, "open")) /\ ~At(t, "idle") /\ ~Writing(t)
    BY <1>1, <1>3 DEF LoopDone, Runs, Writing, At, Mutations
  <2>2. QED
    BY <1>1, <2>1, Ends
<1>4. QED
  BY <1>2, <1>3

LEMMA FailedRead ==
  ASSUME TypeInv, NEW t \in Tasks, LoadFails(t)
  PROVE  Others(t) /\ Same(t) /\ call'[t].pc = "loaded"
<1>1. PICK c \in call[t].todo :
        Become(t, [call[t] EXCEPT !.pc = "loaded", !.todo = @ \ {c}, !.target = c,
                                  !.image = Torn])
  BY DEF LoadFails
<1>2. QED
  BY <1>1 DEF Become, Others, Same, TypeInv, TypeOK, Call

\* Only an open loads and replays: nobody is subscribed then.
LEMMA MirrorRecovers ==
  ASSUME MirrorInv, TypeInv', NEW t \in Tasks, Loaded(t) \/ Replay(t) \/ LoadFails(t)
  PROVE  MirrorInv'
<1>1. /\ call[t].pc \in OpenSteps /\ call[t].op = "open" /\ ~isOpen /\ UNCHANGED mirror
      /\ call \in [Tasks -> Call]
  BY DEF MirrorInv, TypeInv, TypeOK, Steps, Runs, At, Loaded, Replay, LoadFails, OpenSteps, memory
<1>2. CASE Become(t, Idle) /\ Opened /\ UNCHANGED mirror
  <2>1. \A c \in Collections : mirror[c] = Absent
    BY <1>1 DEF MirrorInv, Subscribers
  <2>2. /\ call'[t].pc = "idle" /\ call'[t].op = "open"
        /\ \A u \in Tasks : u # t => call'[u] = call[u]
    BY <1>2 DEF Become, Idle, MirrorInv, TypeInv, TypeOK
  <2>3. Steps'
    BY <1>1, <2>2 DEF MirrorInv, Steps, Runs, Writing, At, OpenSteps
  <2>4. QED
    BY <1>2, <2>1, <2>3 DEF MirrorInv, Subscribers
<1>3. CASE ~Become(t, Idle) /\ UNCHANGED isOpen
  <2>1. Others(t) /\ Same(t) /\ call'[t].pc \in OpenSteps \cup {"clear"}
    <3>1. CASE Loaded(t) \/ Replay(t)
      BY <1>3, <3>1, Fields DEF Loaded, Replay, OpenSteps, MirrorInv
    <3>2. CASE LoadFails(t)
      BY <1>1, <3>2, FailedRead DEF MirrorInv, OpenSteps
    <3>3. QED
      BY <3>1, <3>2
  <2>2. \A u \in Tasks : GoesOn(u)
    BY <1>1, <2>1, GoesOnAlone DEF MirrorInv, BeforeMemory, CommitSteps, OpenSteps
  <2>3. QED
    BY <1>1, <1>3, <2>2, Continues
<1>4. QED
  <2>1. Become(t, Idle) => ~Loaded(t) /\ ~LoadFails(t)
    <3>1. Become(t, Idle) => call'[t].pc = "idle"
      BY DEF Become, Idle, MirrorInv, TypeInv, TypeOK
    <3>2. Loaded(t) \/ LoadFails(t) => call'[t].pc # "idle"
      BY Fields, FailedRead DEF Loaded, MirrorInv
    <3>3. QED
      BY <3>1, <3>2
  <2>2. QED
    <3>1. CASE Loaded(t) \/ LoadFails(t)
      BY <1>3, <2>1, <3>1 DEF Loaded, LoadFails, memory
    <3>2. CASE Replay(t)
      <4>1. Goto(t, "clear") => call'[t].pc = "clear"
        BY Fields DEF MirrorInv
      <4>2. Become(t, Idle) => call'[t].pc = "idle"
        BY Fields DEF Idle, MirrorInv
      <4>3. QED
        BY <1>1, <1>2, <1>3, <3>2, <4>1, <4>2 DEF Replay
    <3>3. QED
      BY <3>1, <3>2

LEMMA MirrorEnds ==
  ASSUME MirrorInv, TypeInv', NEW t \in Tasks,
         UnlinkFails(t) \/ Fail(t) \/ ClosedCleared(t)
  PROVE  MirrorInv'
<1>1. Become(t, Idle) /\ UNCHANGED store /\ ~At(t, "idle")
  BY DEF UnlinkFails, Fail, Throw, ClosedCleared, At, FileSteps
<1>2. CASE Throw(t)
  <2>1. /\ \A c \in Collections : mirror'[c] \in {mirror[c], Absent}
        /\ Writing(t) => mirror'[call[t].entry.coll] = Absent
        /\ UNCHANGED isOpen
    BY <1>2, OnTypes DEF Throw, Writing, Mutations, MirrorInv, TypeInv, TypeOK
  <2>2. QED
    BY <1>1, <2>1, Ends
<1>3. CASE ClosedCleared(t)
  <2>1. ~isOpen' /\ \A c \in Collections : mirror'[c] = Absent
    BY <1>3 DEF ClosedCleared
  <2>2. QED
    BY <1>1, <2>1, Ends, OnTypes DEF MirrorInv
<1>4. QED
  BY <1>2, <1>3 DEF UnlinkFails, Fail

LEMMA MirrorStarts ==
  ASSUME OwnDocuments, MirrorInv, TypeInv', NEW t \in Tasks, Start(t)
  PROVE  MirrorInv'
<1>1. ASSUME NEW c \in Collections, NEW i \in Ids, NEW v \in Values,
             Put(t, c, i, v) \/ Update(t, c, i, v)
      PROVE  MirrorInv'
  <2>1. PICK o \in {"put", "update"} : Mutate(t, o, c, i, v)
    BY <1>1 DEF Put, Update
  <2>2. /\ Others(t) /\ call'[t].op = o /\ call'[t].pc = "log_open"
          /\ call'[t].entry.coll = c /\ call'[t].entry.id = i
    BY <2>1 DEF Mutate, Idle, Become, Others, MirrorInv, TypeInv, TypeOK
  <2>3. At(t, "idle") /\ <<c, i>> \in Home[t] /\ UNCHANGED <<store, isOpen, mirror>>
    BY <1>1, <2>1 DEF Mutate, Put, Update
  <2>4. QED
    BY <2>2, <2>3, MirrorStart
<1>2. ASSUME NEW c \in Collections, NEW i \in Ids, Delete(t, c, i) PROVE MirrorInv'
  BY <1>2, MirrorDelete
<1>3. CASE Close(t) \/ Compact(t)
  <2>1. Others(t) /\ call'[t].op \in {"close", "compact"} /\ call'[t].pc = "next"
    <3>1. \E o \in {"close", "compact"} :
            Become(t, [Idle EXCEPT !.pc = "next", !.op = o, !.todo = Keys])
      BY <1>3 DEF Close, Compact
    <3>2. \E o \in {"close", "compact"} :
            Others(t) /\ call'[t] = [Idle EXCEPT !.pc = "next", !.op = o, !.todo = Keys]
      BY <3>1, Fields DEF MirrorInv
    <3>3. QED
      BY <3>2 DEF Idle
  <2>2. QED
    BY <1>3, <2>1, MirrorStart DEF Close, Compact, memory
<1>4. CASE Open(t)
  <2>1. Others(t) /\ call'[t].op = "open" /\ call'[t].pc = "load"
    BY <1>4 DEF Open, Idle, Become, Others, MirrorInv, TypeInv, TypeOK
  <2>2. \A u \in Tasks : ~Runs(u, "open")
    BY <1>4 DEF Open, Runs
  <2>3. QED
    BY <1>4, <2>1, <2>2, MirrorStart DEF Open
<1>5. ASSUME NEW c \in Collections, NEW i \in Ids, DeleteMissing(t, c, i) PROVE MirrorInv'
  <2>1. UNCHANGED <<store, isOpen, mirror, call>>
    BY <1>5 DEF DeleteMissing, memory
  <2>2. \A u \in Tasks : GoesOn(u)
    BY <2>1 DEF GoesOn, Same, MirrorInv, Steps, CommitSteps, OpenSteps
  <2>3. \A e \in Collections : InMemory(e)' = InMemory(e)
    BY <2>1 DEF InMemory
  <2>4. QED
    BY <2>1, <2>2, <2>3, Continues
<1>6. QED
  BY <1>1, <1>2, <1>3, <1>4, <1>5 DEF Start

LEMMA MirrorInit == Init => MirrorInv
<1> SUFFICES ASSUME Init PROVE MirrorInv
  OBVIOUS
<1>1. TypeInv
  BY TypeInit
<1>2. Steps
  BY DEF Init, Steps, Idle, Runs, Writing, At
<1>3. Subscribers
  BY DEF Init, Subscribers
<1>4. QED
  BY <1>1, <1>2, <1>3 DEF MirrorInv

LEMMA MirrorStep ==
  ASSUME OwnDocuments, MirrorInv, [Next]_vars
  PROVE  MirrorInv'
<1>1. TypeInv'
  BY TypeStep DEF MirrorInv
<1>2. ASSUME NEW t \in Tasks, Start(t) \/ Continue(t) \/ Fail(t) \/ LoadFails(t)
      PROVE  MirrorInv'
  BY <1>1, <1>2, MirrorStarts, MirrorGoesOn, MirrorLogged, MirrorUnlink, MirrorLoops,
     MirrorLoopDone, MirrorCommitted, MirrorRecovers, MirrorEnds
     DEF Continue
<1>3. CASE Crash
  <2>1. /\ ~isOpen' /\ \A c \in Collections : mirror'[c] = Absent
        /\ \A t \in Tasks : call'[t].pc = "idle" /\ call'[t].op = "open"
    BY <1>3 DEF Crash, Idle
  <2>2. QED
    BY <1>1, <2>1 DEF MirrorInv, Steps, Subscribers, Runs, Writing, At
<1>4. CASE UNCHANGED vars
  BY <1>1, <1>4 DEF vars, memory, MirrorInv, Steps, Subscribers, Runs, Writing, At, Follows, On,
                    Pending, InMemory
<1>5. QED
  BY <1>1, <1>2, <1>3, <1>4, MirrorWatch DEF Next

-----------------------------------------------------------------------------
\* Any number of calls at a time, on different documents, with closes,
\* reopenings, compactions, crashes and failing file operations between any
\* two steps: the insert, update and delete events of a collection (put,
\* update and delete of storage_engine.dart) come in an order that adds up to
\* the documents it has, and each is of the kind its receiver needs.
THEOREM SubscribersInSync ==
  ASSUME OwnDocuments
  PROVE  Spec => []MirrorInSync
<1>1. MirrorInv => MirrorInSync
  <2> SUFFICES ASSUME MirrorInv, isOpen, AllIdle, NEW c \in Collections, mirror[c] # Absent
               PROVE  mirror[c] = InMemory(c)
    BY DEF MirrorInSync
  <2>1. mirror[c] \in Docs /\ InMemory(c) \in Docs
    BY MemoryDocs DEF MirrorInv, Subscribers
  <2>2. \A i \in Ids : mirror[c][i] = InMemory(c)[i]
    BY DEF MirrorInv, Subscribers, Follows, On, Writing, AllIdle
  <2>3. QED
    BY <2>1, <2>2 DEF Docs
<1>2. Init => MirrorInv
  BY MirrorInit
<1>3. MirrorInv /\ [Next]_vars => MirrorInv'
  BY MirrorStep
<1>4. QED
  BY <1>1, <1>2, <1>3, PTL DEF Spec
=============================================================================
