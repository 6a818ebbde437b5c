------------------------ MODULE StoreRefinementProofs ------------------------
(* The storage engine with one caller at a time implements DocumentStore,    *)
(* for every value of its constants.                                         *)
EXTENDS StoreRefinement, OneCallerProofs

ShownIn(d) == Encoded[InMemory(d[1])[d[2]]]

LEMMA Mapped ==
  /\ ShownNow = IF isOpen THEN [d \in Documents |-> ShownIn(d)] ELSE Closed
  /\ MayShow = [d \in Documents |-> May(d)]
  BY DEF ShownNow, MayShow, ShownIn, May

\* What is shown of an open engine is a view: never Closed.
LEMMA ShownView ==
  ASSUME TypeInv
  PROVE  /\ [d \in Documents |-> ShownIn(d)] \in [Documents -> Values \cup {None}]
         /\ Store!IsOpen <=> isOpen
<1>1. \A d \in Documents : ShownIn(d) \in Values \cup {None}
  <2>1. ASSUME NEW c \in Collections, NEW i \in Ids PROVE ShownIn(<<c, i>>) \in MaybeValue
    BY MemoryTypes, DocsStored, EncodedTwice DEF ShownIn
  <2>2. QED
    BY <2>1 DEF Documents, MaybeValue
<1>2. [d \in Documents |-> ShownIn(d)] \in [Documents -> Values \cup {None}]
  BY <1>1
<1>3. Store!IsOpen <=> isOpen
  BY <1>2, Mapped, ClosedAssumption DEF Store!IsOpen, MaybeValue
<1>4. QED
  BY <1>2, <1>3

LEMMA RefinesInit ==
  ASSUME Init
  PROVE  Store!Init
<1>1. ShownNow = Closed /\ forfeit = {}
  BY DEF Init, ShownNow
<1>2. \A d \in Documents : May(d) = {None}
  BY EncodedAssumption DEF Init, May, Documents, NoDocs
<1>3. QED
  BY <1>1, <1>2, Mapped DEF Store!Init

\* A step that shows nothing: memory stays, or the engine is not open.
LEMMA Stutters ==
  ASSUME UNCHANGED <<isOpen, attempts, acked, forfeit>>,
         isOpen => \A c \in Collections : InMemory(c)' = InMemory(c)
  PROVE  UNCHANGED Store!vars
<1>1. \A d \in Documents : May(d)' = May(d)
  BY DEF May
<1>2. MayShow' = MayShow
  BY <1>1 DEF MayShow, May
<1>3. isOpen => \A d \in Documents : ShownIn(d)' = ShownIn(d)
  BY DEF ShownIn, Documents
<1>4. ShownNow' = ShownNow
  BY <1>3 DEF ShownNow, ShownIn
<1>5. QED
  BY <1>2, <1>4 DEF Store!vars

LEMMA MappedNext ==
  /\ ShownNow' = IF isOpen' THEN [d \in Documents |-> ShownIn(d)'] ELSE Closed
  /\ MayShow' = [d \in Documents |-> May(d)']
  BY DEF ShownNow, MayShow, ShownIn, May

LEMMA ShownViewNext ==
  ASSUME TypeInv', isOpen'
  PROVE  ShownNow' \in [Documents -> Values \cup {None}]
<1>1. ASSUME NEW c \in Collections, NEW i \in Ids PROVE ShownIn(<<c, i>>)' \in MaybeValue
  <2>1. store'[c] \in Docs \cup {Absent}
    BY DEF TypeInv, TypeOK
  <2>2. InMemory(c)' \in Docs
    BY <2>1, NoDocsStored, DocsStored DEF InMemory
  <2>3. QED
    BY <2>2, DocsStored, EncodedTwice DEF ShownIn
<1>2. QED
  BY <1>1, MappedNext DEF Documents, MaybeValue

\* delete takes one document out of memory.
LEMMA MemoryTaken ==
  ASSUME Inv, NEW c \in Collections, NEW i \in Ids, store[c] # Absent,
         store' = [store EXCEPT ![c][i] = None]
  PROVE  \A d \in Documents : ShownIn(d)' = IF d = <<c, i>> THEN Encoded[None] ELSE ShownIn(d)
<1>1. \A e \in Collections : e # c => InMemory(e)' = InMemory(e)
  BY DEF Inv, TypeInv, TypeOK, InMemory
<1>2. store[c] \in Docs /\ store'[c] = [store[c] EXCEPT ![i] = None]
  BY MemoryTypes DEF Inv, TypeInv, TypeOK
<1>3. store'[c] \in Docs
  BY <1>2 DEF Docs, MaybeValue
<1>4. InMemory(c) = store[c] /\ InMemory(c)' = store'[c]
  BY <1>2, <1>3, DocsStored DEF InMemory
<1>5. \A j \in Ids : InMemory(c)'[j] = IF j = i THEN None ELSE InMemory(c)[j]
  BY <1>2, <1>4 DEF Docs
<1>6. QED
  BY <1>1, <1>5 DEF ShownIn, Documents

\* put and update begin; what they bring appears when memory gets it.  delete
\* begins and shows at once.
LEMMA RefinesMutate ==
  ASSUME OneCaller, Inv, Inv', NEW o \in Mutations, NEW c \in Collections, NEW i \in Ids,
         NEW v \in MaybeValue, Mutate(Me, o, c, i, v),
         \/ UNCHANGED store
         \/ v = None /\ store[c] # Absent /\ store' = [store EXCEPT ![c][i] = None]
  PROVE  Store!Begin(<<c, i>>, Encoded[v])
<1>1. /\ isOpen /\ isOpen' /\ UNCHANGED <<acked, forfeit>>
      /\ attempts' = [attempts EXCEPT ![<<c, i>>] = @ \cup {v}]
  BY DEF Mutate
<1>2. /\ attempts'[<<c, i>>] = attempts[<<c, i>>] \cup {v}
      /\ \A d \in Documents : d # <<c, i>> => attempts'[d] = attempts[d]
  BY <1>1 DEF Inv, TypeInv, TypeOK, Documents
<1>3. \A d \in Documents : May(d)' = IF d = <<c, i>> THEN May(d) \cup {Encoded[v]} ELSE May(d)
  BY <1>1, <1>2 DEF May
<1>4. MayShow' = [MayShow EXCEPT ![<<c, i>>] = @ \cup {Encoded[v]}]
  BY <1>3, Mapped, MappedNext
<1>5. \/ \A d \in Documents : ShownIn(d)' = ShownIn(d)
      \/ \A d \in Documents : ShownIn(d)' = IF d = <<c, i>> THEN Encoded[v] ELSE ShownIn(d)
  <2>1. CASE UNCHANGED store
    BY <2>1 DEF ShownIn, InMemory
  <2>2. CASE v = None /\ store[c] # Absent /\ store' = [store EXCEPT ![c][i] = None]
    BY <2>2, MemoryTaken
  <2>3. QED
    BY <2>1, <2>2
<1>6. ShownNow' \in {ShownNow, [ShownNow EXCEPT ![<<c, i>>] = Encoded[v]]}
  BY <1>1, <1>5, Mapped, MappedNext
<1>7. QED
  BY <1>1, <1>4, <1>6, ShownView DEF Store!Begin, Inv

\* The value of a put, or of an update, gets to memory; delete changed it before.
LEMMA RefinesLogged ==
  ASSUME OneCaller, Inv, Logged(Me)
  PROVE  Store!Appear(<<Mine.entry.coll, Mine.entry.id>>)
<1> DEFINE d0 == <<Mine.entry.coll, Mine.entry.id>>
<1>1. PICK c \in Collections, i \in Ids : c = Mine.entry.coll /\ i = Mine.entry.id
  BY MineTypes
<1>2. PICK v \in MaybeValue : v = Mine.entry.val
  BY MineTypes
<1>3. /\ Mine.pc = "logged" /\ isOpen /\ isOpen' /\ UNCHANGED <<attempts, acked, forfeit>>
      /\ store' = [store EXCEPT ![c] = DocsAfter(Me)]
      /\ Mine.op \in Mutations
  BY <1>1, MineBecomes DEF Inv, Logged, At, Mine, Control, BeforeMemory, history, Mutations
<1>4. /\ v \in attempts[<<c, i>>]
      /\ Mine.op = "delete" => v = None /\ InMemory(c)[i] = None
  BY <1>1, <1>2, <1>3 DEF Inv, InCall, Mutating
<1>5. \A e \in Collections : e # c => InMemory(e)' = InMemory(e)
  BY <1>3 DEF Inv, TypeInv, TypeOK, InMemory
<1>6. \A j \in Ids : InMemory(c)'[j] = IF j = i THEN v ELSE InMemory(c)[j]
  <2>1. DocsAfter(Me) \in Docs \/ (Mine.op = "delete" /\ DocsAfter(Me) = store[c])
    BY <1>1, <1>2, MemoryTypes DEF Inv, DocsAfter, Mine, InMemory, Docs
  <2>2. Mine.op # "delete" => DocsAfter(Me) = [InMemory(c) EXCEPT ![i] = v]
    BY <1>1, <1>2 DEF DocsAfter, Mine, InMemory
  <2>3. store'[c] = DocsAfter(Me)
    BY <1>3 DEF Inv, TypeInv, TypeOK
  <2>4. CASE Mine.op = "delete"
    BY <1>4, <2>3, <2>4, <1>1 DEF DocsAfter, Mine, InMemory
  <2>5. CASE Mine.op # "delete"
    <3>1. InMemory(c)' = [InMemory(c) EXCEPT ![i] = v]
      BY <2>1, <2>2, <2>3, <2>5, DocsStored DEF InMemory
    <3>2. InMemory(c) \in Docs
      BY MemoryTypes DEF Inv
    <3>3. QED
      BY <3>1, <3>2 DEF Docs
  <2>6. QED
    BY <2>4, <2>5
<1>7. \A d \in Documents : ShownIn(d)' = IF d = <<c, i>> THEN Encoded[v] ELSE ShownIn(d)
  BY <1>5, <1>6 DEF ShownIn, Documents
<1>8. ShownNow' = [ShownNow EXCEPT ![<<c, i>>] = Encoded[v]]
  BY <1>3, <1>7, Mapped, MappedNext
<1>9. \A d \in Documents : May(d)' = May(d)
  BY <1>3 DEF May
<1>10. MayShow' = MayShow /\ Encoded[v] \in MayShow[<<c, i>>]
  BY <1>4, <1>9, Mapped, MappedNext DEF May, Documents
<1>11. QED
  BY <1>1, <1>3, <1>8, <1>10, ShownView DEF Store!Appear, Inv

LEMMA RefinesCommitted ==
  ASSUME OneCaller, Inv, Committed(Me)
  PROVE  Store!Acknowledge(<<Mine.entry.coll, Mine.entry.id>>)
<1>1. PICK c \in Collections, i \in Ids : c = Mine.entry.coll /\ i = Mine.entry.id
  BY MineTypes
<1>2. PICK v \in MaybeValue : v = Mine.entry.val
  BY MineTypes
<1>3. /\ Mine.pc = "committed" /\ isOpen /\ isOpen' /\ UNCHANGED store
      /\ acked' = [acked EXCEPT ![c][i] = v]
      /\ attempts' = [attempts EXCEPT ![<<c, i>>] = {}]
      /\ forfeit' = forfeit \ {<<c, i>>}
      /\ Mine.op \in Mutations
  BY <1>1, <1>2, MineBecomes DEF Inv, Committed, At, Mine, Control, Mutations
<1>4. InMemory(c)[i] = v
  BY <1>1, <1>2, <1>3 DEF Inv, InCall, Mutating, FileDone
<1>5. \A d \in Documents : May(d)' = IF d = <<c, i>> THEN {Encoded[v]} ELSE May(d)
  <2>1. ASSUME NEW e \in Collections, NEW j \in Ids
        PROVE  May(<<e, j>>)' = IF <<e, j>> = <<c, i>> THEN {Encoded[v]} ELSE May(<<e, j>>)
    BY <1>3 DEF Inv, TypeInv, TypeOK, May, Docs, Documents
  <2>2. QED
    BY <2>1 DEF Documents
<1>6. \A d \in Documents : ShownIn(d)' = ShownIn(d)
  BY <1>3 DEF ShownIn, InMemory
<1>7. ShownNow' = ShownNow /\ ShownNow[<<c, i>>] = Encoded[v]
  BY <1>3, <1>4, <1>6, Mapped, MappedNext DEF ShownIn, Documents
<1>8. MayShow' = [MayShow EXCEPT ![<<c, i>>] = {Encoded[v]}]
  BY <1>5, Mapped, MappedNext
<1>9. QED
  BY <1>1, <1>3, <1>7, <1>8, ShownView DEF Store!Acknowledge, Inv

LEMMA RefinesClosed ==
  ASSUME OneCaller, Inv, ClosedCleared(Me)
  PROVE  Store!Close
<1>1. isOpen /\ ~isOpen' /\ UNCHANGED <<attempts, acked, forfeit>>
  BY MineBecomes DEF Inv, ClosedCleared, At, Mine, Control, history
<1>2. \A d \in Documents : May(d)' = May(d)
  BY <1>1 DEF May
<1>3. QED
  BY <1>1, <1>2, Mapped, MappedNext, ShownView DEF Store!Close, Inv

\* What a crash and a failed read lose: the documents of the files in cs.
LEMMA RefinesLose ==
  ASSUME ~isOpen', UNCHANGED <<acked, attempts>>, NEW cs \in SUBSET Collections,
         forfeit' = forfeit \cup {d \in Documents : d[1] \in cs}
  PROVE  Store!Lose({Whole(c) : c \in cs})
<1> DEFINE fs == {Whole(c) : c \in cs}
<1>1. UNION fs = {d \in Documents : d[1] \in cs}
  BY DEF Whole, Documents
<1>2. \A d \in Documents : May(d)' = IF d \in UNION fs THEN May(d) \cup {None} ELSE May(d)
  BY <1>1 DEF May
<1>3. ShownNow' = Closed
  BY MappedNext
<1>4. MayShow' = [d \in Documents |-> IF d \in UNION fs THEN MayShow[d] \cup {None}
                                                       ELSE MayShow[d]]
  BY <1>2, Mapped, MappedNext
<1>5. QED
  BY <1>1, <1>3, <1>4 DEF Store!Lose

LEMMA RefinesCrash ==
  ASSUME OneCaller, Inv, Crash
  PROVE  Store!Next
<1> DEFINE cs == {c \in Collections : disk[c] = Torn /\ store[c] # Absent}
<1>1. Store!Lose({Whole(c) : c \in cs})
  <2>1. forfeit' = forfeit \cup {d \in Documents : d[1] \in cs}
    BY DEF Crash, Documents
  <2>2. QED
    BY <2>1, RefinesLose DEF Crash
<1>2. {Whole(c) : c \in cs} \in SUBSET {{c} \X Ids : c \in Collections}
  BY DEF Whole
<1>3. QED
  BY <1>1, <1>2 DEF Store!Next

LEMMA RefinesLoadFails ==
  ASSUME OneCaller, Inv, LoadFails(Me)
  PROVE  Store!Next
<1>1. ~isOpen /\ ~isOpen' /\ UNCHANGED <<acked, attempts>>
  BY DEF LoadFails, Inv, Control, Mine, At, memory
<1>2. PICK c \in Mine.todo : forfeit' = forfeit \cup Whole(c)
  BY DEF LoadFails, Mine, Whole
<1>3. c \in Collections
  BY <1>2, MineTypes
<1>4. {d \in Documents : d[1] \in {c}} = Whole(c)
  BY <1>3 DEF Documents, Whole
<1>5. Store!Lose({Whole(e) : e \in {c}})
  BY <1>1, <1>2, <1>3, <1>4, RefinesLose
<1>6. {Whole(e) : e \in {c}} \in SUBSET {{e} \X Ids : e \in Collections}
  BY <1>3 DEF Whole
<1>7. QED
  BY <1>5, <1>6 DEF Store!Next

\* An open ends: what each document shows is allowed, and its only value from
\* here on unless its file was lost.
LEMMA RefinesOpened ==
  ASSUME OneCaller, Inv, Inv', ~isOpen, Opened, ~Mutating, UNCHANGED <<store, disk>>,
         \A c \in Collections : Reloaded(c)
  PROVE  Store!Open
<1>1. /\ isOpen' /\ UNCHANGED forfeit
      /\ Shown = {d \in Documents : attempts[d] # {} /\ d \notin forfeit}
  BY MineBecomes DEF Inv, Opened, Shown, Mutating, Mutations, Mine, At
<1>2. ASSUME NEW c \in Collections, NEW i \in Ids
      PROVE  /\ ShownIn(<<c, i>>)' \in May(<<c, i>>)
             /\ May(<<c, i>>)' = IF <<c, i>> \in forfeit THEN May(<<c, i>>)
                                 ELSE {ShownIn(<<c, i>>)'}
  <2>1. InMemory(c)' = InMemory(c) /\ InMemory(c) \in Docs
    BY MemoryTypes DEF InMemory, Inv
  <2>2. ShownIn(<<c, i>>)' = Encoded[InMemory(c)[i]]
    BY <2>1 DEF ShownIn
  <2>3. Encoded[InMemory(c)[i]] \in May(<<c, i>>)
    <3>1. CASE store[c] # Absent
      BY <3>1 DEF Inv, Allowed
    <3>2. CASE store[c] = Absent
      <4>1. Encoded[InMemory(c)[i]] = None
        BY <3>2, MemoryTypes, NoDocsStored, EncodedAssumption DEF Inv
      <4>2. CASE Whole(c) \subseteq forfeit
        BY <4>1, <4>2 DEF Whole, May
      <4>3. CASE Synced(c)
        <5>1. OnDisk(c)[i] = None
          BY <4>1, <4>3, <2>1, DocsStored DEF Synced
        <5>2. QED
          BY <3>2, <4>1, <5>1 DEF Inv, Allowed
      <4>4. QED
        BY <4>2, <4>3 DEF Reloaded
    <3>3. QED
      BY <3>1, <3>2
  <2>4. CASE <<c, i>> \in Shown
    <3>1. /\ acked'[c][i] = InMemory(c)[i] /\ <<c, i>> \notin forfeit
          /\ attempts'[<<c, i>>] = {}
      BY <1>1, <2>4 DEF Opened, InMemory, Documents
    <3>2. May(<<c, i>>)' = {Encoded[InMemory(c)[i]]}
      BY <1>1, <3>1 DEF May
    <3>3. QED
      BY <2>2, <2>3, <3>1, <3>2
  <2>5. CASE <<c, i>> \notin Shown
    <3>1. acked'[c][i] = acked[c][i] /\ attempts'[<<c, i>>] = attempts[<<c, i>>]
      BY <2>5 DEF Opened, Documents
    <3>2. May(<<c, i>>)' = May(<<c, i>>)
      BY <1>1, <3>1 DEF May
    <3>3. <<c, i>> \notin forfeit => May(<<c, i>>) = {Encoded[acked[c][i]]}
      BY <1>1, <2>5 DEF May, Documents
    <3>4. QED
      BY <2>2, <2>3, <3>2, <3>3
  <2>6. QED
    BY <2>4, <2>5
<1>3. \A d \in Documents : /\ ShownIn(d)' \in May(d)
                          /\ May(d)' = IF d \in forfeit THEN May(d) ELSE {ShownIn(d)'}
  <2>1. ASSUME NEW d \in Documents
        PROVE  /\ ShownIn(d)' \in May(d)
               /\ May(d)' = IF d \in forfeit THEN May(d) ELSE {ShownIn(d)'}
    <3>1. PICK c \in Collections, i \in Ids : d = <<c, i>>
      BY DEF Documents
    <3>2. /\ ShownIn(<<c, i>>)' \in May(<<c, i>>)
          /\ May(<<c, i>>)' = IF <<c, i>> \in forfeit THEN May(<<c, i>>)
                              ELSE {ShownIn(<<c, i>>)'}
      BY <1>2
    <3>3. QED
      BY <3>1, <3>2 DEF ShownIn, May
  <2>2. QED
    BY <2>1
<1>4. ~Store!IsOpen
  BY ShownView DEF Inv
<1>5. ShownNow' \in [Documents -> Values \cup {None}]
  BY <1>1, ShownViewNext DEF Inv
<1>6. \A d \in Documents : ShownNow'[d] \in MayShow[d]
  BY <1>1, <1>3, Mapped, MappedNext
<1>7. MayShow' = [d \in Documents |-> IF d \in forfeit THEN MayShow[d] ELSE {ShownNow'[d]}]
  BY <1>1, <1>3, Mapped, MappedNext
<1>8. QED
  BY <1>1, <1>4, <1>5, <1>6, <1>7 DEF Store!Open, Store!View

\* A delete that finds nothing starts, and that is all.
LEMMA RefinesMissing ==
  ASSUME OneCaller, Inv, Inv', Me \in Tasks, NEW c \in Collections, NEW i \in Ids,
         DeleteMissing(Me, c, i)
  PROVE  Store!Begin(<<c, i>>, Encoded[None])
<1>0. TypeInv
  BY DEF Inv
<1>d. /\ acked'[c][i] = None
      /\ attempts'[<<c, i>>] = attempts[<<c, i>>] \cup ({acked[c][i]} \ {None})
      /\ \A e \in Collections, j \in Ids : <<e, j>> # <<c, i>> =>
           acked'[e][j] = acked[e][j] /\ attempts'[<<e, j>>] = attempts[<<e, j>>]
  <2>1. InDoubt(c, i)
    BY <1>0, Missing
  <2>2. QED
    BY <2>1 DEF InDoubt
<1>1. isOpen /\ isOpen' /\ UNCHANGED <<store, forfeit>>
  BY DEF DeleteMissing, memory
<1>2. ASSUME NEW e \in Collections, NEW j \in Ids
      PROVE  May(<<e, j>>)' = IF <<e, j>> = <<c, i>> THEN May(<<e, j>>) \cup {Encoded[None]}
                                                    ELSE May(<<e, j>>)
  <2>1. CASE <<e, j>> = <<c, i>>
    <3>1. e = c /\ j = i
      BY <2>1
    <3>3. May(<<c, i>>)' = May(<<c, i>>) \cup {Encoded[None]}
      <4> DEFINE old == attempts[<<c, i>>] \cup {acked[c][i]}
                 new == attempts'[<<c, i>>] \cup {acked'[c][i]}
      <4>1. new = old \cup {None}
        BY <1>d
      <4>2. {Encoded[v] : v \in new} = {Encoded[v] : v \in old} \cup {Encoded[None]}
        BY <4>1
      <4> HIDE DEF old, new
      <4>3. forfeit' = forfeit
        BY <1>1
      <4>4. QED
        BY <4>2, <4>3, MayOf DEF old, new
    <3>4. QED
      BY <2>1, <3>1, <3>3
  <2>2. CASE <<e, j>> # <<c, i>>
    <3>1. acked'[e][j] = acked[e][j] /\ attempts'[<<e, j>>] = attempts[<<e, j>>]
      BY <1>d, <2>2
    <3>2. QED
      BY <1>1, <2>2, <3>1, MayOf
  <2>3. QED
    BY <2>1, <2>2
<1>3. ASSUME NEW d \in Documents
      PROVE  May(d)' = IF d = <<c, i>> THEN May(d) \cup {Encoded[None]} ELSE May(d)
  <2>1. PICK e \in Collections, j \in Ids : d = <<e, j>>
    BY DEF Documents
  <2>2. May(<<e, j>>)' = IF <<e, j>> = <<c, i>> THEN May(<<e, j>>) \cup {Encoded[None]}
                                               ELSE May(<<e, j>>)
    BY <1>2
  <2>3. QED
    BY <2>1, <2>2
<1>4. MayShow' = [MayShow EXCEPT ![<<c, i>>] = @ \cup {Encoded[None]}]
  BY <1>3, Mapped, MappedNext
<1>5. \A d \in Documents : ShownIn(d)' = ShownIn(d)
  BY <1>1 DEF ShownIn, InMemory
<1>6. ShownNow' = ShownNow
  BY <1>1, <1>5, Mapped, MappedNext
<1>7. QED
  BY <1>1, <1>4, <1>6, ShownView DEF Store!Begin, Inv

\* One step of the engine is one step of the store, or shows nothing.
LEMMA RefinesStart ==
  ASSUME OneCaller, Inv, Inv', Start(Me)
  PROVE  Store!Next \/ UNCHANGED Store!vars
<1>1. ASSUME NEW c \in Collections, NEW i \in Ids, NEW v \in Values,
             Put(Me, c, i, v) \/ Update(Me, c, i, v)
      PROVE  Store!Next
  <2>1. UNCHANGED store /\ \E o \in Mutations : Mutate(Me, o, c, i, v)
    BY <1>1 DEF Put, Update, Mutations
  <2>2. Store!Begin(<<c, i>>, Encoded[v])
    BY <2>1, RefinesMutate DEF MaybeValue
  <2>3. <<c, i>> \in Documents /\ Encoded[v] \in Values \cup {None}
    BY EncodedTwice DEF Documents, MaybeValue
  <2>4. QED
    BY <2>2, <2>3 DEF Store!Next
<1>2. ASSUME NEW c \in Collections, NEW i \in Ids, Delete(Me, c, i) PROVE Store!Next
  <2>1. store[c] # Absent
    BY <1>2 DEF Delete, DocsOf, NoDocs
  <2>2. Store!Begin(<<c, i>>, Encoded[None])
    BY <1>2, <2>1, RefinesMutate DEF Delete, Mutations, MaybeValue
  <2>3. <<c, i>> \in Documents /\ Encoded[None] \in Values \cup {None}
    BY EncodedTwice DEF Documents, MaybeValue
  <2>4. QED
    BY <2>2, <2>3 DEF Store!Next
<1>3. CASE Open(Me) \/ Close(Me) \/ Compact(Me)
  BY <1>3, Stutters DEF Open, Close, Compact, memory, history, InMemory
<1>4. ASSUME NEW c \in Collections, NEW i \in Ids, DeleteMissing(Me, c, i) PROVE Store!Next
  <2>1. Me \in Tasks
    BY MineBecomes DEF Inv
  <2>2. Store!Begin(<<c, i>>, Encoded[None])
    BY <1>4, <2>1, RefinesMissing
  <2>3. <<c, i>> \in Documents /\ Encoded[None] \in Values \cup {None}
    BY EncodedTwice DEF Documents, MaybeValue
  <2>4. QED
    BY <2>2, <2>3 DEF Store!Next
<1>5. QED
  BY <1>1, <1>2, <1>3, <1>4 DEF Start

LEMMA RefinesCompactNext ==
  ASSUME OneCaller, Inv, CompactNext(Me)
  PROVE  UNCHANGED Store!vars
<1>1. UNCHANGED <<isOpen, history>>
  BY DEF CompactNext
<1>2. PICK c \in Mine.todo :
        store' = IF store[c] = NoDocs THEN [store EXCEPT ![c] = Absent] ELSE store
  BY DEF CompactNext, Mine
<1>3. \A e \in Collections : InMemory(e)' = InMemory(e)
  BY <1>2, NoDocsStored, DocsStored DEF Inv, TypeInv, TypeOK, InMemory
<1>4. QED
  BY <1>1, <1>3, Stutters DEF history

LEMMA RefinesLoopDone ==
  ASSUME OneCaller, Inv, Inv', LoopDone(Me)
  PROVE  Store!Next \/ UNCHANGED Store!vars
<1>1. Mine.pc = "next" /\ Mine.todo = {} /\ UNCHANGED <<store, disk>>
  BY DEF LoopDone, At, Mine, files
<1>2. CASE Mine.op = "open"
  <2>1. Opened /\ ~isOpen /\ ~Mutating /\ \A c \in Collections : Reloaded(c)
    BY <1>1, <1>2 DEF Inv, LoopDone, Mine, Control, Mutating, Mutations, Opening, AtFile
  <2>2. QED
    BY <1>1, <2>1, RefinesOpened DEF Store!Next
<1>3. CASE Mine.op # "open"
  BY <1>1, <1>3, Stutters DEF LoopDone, Mine, history, InMemory
<1>4. QED
  BY <1>2, <1>3

LEMMA RefinesReplay ==
  ASSUME OneCaller, Inv, Inv', Replay(Me)
  PROVE  Store!Next \/ UNCHANGED Store!vars
<1>1. /\ Mine.pc = "replay" /\ ~isOpen /\ ~Mutating /\ UNCHANGED disk
      /\ \A c \in Collections : Reloaded(c)
  BY DEF Inv, Replay, At, Mine, Control, Mutating, Mutations, Opening, files
<1>2. CASE Mine.batch = << >>
  <2>1. Opened
    BY <1>2 DEF Replay, Mine
  <2>2. UNCHANGED store
    <3>1. Touched(Mine.batch) = {}
      BY <1>2 DEF Touched
    <3>2. store' = [c \in Collections |-> store[c]]
      BY <3>1 DEF Replay, Mine
    <3>3. QED
      BY <3>2 DEF Inv, TypeInv, TypeOK
  <2>3. QED
    BY <1>1, <2>1, <2>2, RefinesOpened DEF Store!Next
<1>3. CASE Mine.batch # << >>
  BY <1>1, <1>3, Stutters DEF Replay, Mine, history
<1>4. QED
  BY <1>2, <1>3

LEMMA RefinesContinue ==
  ASSUME OneCaller, Inv, Inv', Continue(Me)
  PROVE  Store!Next \/ UNCHANGED Store!vars
<1>1. <<Mine.entry.coll, Mine.entry.id>> \in Documents
  BY MineTypes DEF Documents
<1>2. CASE Logged(Me) \/ Committed(Me) \/ ClosedCleared(Me)
  BY <1>1, <1>2, RefinesLogged, RefinesCommitted, RefinesClosed DEF Store!Next
<1>3. CASE CompactNext(Me) \/ LoopDone(Me) \/ Replay(Me)
  BY <1>3, RefinesCompactNext, RefinesLoopDone, RefinesReplay
<1>4. CASE UNCHANGED <<store, isOpen, history>>
  BY <1>4, Stutters DEF history, InMemory
<1>5. CASE Loaded(Me)
  <2>1. ~isOpen /\ UNCHANGED <<isOpen, history>>
    BY <1>5 DEF Inv, Control, Loaded, At, Mine
  <2>2. QED
    BY <2>1, Stutters DEF history
<1>6. QED
  BY <1>2, <1>3, <1>4, <1>5
     DEF Continue, LogOpen, LogWrite, LogTail, Truncate, Write, WriteUnlinked,
         UnlinkTest, Unlink, UnlinkFails, Throw, StartCommit, PersistNext, CommitRead,
         CommitFilter, CommitOpen, CommitWrite, Clear, ReplayedCleared, Load, RecoverRead,
         memory

LEMMA RefinesNext ==
  ASSUME OneCaller, Inv, Inv', [Next]_vars
  PROVE  [Store!Next]_(Store!vars)
<1>1. Me \in Tasks /\ \A t \in Tasks : t = Me
  BY MineBecomes DEF Inv
<1>2. CASE Start(Me) \/ Continue(Me)
  BY <1>2, RefinesStart, RefinesContinue
<1>3. CASE LoadFails(Me) \/ Crash
  BY <1>3, RefinesLoadFails, RefinesCrash
<1>4. CASE Fail(Me) \/ (\E c \in Watched : Watch(c)) \/ UNCHANGED vars
  BY <1>4, Stutters DEF Fail, Throw, Watch, vars, memory, history, InMemory
<1>5. QED
  BY <1>1, <1>2, <1>3, <1>4 DEF Next

-----------------------------------------------------------------------------
\* With one caller the engine implements the abstract store, whatever crashes,
\* fails, is recovered, closed or opened again, but for an open that failed and
\* is tried again: no reader sees a value that was not acknowledged or tried
\* since its document was settled, and what an open shows every later one
\* shows.  A call that failed leaves its document unsettled, also when a delete
\* that finds nothing returns success after it.
THEOREM EngineImplementsStore ==
  ASSUME OneCaller
  PROVE  Spec /\ OpensCleanly => ImplementsStore
<1>1. Init => Store!Init
  BY RefinesInit
<1>2. Inv /\ Inv' /\ [Next]_vars => [Store!Next]_(Store!vars)
  BY RefinesNext
<1>3. Spec /\ OpensCleanly => []Inv
  BY OneCallerInvariant
<1>4. QED
  BY <1>1, <1>2, <1>3, PTL DEF Spec, ImplementsStore, Store!Spec
=============================================================================
