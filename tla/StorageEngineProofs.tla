------------------------- MODULE StorageEngineProofs -------------------------
(* Theorems about the storage engine, for every value of its constants.      *)
EXTENDS StorageEngine, FiniteSetTheorems, SequenceTheorems, WellFoundedInduction, TLAPS

-----------------------------------------------------------------------------
(* What the readers of a log return.                                         *)

Less == {pair \in Nat \X Nat : pair[1] < pair[2]}

\* Every non-empty set of naturals has a least element.
LEMMA LeastNatural ==
  ASSUME NEW T \in SUBSET Nat, T # {}
  PROVE  \E m \in T : \A n \in T : m <= n
<1>1. IsWellFoundedOn(OpToRel(<, Nat), Nat)
  BY NatLessThanWellFounded
<1>2. OpToRel(<, Nat) = Less
  BY DEF OpToRel, Less
<1>3. IsWellFoundedOn(Less, Nat)
  BY <1>1, <1>2
<1>4. PICK m \in T : \A n \in T : ~ (<<n, m>> \in Less)
  BY <1>3, WFMin, Zenon
<1>5. ASSUME NEW n \in T, ~ (m <= n) PROVE FALSE
  <2>1. <<n, m>> \in Less
    BY <1>5 DEF Less
  <2>2. QED
    BY <2>1, <1>4
<1>6. QED
  BY <1>5

-----------------------------------------------------------------------------
\* A cell of the log that the reader gets to: no cell before it is torn.
Legible(file, k) == \A j \in 1..k : file[j] # Torn

\* readUncommitted returns entries, and exactly the ones it gets to.
LEMMA ReadableEntries ==
  ASSUME NEW file \in Seq(Entry \cup {Torn})
  PROVE  /\ Readable(file) \in Seq(Entry)
         /\ \A k \in DOMAIN Readable(file) :
              k \in DOMAIN file /\ Legible(file, k) /\ Readable(file)[k] = file[k]
         /\ \A k \in DOMAIN file : Legible(file, k) => k \in DOMAIN Readable(file)
<1>1. CASE \A k \in DOMAIN file : file[k] # Torn
  <2>1. Readable(file) = file
    BY <1>1 DEF Readable
  <2>2. file \in Seq(Entry)
    BY <1>1
  <2>3. QED
    BY <1>1, <2>1, <2>2 DEF Legible
<1>2. CASE ~ \A k \in DOMAIN file : file[k] # Torn
  <2> DEFINE T == {k \in DOMAIN file : file[k] = Torn}
  <2> DEFINE First(k) == /\ file[k] = Torn
                         /\ \A j \in 1..(k - 1) : file[j] # Torn
  <2> DEFINE f == CHOOSE k \in DOMAIN file : First(k)
  <2>1. T # {} /\ T \in SUBSET Nat
    BY <1>2
  <2>2. PICK m \in T : \A n \in T : m <= n
    BY <2>1, LeastNatural
  <2>3. m \in DOMAIN file /\ First(m)
    <3>1. ASSUME NEW j \in 1..(m - 1), file[j] = Torn PROVE FALSE
      BY <2>2, <3>1
    <3>2. QED
      BY <2>2, <3>1
  <2>4. f \in DOMAIN file /\ First(f)
    BY <2>3
  <2> HIDE DEF f
  <2>5. Readable(file) = SubSeq(file, 1, f - 1)
    BY <1>2 DEF Readable, f
  <2>6. \A j \in 1..(f - 1) : file[j] \in Entry
    BY <2>4
  <2>7. /\ SubSeq(file, 1, f - 1) \in Seq(Entry)
        /\ Len(SubSeq(file, 1, f - 1)) = f - 1
        /\ \A j \in 1..(f - 1) : SubSeq(file, 1, f - 1)[j] = file[j]
    BY <2>4, <2>6
  <2>8. \A k \in DOMAIN file : Legible(file, k) => k \in 1..(f - 1)
    BY <2>4 DEF Legible
  <2>9. QED
    BY <2>4, <2>5, <2>7, <2>8 DEF Legible
<1>3. QED
  BY <1>1, <1>2

\* Picking elements of a sequence yields a sequence of such elements.
LEMMA PickedElements ==
  ASSUME NEW S, NEW s \in Seq(S), NEW P \in SUBSET DOMAIN s
  PROVE  Picked(s, P) \in Seq(S)
<1> DEFINE Upto(k) == {j \in P : j <= k}
<1> DEFINE rank(k) == Cardinality(Upto(k))
<1> DEFINE size == Cardinality(P)
<1>1. DOMAIN s = 1..Len(s) /\ Len(s) \in Nat /\ P \subseteq 1..Len(s)
  OBVIOUS
<1>2. IsFiniteSet(P) /\ size \in Nat
  <2>1. IsFiniteSet(1..Len(s))
    BY <1>1, FS_Interval
  <2>2. QED
    BY <1>1, <2>1, FS_Subset, FS_CardinalityType
<1>3. \A k \in Nat : IsFiniteSet(Upto(k)) /\ rank(k) \in Nat
  <2>1. \A k \in Nat : Upto(k) \subseteq P
    OBVIOUS
  <2>2. QED
    BY <1>2, <2>1, FS_Subset, FS_CardinalityType
<1>4. rank(Len(s)) = size
  <2>1. Upto(Len(s)) = P
    BY <1>1
  <2>2. QED
    BY <2>1
<1>5. rank(0) = 0
  <2>1. Upto(0) = {}
    BY <1>1
  <2>2. QED
    BY <2>1, FS_EmptySet
<1>6. ASSUME NEW k \in Nat, k \notin P, k # 0
      PROVE  rank(k) = rank(k - 1)
  <2>1. Upto(k) = Upto(k - 1)
    BY <1>1, <1>6
  <2>2. QED
    BY <2>1
<1>7. ASSUME NEW k \in P
      PROVE  rank(k) = rank(k - 1) + 1
  <2>1. Upto(k) = Upto(k - 1) \cup {k} /\ k \notin Upto(k - 1) /\ k - 1 \in Nat
    BY <1>1
  <2>2. QED
    BY <1>3, <2>1, FS_AddElement
<1> HIDE DEF rank, size
<1>8. ASSUME NEW n \in 1..size
      PROVE  \E k \in P : rank(k) = n
  <2> DEFINE T == {k \in Nat : rank(k) >= n}
  <2>1. Len(s) \in T
    BY <1>1, <1>2, <1>4
  <2>2. PICK m \in T : \A k \in T : m <= k
    <3>1. T \in SUBSET Nat /\ T # {}
      BY <2>1
    <3>2. QED
      BY <3>1, LeastNatural
  <2>3. m # 0
    BY <1>5, <2>2
  <2>4. m - 1 \in Nat /\ rank(m - 1) \in Nat /\ rank(m - 1) < n
    <3>1. m - 1 \in Nat /\ m - 1 \notin T
      BY <2>2, <2>3
    <3>2. ~ (rank(m - 1) >= n)
      BY <3>1
    <3>3. rank(m - 1) \in Nat
      BY <1>3, <3>1
    <3>4. QED
      BY <1>2, <3>1, <3>2, <3>3
  <2>5. rank(m) >= n /\ m \in Nat
    BY <2>2
  <2>6. m \in P
    BY <1>6, <2>3, <2>4, <2>5
  <2>7. QED
    BY <1>7, <2>4, <2>5, <2>6
<1> DEFINE kth(n) == CHOOSE k \in P : rank(k) = n
<1>9. ASSUME NEW n \in 1..size
      PROVE  s[kth(n)] \in S
  <2>1. kth(n) \in P
    BY <1>8
  <2>2. QED
    BY <1>1, <2>1
<1>10. Picked(s, P) = [n \in 1..size |-> s[kth(n)]]
  BY DEF Picked, rank, size
<1> HIDE DEF kth
<1>11. QED
  BY <1>2, <1>9, <1>10

\* The counter only moves forward, and not past the entries that were read.
LEMMA BumpedCounter ==
  ASSUME NEW n \in Nat, NEW entries \in Seq(Entry)
  PROVE  /\ Bumped(n, entries) \in Nat
         /\ Bumped(n, entries) >= n
         /\ (\A k \in DOMAIN entries : entries[k].seq <= n) => Bumped(n, entries) = n
<1> DEFINE X(k) == {n} \cup {entries[j].seq : j \in 1..k}
<1> DEFINE HasMax(k) == \E m \in X(k) : \A x \in X(k) : x <= m
<1> DEFINE size == Len(entries)
<1>1. size \in Nat /\ DOMAIN entries = 1..size
  OBVIOUS
<1>2. \A j \in 1..size : entries[j].seq \in Nat
  <2>1. \A j \in 1..size : entries[j] \in Entry
    OBVIOUS
  <2>2. QED
    BY <2>1 DEF Entry
<1>3. \A k \in 0..size : X(k) \subseteq Nat
  BY <1>2
<1>x0. X(0) = {n}
  OBVIOUS
<1>x1. \A k \in 1..size : X(k) = X(k - 1) \cup {entries[k].seq}
  BY <1>1
<1>5. X(size) = {n} \cup {entries[k].seq : k \in DOMAIN entries}
  BY <1>1
<1>8. n \in X(size) /\ X(size) \subseteq Nat
  BY <1>1, <1>3
<1> HIDE DEF X, size
<1>4. HasMax(size)
  <2> DEFINE T == {k \in 0..size : ~ HasMax(k)}
  <2>0. SUFFICES ASSUME T # {} PROVE FALSE
    <3>1. size \in 0..size
      BY <1>1
    <3>2. QED
      BY <3>1
  <2>1. HasMax(0)
    BY <1>x0
  <2> HIDE DEF HasMax
  <2>2. T \in SUBSET Nat
    BY <1>1
  <2>3. PICK k \in T : \A j \in T : k <= j
    BY <2>0, <2>2, LeastNatural
  <2>4. k \in 1..size /\ ~ HasMax(k)
    BY <1>1, <2>1, <2>3
  <2>5. HasMax(k - 1)
    BY <1>1, <2>3, <2>4
  <2>6. X(k) = X(k - 1) \cup {entries[k].seq}
    BY <1>x1, <2>4
  <2>7. PICK m \in X(k - 1) : \A x \in X(k - 1) : x <= m
    BY <2>5 DEF HasMax
  <2>8. m \in Nat /\ entries[k].seq \in Nat /\ X(k - 1) \subseteq Nat
    <3>1. k - 1 \in 0..size
      BY <1>1, <2>4
    <3>2. QED
      BY <1>2, <1>3, <2>4, <2>7, <3>1
  <2>9. \E g \in X(k) : \A x \in X(k) : x <= g
    <3>1. CASE entries[k].seq <= m
      BY <2>6, <2>7, <2>8, <3>1
    <3>2. CASE ~ (entries[k].seq <= m)
      <4>1. \A x \in X(k) : x <= entries[k].seq
        BY <2>6, <2>7, <2>8, <3>2
      <4>2. QED
        BY <2>6, <4>1
    <3>3. QED
      BY <3>1, <3>2
  <2>10. QED
    BY <2>4, <2>9 DEF HasMax
<1>6. Bumped(n, entries) = CHOOSE m \in X(size) : \A x \in X(size) : x <= m
  BY <1>5 DEF Bumped
<1>7. Bumped(n, entries) \in X(size) /\ \A x \in X(size) : x <= Bumped(n, entries)
  BY <1>4, <1>6
<1>9. ASSUME \A k \in DOMAIN entries : entries[k].seq <= n
      PROVE  Bumped(n, entries) = n
  <2>1. \A x \in X(size) : x <= n
    BY <1>5, <1>9
  <2>2. Bumped(n, entries) <= n /\ n <= Bumped(n, entries)
    BY <1>7, <1>8, <2>1
  <2>3. QED
    BY <1>7, <1>8, <2>2
<1>10. QED
  BY <1>7, <1>8, <1>9

\* Nothing is picked at no position.
LEMMA PickedNone ==
  ASSUME NEW s
  PROVE  Picked(s, {}) = << >>
<1>1. Cardinality({}) = 0
  BY FS_EmptySet
<1>2. QED
  BY <1>1 DEF Picked

\* Writing cells anywhere leaves a sequence of cells.
LEMMA WriteAtCells ==
  ASSUME NEW file \in Seq(Entry \cup {Torn}), NEW offset \in Nat,
         NEW cells \in Seq(Entry \cup {Torn}), NEW out \in WriteAt(file, offset, cells)
  PROVE  out \in Seq(Entry \cup {Torn})
<1> DEFINE end == offset + Len(cells)
<1> DEFINE size == IF end > Len(file) THEN end ELSE Len(file)
<1> DEFINE cell(k) == IF k > offset /\ k <= end THEN cells[k - offset]
                      ELSE IF k <= Len(file) THEN file[k] ELSE Torn
<1> DEFINE exact == [k \in 1..size |-> cell(k)]
<1>1. size \in Nat /\ end \in Nat
  OBVIOUS
<1>2. \A k \in 1..size : cell(k) \in Entry \cup {Torn}
  OBVIOUS
<1>3. exact \in Seq(Entry \cup {Torn}) /\ DOMAIN exact = 1..size
  BY <1>1, <1>2
<1>4. out = exact \/ (end < Len(file) /\ out = [exact EXCEPT ![end + 1] = Torn])
  BY DEF WriteAt
<1> HIDE DEF exact
<1>5. ASSUME end < Len(file)
      PROVE  [exact EXCEPT ![end + 1] = Torn] \in Seq(Entry \cup {Torn})
  <2>1. end + 1 \in 1..Len(exact)
    BY <1>1, <1>3, <1>5
  <2>2. Torn \in Entry \cup {Torn}
    OBVIOUS
  <2>3. QED
    BY <1>3, <2>1, <2>2, ExceptSeq
<1>6. QED
  BY <1>3, <1>4, <1>5

\* An append to a file nobody else has touched adds one cell ...
LEMMA AppendAtEnd ==
  ASSUME NEW file \in Seq(Entry \cup {Torn}), NEW cell \in Entry \cup {Torn},
         NEW out \in WriteAt(file, Len(file), <<cell>>)
  PROVE  out = Append(file, cell)
<1> DEFINE longer == [k \in 1..(Len(file) + 1) |->
                        IF k <= Len(file) THEN file[k] ELSE cell]
<1>1. Len(<<cell>>) = 1 /\ <<cell>>[1] = cell /\ Len(file) \in Nat
  OBVIOUS
<1>2. out = longer
  BY <1>1 DEF WriteAt
<1>3. longer \in Seq(Entry \cup {Torn}) /\ Len(longer) = Len(file) + 1
  BY <1>1
<1>4. \A k \in 1..(Len(file) + 1) : longer[k] = Append(file, cell)[k]
  BY <1>1
<1>5. /\ Append(file, cell) \in Seq(Entry \cup {Torn})
      /\ Len(Append(file, cell)) = Len(file) + 1
  OBVIOUS
<1> HIDE DEF longer
<1>6. longer = Append(file, cell)
  BY <1>3, <1>4, <1>5, SeqEqual
<1>7. QED
  BY <1>2, <1>6

\* ... and completing it replaces that cell.
LEMMA CompleteAtEnd ==
  ASSUME NEW file \in Seq(Entry \cup {Torn}), NEW cell \in Entry \cup {Torn},
         NEW offset \in Nat, offset + 1 = Len(file),
         NEW out \in WriteAt(file, offset, <<cell>>)
  PROVE  out = [file EXCEPT ![offset + 1] = cell]
<1>1. Len(<<cell>>) = 1 /\ <<cell>>[1] = cell /\ Len(file) \in Nat
  OBVIOUS
<1>2. out = [k \in 1..Len(file) |-> IF k > offset THEN cell ELSE file[k]]
  BY <1>1 DEF WriteAt
<1>3. DOMAIN file = 1..Len(file)
  OBVIOUS
<1>4. \A k \in 1..Len(file) : k > offset <=> k = offset + 1
  BY <1>1
<1>5. [file EXCEPT ![offset + 1] = cell]
        = [k \in 1..Len(file) |-> IF k = offset + 1 THEN cell ELSE file[k]]
  BY <1>3
<1>6. QED
  BY <1>2, <1>4, <1>5

\* Replaying entries over documents yields documents, changes none that no
\* entry is about, and gives the others the value of an entry about them.
LEMMA ReplayedDocs ==
  ASSUME NEW docs \in [Ids -> MaybeValue], NEW entries \in Seq(Entry),
         NEW c \in Collections
  PROVE  /\ Replayed(docs, entries, c) \in [Ids -> MaybeValue]
         /\ \A i \in Ids :
              (\A k \in DOMAIN entries : ~ (entries[k].coll = c /\ entries[k].id = i))
                => Replayed(docs, entries, c)[i] = docs[i]
         /\ \A i \in Ids :
              \/ Replayed(docs, entries, c)[i] = docs[i]
              \/ \E k \in DOMAIN entries :
                   /\ entries[k].coll = c /\ entries[k].id = i
                   /\ Replayed(docs, entries, c)[i] = Encoded[entries[k].val]
<1> DEFINE Hits(i) == {k \in DOMAIN entries : entries[k].coll = c /\ entries[k].id = i}
<1> DEFINE last(i) == CHOOSE k \in Hits(i) : \A j \in Hits(i) : j <= k
<1> DEFINE value(i) == IF Hits(i) = {} THEN docs[i] ELSE Encoded[entries[last(i)].val]
<1>1. Replayed(docs, entries, c) = [i \in Ids |-> value(i)]
  BY DEF Replayed
<1>2. ASSUME NEW i \in Ids, Hits(i) # {} PROVE last(i) \in Hits(i)
  <2> DEFINE size == Len(entries)
  <2> DEFINE T == {n \in Nat : \A j \in Hits(i) : j <= n}
  <2>1. size \in T
    OBVIOUS
  <2>2. PICK m \in T : \A n \in T : m <= n
    BY <2>1, LeastNatural
  <2>3. m \in Hits(i)
    <3>1. SUFFICES ASSUME m \notin Hits(i) PROVE FALSE
      OBVIOUS
    <3>2. \A j \in Hits(i) : j <= m - 1 /\ j >= 1
      BY <2>2, <3>1
    <3>3. m - 1 \in T
      BY <1>2, <2>2, <3>2
    <3>4. QED
      BY <2>2, <3>3
  <2>4. \E k \in Hits(i) : \A j \in Hits(i) : j <= k
    BY <2>2, <2>3
  <2>5. QED
    BY <2>4
<1>3. ASSUME NEW i \in Ids PROVE value(i) \in MaybeValue
  <2>1. CASE Hits(i) = {}
    BY <2>1
  <2>2. CASE Hits(i) # {}
    <3>1. entries[last(i)] \in Entry
      <4>1. last(i) \in DOMAIN entries
        BY <1>2, <2>2
      <4> HIDE DEF last
      <4>2. QED
        BY <4>1
    <3>2. entries[last(i)].val \in MaybeValue
      BY <3>1 DEF Entry
    <3>3. QED
      BY <2>2, <3>2, EncodedAssumption
  <2>3. QED
    BY <2>1, <2>2
<1> HIDE DEF value
<1>4. Replayed(docs, entries, c) \in [Ids -> MaybeValue]
  BY <1>1, <1>3
<1>5. ASSUME NEW i \in Ids,
             \A k \in DOMAIN entries : ~ (entries[k].coll = c /\ entries[k].id = i)
      PROVE  Replayed(docs, entries, c)[i] = docs[i]
  <2>1. Hits(i) = {}
    BY <1>5
  <2>2. QED
    BY <1>1, <2>1 DEF value
<1>6. ASSUME NEW i \in Ids
      PROVE  \/ Replayed(docs, entries, c)[i] = docs[i]
             \/ \E k \in DOMAIN entries :
                  /\ entries[k].coll = c /\ entries[k].id = i
                  /\ Replayed(docs, entries, c)[i] = Encoded[entries[k].val]
  <2>1. CASE Hits(i) = {}
    BY <1>1, <2>1 DEF value
  <2>2. CASE Hits(i) # {}
    <3>1. last(i) \in Hits(i)
      BY <1>2, <2>2
    <3>2. Replayed(docs, entries, c)[i] = Encoded[entries[last(i)].val]
      BY <1>1, <2>2 DEF value
    <3> HIDE DEF last
    <3>3. QED
      BY <3>1, <3>2
  <2>3. QED
    BY <2>1, <2>2
<1>7. QED
  BY <1>4, <1>5, <1>6

-----------------------------------------------------------------------------
(* Types.                                                                    *)

LEMMA NoEntryType == NoEntry \in Entry
  BY NonEmptyAssumption DEF NoEntry, Entry, MaybeValue

LEMMA IdleType == Idle \in Call
<1>1. NoDocs \in Docs
  BY DEF NoDocs, Docs, MaybeValue
<1>2. << >> \in Seq(Entry)
  OBVIOUS
<1>3. NoEntry.coll \in Collections /\ 0 \in 0..Handles
  BY NonEmptyAssumption, HandlesAssumption DEF NoEntry
<1>4. QED
  BY <1>1, <1>2, <1>3, NoEntryType DEF Idle, Call, Operations

LEMMA DocsOfType ==
  ASSUME NEW m \in Docs \cup {Absent, Torn}
  PROVE  DocsOf(m) \in Docs /\ Stored(DocsOf(m)) \in Docs
<1>1. DocsOf(m) \in Docs
  BY DEF DocsOf, NoDocs, Docs, MaybeValue
<1>2. QED
  BY <1>1, EncodedAssumption DEF Stored, Docs

LEMMA PersistingType ==
  ASSUME NEW now \in Call, NEW c \in Collections, NEW m \in Docs \cup {Absent, Torn}
  PROVE  Persisting(now, c, m) \in Call
<1>1. Stored(DocsOf(m)) \in Docs
  BY DocsOfType
<1>2. QED
  BY <1>1 DEF Persisting, Call, FileSteps

LEMMA BecomeType ==
  ASSUME call \in [Tasks -> Call], NEW t \in Tasks, NEW new \in Call, Become(t, new)
  PROVE  call' \in [Tasks -> Call]
  BY DEF Become

LEMMA GotoType ==
  ASSUME call \in [Tasks -> Call], NEW t \in Tasks,
         NEW step \in {"idle"} \cup Resuming \cup FileSteps, Goto(t, step)
  PROVE  call' \in [Tasks -> Call]
<1>1. [call[t] EXCEPT !.pc = step] \in Call
  BY DEF Call
<1>2. QED
  BY <1>1, BecomeType DEF Goto

\* What a call puts into memory.
LEMMA DocsAfterType ==
  ASSUME TypeOK, NEW t \in Tasks
  PROVE  DocsAfter(t) \in Docs \cup {Absent}
<1>1. call[t].entry \in Entry
  BY DEF TypeOK, Call
<1>2. /\ call[t].entry.coll \in Collections
      /\ call[t].entry.id \in Ids
      /\ call[t].entry.val \in MaybeValue
  BY <1>1 DEF Entry
<1>3. store[call[t].entry.coll] \in Docs \cup {Absent}
  BY <1>2 DEF TypeOK
<1>4. DocsOf(store[call[t].entry.coll]) \in Docs
  BY <1>3, DocsOfType
<1>5. QED
  BY <1>2, <1>3, <1>4 DEF DocsAfter, Docs

\* The variables no action of a call's inner steps changes.
TypeOfMemory == /\ store \in [Collections -> Docs \cup {Absent}]
                /\ isOpen \in BOOLEAN
                /\ wal \in 0..Handles
                /\ sequence \in [1..Handles -> Nat]
                /\ mirror \in [Collections -> Docs \cup {Absent, Torn}]
TypeOfFiles == /\ disk \in [Collections -> Docs \cup {Absent, Torn}]
               /\ walFile \in Seq(Entry \cup {Torn})
TypeOfHistory == /\ acked \in [Collections -> Docs]
                 /\ attempts \in [Documents -> SUBSET MaybeValue]
                 /\ forfeit \subseteq Documents
                 /\ faults \in 0..MaxFaults

LEMMA TypeParts ==
  /\ TypeOK <=> /\ TypeOfMemory /\ TypeOfFiles /\ TypeOfHistory
                /\ call \in [Tasks -> Call]
  /\ TypeOK' <=> /\ TypeOfMemory' /\ TypeOfFiles' /\ TypeOfHistory'
                 /\ call' \in [Tasks -> Call]
  BY DEF TypeOK, WalTypeOK, TypeOfMemory, TypeOfFiles, TypeOfHistory

LEMMA Unchanged ==
  /\ TypeOfMemory /\ UNCHANGED memory => TypeOfMemory'
  /\ TypeOfFiles /\ UNCHANGED files => TypeOfFiles'
  /\ TypeOfHistory /\ UNCHANGED history => TypeOfHistory'
  BY DEF TypeOfMemory, TypeOfFiles, TypeOfHistory, memory, files, history

\* Whoever logs has a log object: what keeps sequence[wal] a number.
HasLog ==
  /\ isOpen => wal # 0
  /\ \A t \in Tasks : ~At(t, "idle") => wal # 0
  /\ \A t \in Tasks :
       call[t].pc \in {"log_open", "log_write", "log_tail", "logged"}
         => call[t].log # 0

TypeInv == TypeOK /\ HasLog

LEMMA TypeInit == Init => TypeInv
<1> SUFFICES ASSUME Init PROVE TypeInv
  OBVIOUS
<1>1. NoDocs \in Docs /\ << >> \in Seq(Entry \cup {Torn})
  BY DEF NoDocs, Docs, MaybeValue
<1>2. TypeOfMemory
  <2>1. 0 \in 0..Handles /\ [h \in 1..Handles |-> 0] \in [1..Handles -> Nat]
    BY HandlesAssumption
  <2>2. /\ [c \in Collections |-> Absent] \in [Collections -> Docs \cup {Absent}]
        /\ [c \in Collections |-> Absent] \in [Collections -> Docs \cup {Absent, Torn}]
    OBVIOUS
  <2>3. QED
    BY <2>1, <2>2 DEF Init, TypeOfMemory
<1>3. TypeOfFiles
  BY <1>1 DEF Init, TypeOfFiles
<1>4. TypeOfHistory
  BY <1>1, BoundsAssumption DEF Init, TypeOfHistory
<1>5. call \in [Tasks -> Call]
  BY IdleType DEF Init
<1>6. HasLog
  BY DEF Init, HasLog, At, Idle
<1>7. QED
  BY <1>2, <1>3, <1>4, <1>5, <1>6, TypeParts DEF TypeInv

LEMMA OpenedType ==
  ASSUME TypeOfMemory, TypeOfHistory, Opened
  PROVE  TypeOfHistory'
<1>1. ASSUME NEW c \in Collections
      PROVE  [i \in Ids |-> IF <<c, i>> \in Shown THEN DocsOf(store[c])[i]
                                                 ELSE acked[c][i]] \in Docs
  <2>1. DocsOf(store[c]) \in Docs
    BY DocsOfType DEF TypeOfMemory
  <2>2. acked[c] \in Docs
    BY DEF TypeOfHistory
  <2>3. QED
    BY <2>1, <2>2 DEF Docs
<1>2. acked' \in [Collections -> Docs]
  BY <1>1 DEF Opened
<1>3. attempts' \in [Documents -> SUBSET MaybeValue]
  BY DEF Opened, TypeOfHistory
<1>4. QED
  BY <1>2, <1>3 DEF Opened, TypeOfHistory

\* Steps that change nothing but the call of their task.
LEMMA HasLogStep ==
  ASSUME HasLog, NEW t \in Tasks, NEW new,
         call \in [Tasks -> Call], Become(t, new), UNCHANGED <<isOpen, wal>>,
         new.pc = "idle" \/ ~At(t, "idle") \/ isOpen,
         new.pc \in {"log_open", "log_write", "log_tail", "logged"}
           => \/ new.log = call[t].log /\ call[t].pc \in {"log_open", "log_write", "log_tail"}
              \/ new.log = wal /\ isOpen
  PROVE  HasLog'
  BY DEF HasLog, Become, At

LEMMA TypeMutate ==
  ASSUME TypeInv, NEW t \in Tasks, NEW c \in Collections, NEW i \in Ids,
         NEW v \in MaybeValue, NEW o \in Operations, Mutate(t, o, c, i, v),
         store' \in [Collections -> Docs \cup {Absent}]
  PROVE  TypeInv'
<1> USE DEF TypeInv
<1>1. TypeOfMemory /\ TypeOfFiles /\ TypeOfHistory /\ call \in [Tasks -> Call]
  BY TypeParts
<1>2. wal \in 1..Handles /\ sequence[wal] \in Nat
  BY <1>1, HandlesAssumption DEF TypeOfMemory, Mutate, HasLog
<1>3. TypeOfMemory'
  BY <1>1, <1>2 DEF TypeOfMemory, Mutate, NextSequence
<1>4. TypeOfFiles' /\ TypeOfHistory'
  <2>1. [attempts EXCEPT ![<<c, i>>] = @ \cup {v}] \in [Documents -> SUBSET MaybeValue]
    BY <1>1 DEF TypeOfHistory
  <2>2. QED
    BY <1>1, <2>1 DEF TypeOfFiles, TypeOfHistory, Mutate, files
<1> DEFINE e == [seq |-> sequence[wal] + 1, coll |-> c, id |-> i, val |-> v]
<1> DEFINE new == [Idle EXCEPT !.pc = "log_open", !.op = o, !.log = wal, !.entry = e]
<1>5. e \in Entry
  BY <1>2 DEF Entry
<1>6. new \in Call /\ new.pc = "log_open" /\ new.log = wal
  BY <1>1, <1>5, IdleType DEF Call, FileSteps, TypeOfMemory
<1>7. Become(t, new) /\ UNCHANGED <<isOpen, wal>> /\ isOpen
  BY DEF Mutate
<1> HIDE DEF new
<1>8. call' \in [Tasks -> Call]
  BY <1>1, <1>6, <1>7, BecomeType
<1>9. HasLog'
  BY <1>1, <1>6, <1>7, HasLogStep
<1>10. QED
  BY <1>3, <1>4, <1>8, <1>9, TypeParts

\* A delete that finds nothing changes only what the history knows of its
\* document, and that only grows.
InDoubt(c, i) ==
  /\ acked'[c][i] = None
  /\ attempts'[<<c, i>>] = attempts[<<c, i>>] \cup ({acked[c][i]} \ {None})
  /\ \A e \in Collections, j \in Ids : <<e, j>> # <<c, i>> =>
       acked'[e][j] = acked[e][j] /\ attempts'[<<e, j>>] = attempts[<<e, j>>]

LEMMA Missing ==
  ASSUME TypeInv, NEW t \in Tasks, NEW c \in Collections, NEW i \in Ids,
         DeleteMissing(t, c, i)
  PROVE  /\ UNCHANGED <<memory, files, call, forfeit, faults>>
         /\ acked' \in [Collections -> Docs]
         /\ attempts' \in [Documents -> SUBSET MaybeValue]
         /\ InDoubt(c, i)
<1>1. acked \in [Collections -> Docs] /\ attempts \in [Documents -> SUBSET MaybeValue]
  BY DEF TypeInv, TypeOK
<1>2. acked' = [acked EXCEPT ![c] = [acked[c] EXCEPT ![i] = None]]
  BY DEF DeleteMissing
<1>3. [acked[c] EXCEPT ![i] = None] \in Docs /\ acked[c][i] \in MaybeValue
  BY <1>1 DEF Docs, MaybeValue
<1>4. acked' \in [Collections -> Docs] /\ acked'[c][i] = None
  BY <1>1, <1>2, <1>3 DEF Docs
<1>5. \A e \in Collections, j \in Ids : <<e, j>> # <<c, i>> => acked'[e][j] = acked[e][j]
  BY <1>1, <1>2, <1>3 DEF Docs
<1>6. <<c, i>> \in Documents
      /\ attempts' = [attempts EXCEPT ![<<c, i>>] = @ \cup ({acked[c][i]} \ {None})]
  BY DEF DeleteMissing, Documents
<1>7. attempts' \in [Documents -> SUBSET MaybeValue]
  BY <1>1, <1>3, <1>6
<1>8. /\ attempts'[<<c, i>>] = attempts[<<c, i>>] \cup ({acked[c][i]} \ {None})
      /\ \A d \in Documents : d # <<c, i>> => attempts'[d] = attempts[d]
  BY <1>1, <1>6
<1>9. QED
  BY <1>4, <1>5, <1>7, <1>8 DEF DeleteMissing, Documents, InDoubt

LEMMA TypeStart ==
  ASSUME TypeInv, NEW t \in Tasks, Start(t)
  PROVE  TypeInv'
<1>0. TypeOfMemory /\ TypeOfFiles /\ TypeOfHistory /\ call \in [Tasks -> Call] /\ HasLog
  BY TypeParts DEF TypeInv
<1>1. ASSUME NEW c \in Collections, NEW i \in Ids, NEW v \in Values,
             Put(t, c, i, v) \/ Update(t, c, i, v)
      PROVE  TypeInv'
  <2>1. store' \in [Collections -> Docs \cup {Absent}]
    BY <1>0, <1>1 DEF Put, Update, TypeOfMemory
  <2>2. \E o \in Operations : Mutate(t, o, c, i, v)
    BY <1>1 DEF Put, Update, Operations
  <2>3. v \in MaybeValue
    BY DEF MaybeValue
  <2>4. QED
    BY <2>1, <2>2, <2>3, TypeMutate
<1>2. ASSUME NEW c \in Collections, NEW i \in Ids, Delete(t, c, i)
      PROVE  TypeInv'
  <2>1. DocsOf(store[c])[i] # None /\ store[c] \in Docs \cup {Absent}
    BY <1>0, <1>2 DEF Delete, TypeOfMemory
  <2>2. store[c] \in Docs
    BY <2>1 DEF DocsOf, NoDocs
  <2>3. [store[c] EXCEPT ![i] = None] \in Docs
    BY <2>2 DEF Docs, MaybeValue
  <2>4. store' \in [Collections -> Docs \cup {Absent}]
    BY <1>0, <1>2, <2>3 DEF Delete, TypeOfMemory
  <2>5. "delete" \in Operations /\ None \in MaybeValue /\ Mutate(t, "delete", c, i, None)
    BY <1>2 DEF Delete, Operations, MaybeValue
  <2>6. QED
    BY <2>4, <2>5, TypeMutate
<1>3. ASSUME NEW c \in Collections, NEW i \in Ids, DeleteMissing(t, c, i)
      PROVE  TypeInv'
  <2>1. /\ UNCHANGED <<memory, files, call, forfeit, faults>>
        /\ acked' \in [Collections -> Docs]
        /\ attempts' \in [Documents -> SUBSET MaybeValue]
    BY <1>3, Missing
  <2>2. TypeOfHistory'
    BY <1>0, <2>1 DEF TypeOfHistory
  <2>3. HasLog'
    BY <1>0, <2>1 DEF HasLog, memory, At
  <2>4. QED
    BY <1>0, <2>1, <2>2, <2>3, Unchanged, TypeParts DEF TypeInv
<1>4. ASSUME NEW o \in {"close", "compact"}, Close(t) \/ Compact(t),
             Become(t, [Idle EXCEPT !.pc = "next", !.op = o, !.todo = Keys])
      PROVE  TypeInv'
  <2> DEFINE new == [Idle EXCEPT !.pc = "next", !.op = o, !.todo = Keys]
  <2>1. new \in Call /\ new.pc = "next"
    BY IdleType DEF Call, Resuming, Keys, Operations
  <2> HIDE DEF new
  <2>2. call' \in [Tasks -> Call]
    BY <1>0, <1>4, <2>1, BecomeType DEF new
  <2>3. isOpen /\ UNCHANGED memory /\ UNCHANGED files /\ UNCHANGED history
    BY <1>4 DEF Close, Compact
  <2>4. HasLog'
    BY <1>0, <1>4, <2>1, <2>3, HasLogStep DEF memory, new
  <2>5. QED
    BY <1>0, <2>2, <2>3, <2>4, Unchanged, TypeParts DEF TypeInv
<1>5. ASSUME Open(t) PROVE TypeInv'
  <2> DEFINE new == [Idle EXCEPT !.pc = "load", !.op = "open", !.log = wal + 1,
                                 !.todo = Collections]
  <2>1. wal + 1 \in 0..Handles /\ wal + 1 # 0
    BY <1>0, <1>5, HandlesAssumption DEF Open, TypeOfMemory
  <2>2. new \in Call /\ new.pc = "load"
    BY <2>1, IdleType DEF Call, FileSteps, Operations
  <2>3. Become(t, new) /\ wal' = wal + 1 /\ UNCHANGED <<isOpen, files, history>>
    BY <1>5 DEF Open
  <2> HIDE DEF new
  <2>4. call' \in [Tasks -> Call]
    BY <1>0, <2>2, <2>3, BecomeType
  <2>5. TypeOfMemory'
    BY <1>0, <1>5, <2>1 DEF Open, TypeOfMemory
  <2>6. HasLog'
    BY <1>0, <2>1, <2>2, <2>3 DEF HasLog, Become, At
  <2>7. QED
    BY <1>0, <2>3, <2>4, <2>5, <2>6, Unchanged, TypeParts DEF TypeInv
<1>6. QED
  <2>1. Close(t) => Become(t, [Idle EXCEPT !.pc = "next", !.op = "close", !.todo = Keys])
    BY DEF Close
  <2>2. Compact(t) => Become(t, [Idle EXCEPT !.pc = "next", !.op = "compact", !.todo = Keys])
    BY DEF Compact
  <2>3. QED
    BY <1>1, <1>2, <1>3, <1>4, <1>5, <2>1, <2>2 DEF Start

\* A call that throws.
LEMMA TypeThrow ==
  ASSUME TypeInv, NEW t \in Tasks, Throw(t)
  PROVE  TypeOfMemory' /\ call' \in [Tasks -> Call] /\ HasLog'
<1>1. TypeOfMemory /\ call \in [Tasks -> Call] /\ HasLog
  BY TypeParts DEF TypeInv
<1>2. TypeOfMemory'
  BY <1>1 DEF Throw, TypeOfMemory
<1>3. call' \in [Tasks -> Call]
  BY <1>1, IdleType, BecomeType DEF Throw
<1>4. HasLog'
  BY <1>1 DEF Throw, HasLog, Become, At, Idle
<1>5. QED
  BY <1>2, <1>3, <1>4

LEMMA TypeUnlinkFails ==
  ASSUME TypeInv, NEW t \in Tasks, UnlinkFails(t)
  PROVE  TypeInv'
<1>1. Throw(t) /\ UNCHANGED files /\ UNCHANGED history
  BY DEF UnlinkFails
<1>2. TypeOfFiles' /\ TypeOfHistory'
  BY <1>1, TypeParts, Unchanged DEF TypeInv
<1>3. QED
  BY <1>1, <1>2, TypeThrow, TypeParts DEF TypeInv

\* The steps of a call that change nothing but its own record.
OwnStep(t) == \/ LogOpen(t) \/ WriteUnlinked(t) \/ UnlinkTest(t)
              \/ StartCommit(t) \/ PersistNext(t) \/ CommitRead(t) \/ Load(t)
              \/ RecoverRead(t)

LEMMA TypeOwnStep ==
  ASSUME TypeInv, NEW t \in Tasks, OwnStep(t)
  PROVE  TypeInv'
<1>0. TypeOfMemory /\ TypeOfFiles /\ TypeOfHistory /\ call \in [Tasks -> Call] /\ HasLog
  BY TypeParts DEF TypeInv
<1>1. call[t] \in Call /\ Idle \in Call /\ Idle.pc = "idle"
  BY <1>0, IdleType DEF Idle
<1>2. UNCHANGED memory /\ UNCHANGED files /\ UNCHANGED history
  BY DEF OwnStep, LogOpen, WriteUnlinked, UnlinkTest, StartCommit,
         PersistNext, CommitRead, Load, RecoverRead
<1> DEFINE Fits(new) ==
      /\ new \in Call
      /\ new.pc = "idle" \/ ~At(t, "idle")
      /\ new.pc \in {"log_open", "log_write", "log_tail", "logged"}
           => new.log = call[t].log /\ call[t].pc \in {"log_open", "log_write", "log_tail"}
<1>3. \E new : Become(t, new) /\ Fits(new)
  <2>1. CASE LogOpen(t)
    <3>1. Len(walFile) \in Nat
      BY <1>0 DEF TypeOfFiles
    <3> DEFINE new == [call[t] EXCEPT !.pc = "log_write", !.offset = Len(walFile)]
    <3>2. new \in Call /\ new.pc = "log_write" /\ new.log = call[t].log
      BY <1>1, <3>1 DEF Call, FileSteps
    <3>3. Become(t, new) /\ call[t].pc = "log_open"
      BY <2>1 DEF LogOpen, At
    <3> HIDE DEF new
    <3>4. QED
      BY <3>2, <3>3 DEF At
  <2>2. CASE WriteUnlinked(t) \/ UnlinkTest(t)
    <3>1. PICK step \in {"next", "unlink"} : Goto(t, step)
      BY <2>2 DEF WriteUnlinked, UnlinkTest
    <3> DEFINE new == [call[t] EXCEPT !.pc = step]
    <3>2. new \in Call /\ new.pc = step
      BY <1>1, <3>1 DEF Call, FileSteps, Resuming
    <3>3. Become(t, new) /\ call[t].pc # "idle"
      BY <2>2, <3>1 DEF Goto, WriteUnlinked, UnlinkTest, At
    <3> HIDE DEF new
    <3>4. QED
      BY <3>2, <3>3 DEF At
  <2>4. CASE StartCommit(t)
    <3> DEFINE new == [call[t] EXCEPT !.pc = "commit_read", !.log = wal]
    <3>1. new \in Call /\ new.pc = "commit_read"
      BY <1>0, <1>1 DEF Call, FileSteps, TypeOfMemory
    <3>2. Become(t, new) /\ call[t].pc = "next"
      BY <2>4 DEF StartCommit, At
    <3> HIDE DEF new
    <3>3. QED
      BY <3>1, <3>2 DEF At
  <2>5. CASE PersistNext(t)
    <3>1. PICK c \in call[t].todo :
            Become(t, Persisting([call[t] EXCEPT !.todo = @ \ {c}], c, store[c]))
      BY <2>5 DEF PersistNext
    <3>2. c \in Collections /\ [call[t] EXCEPT !.todo = @ \ {c}] \in Call
      BY <1>1, <3>1 DEF Call
    <3>3. store[c] \in Docs \cup {Absent, Torn}
      BY <1>0, <3>2 DEF TypeOfMemory
    <3>4. Persisting([call[t] EXCEPT !.todo = @ \ {c}], c, store[c]) \in Call
      BY <3>2, <3>3, PersistingType
    <3>5. Persisting([call[t] EXCEPT !.todo = @ \ {c}], c, store[c]).pc
            \in {"unlink_test", "truncate"}
      BY <1>1 DEF Persisting, Call
    <3>6. QED
      BY <2>5, <3>1, <3>4, <3>5 DEF PersistNext, At
  <2>6. CASE CommitRead(t) \/ RecoverRead(t)
    <3>1. Readable(walFile) \in Seq(Entry)
      BY <1>0, ReadableEntries DEF TypeOfFiles
    <3>2. \E step \in {"commit_filter", "replay"} :
            Become(t, [call[t] EXCEPT !.pc = step, !.batch = Readable(walFile)])
      BY <2>6 DEF CommitRead, RecoverRead
    <3>3. PICK step \in {"commit_filter", "replay"} :
            Become(t, [call[t] EXCEPT !.pc = step, !.batch = Readable(walFile)])
      BY <3>2
    <3> DEFINE new == [call[t] EXCEPT !.pc = step, !.batch = Readable(walFile)]
    <3>4. new \in Call /\ new.pc = step
      BY <1>1, <3>1 DEF Call, Resuming
    <3>5. ~At(t, "idle")
      BY <2>6 DEF CommitRead, RecoverRead, At
    <3> HIDE DEF new
    <3>6. QED
      BY <3>3, <3>4, <3>5 DEF new
  <2>7. CASE Load(t)
    <3>1. PICK c \in call[t].todo :
            Become(t, [call[t] EXCEPT !.pc = "loaded", !.todo = @ \ {c},
                                      !.target = c, !.image = disk[c]])
      BY <2>7 DEF Load
    <3>2. c \in Collections /\ disk[c] \in Docs \cup {Absent, Torn}
      BY <1>0, <1>1, <3>1 DEF Call, TypeOfFiles
    <3> DEFINE new == [call[t] EXCEPT !.pc = "loaded", !.todo = @ \ {c},
                                      !.target = c, !.image = disk[c]]
    <3>3. new \in Call /\ new.pc = "loaded"
      BY <1>1, <3>2 DEF Call, Resuming
    <3>4. Become(t, new) /\ ~At(t, "idle")
      BY <2>7, <3>1 DEF Load, At
    <3> HIDE DEF new
    <3>5. QED
      BY <3>3, <3>4
  <2>8. QED
    BY <2>1, <2>2, <2>4, <2>5, <2>6, <2>7 DEF OwnStep
<1>4. PICK new : Become(t, new) /\ Fits(new)
  BY <1>3
<1>5. call' \in [Tasks -> Call]
  BY <1>0, <1>4, BecomeType
<1>6. HasLog'
  BY <1>0, <1>2, <1>4, HasLogStep DEF memory
<1>7. QED
  BY <1>0, <1>2, <1>5, <1>6, Unchanged, TypeParts DEF TypeInv

\* The steps of a call that go to a file.
LEMMA TypeFileStep ==
  ASSUME TypeInv, NEW t \in Tasks,
         \/ LogWrite(t) \/ LogTail(t) \/ Truncate(t) \/ Write(t)
         \/ CommitOpen(t) \/ CommitWrite(t) \/ Clear(t)
  PROVE  TypeInv'
<1>0. TypeOfMemory /\ TypeOfFiles /\ TypeOfHistory /\ call \in [Tasks -> Call] /\ HasLog
  BY TypeParts DEF TypeInv
<1>1. call[t] \in Call
  BY <1>0
<1>2. UNCHANGED memory /\ UNCHANGED history
  BY DEF LogWrite, LogTail, Truncate, Write, CommitOpen, CommitWrite, Clear
<1>3. TypeOfFiles'
  <2>1. call[t].offset \in Nat /\ call[t].batch \in Seq(Entry \cup {Torn})
    BY <1>1 DEF Call
  <2>2. <<Torn>> \in Seq(Entry \cup {Torn}) /\ <<call[t].entry>> \in Seq(Entry \cup {Torn})
    BY <1>1 DEF Call
  <2>3. CASE LogWrite(t)
    BY <1>0, <2>1, <2>2, <2>3, WriteAtCells DEF LogWrite, TypeOfFiles
  <2>4. CASE LogTail(t)
    BY <1>0, <2>1, <2>2, <2>4, WriteAtCells DEF LogTail, TypeOfFiles
  <2>5. CASE CommitWrite(t)
    BY <1>0, <2>1, <2>5, WriteAtCells DEF CommitWrite, TypeOfFiles
  <2>6. CASE CommitOpen(t) \/ Clear(t)
    <3>1. << >> \in Seq(Entry \cup {Torn})
      OBVIOUS
    <3>2. QED
      BY <1>0, <2>6, <3>1 DEF CommitOpen, Clear, TypeOfFiles
  <2>7. CASE Truncate(t) \/ Write(t)
    BY <1>0, <1>1, <2>7 DEF Truncate, Write, TypeOfFiles, Call
  <2>8. QED
    BY <2>3, <2>4, <2>5, <2>6, <2>7
<1>4. \E step \in {"log_tail", "logged", "write", "next", "committed", "commit_write",
                   "cleared"} :
        /\ Goto(t, step) /\ ~At(t, "idle")
        /\ step \in {"log_tail", "logged"} => call[t].pc \in {"log_write", "log_tail"}
  BY DEF LogWrite, LogTail, Truncate, Write, CommitOpen, CommitWrite, Clear, At
<1>5. PICK step \in {"log_tail", "logged", "write", "next", "committed",
                     "commit_write", "cleared"} :
        /\ Goto(t, step) /\ ~At(t, "idle")
        /\ step \in {"log_tail", "logged"} => call[t].pc \in {"log_write", "log_tail"}
  BY <1>4
<1>6. call' \in [Tasks -> Call]
  BY <1>0, <1>5, GotoType DEF Resuming, FileSteps
<1>7. HasLog'
  <2> DEFINE new == [call[t] EXCEPT !.pc = step]
  <2>1. new.pc = step /\ new.log = call[t].log
    BY <1>1 DEF Call
  <2>2. Become(t, new)
    BY <1>5 DEF Goto
  <2> HIDE DEF new
  <2>3. QED
    BY <1>0, <1>2, <1>5, <2>1, <2>2, HasLogStep DEF memory
<1>8. QED
  BY <1>0, <1>2, <1>3, <1>6, <1>7, Unchanged, TypeParts DEF TypeInv

\* The steps that change memory or history, and leave the log object alone.
LEMMA TypeMemoryStep ==
  ASSUME TypeInv, NEW t \in Tasks, NEW new \in Call, Become(t, new),
         TypeOfMemory', UNCHANGED <<wal, files>>, TypeOfHistory',
         ~At(t, "idle"), isOpen' \in {isOpen, TRUE, FALSE},
         new.pc \notin {"log_open", "log_write", "log_tail", "logged"}
  PROVE  TypeInv'
<1>1. TypeOfFiles' /\ call' \in [Tasks -> Call]
  BY TypeParts, Unchanged, BecomeType DEF TypeInv
<1>2. HasLog'
  BY TypeParts DEF TypeInv, HasLog, Become, At
<1>3. QED
  BY <1>1, <1>2, TypeParts DEF TypeInv

LEMMA TypeLogged ==
  ASSUME TypeInv, NEW t \in Tasks, Logged(t)
  PROVE  TypeInv'
<1> DEFINE c == call[t].entry.coll
<1> DEFINE now == [call[t] EXCEPT !.seq = sequence[call[t].log], !.isUpdate = Existed(t)]
<1> DEFINE new == Persisting(now, c, DocsAfter(t))
<1>0. TypeOfMemory /\ TypeOfFiles /\ TypeOfHistory /\ call \in [Tasks -> Call] /\ HasLog
  BY TypeParts DEF TypeInv
<1>1. call[t] \in Call /\ call[t].entry \in Entry
  BY <1>0 DEF Call
<1>2. c \in Collections
  BY <1>1 DEF Entry
<1>3. sequence[call[t].log] \in Nat
  <2>1. call[t].log \in 0..Handles /\ call[t].log # 0
    BY <1>0, <1>1 DEF HasLog, Call, Logged, At
  <2>2. call[t].log \in 1..Handles
    BY <2>1, HandlesAssumption
  <2>3. QED
    BY <1>0, <2>2 DEF TypeOfMemory
<1>4. Existed(t) \in BOOLEAN
  BY DEF Existed
<1>5. now \in Call
  BY <1>1, <1>3, <1>4 DEF Call
<1>6. DocsAfter(t) \in Docs \cup {Absent}
  BY DocsAfterType DEF TypeInv
<1>7. new \in Call /\ new.pc \in {"unlink_test", "truncate"}
  <2> HIDE DEF now
  <2>1. DocsAfter(t) \in Docs \cup {Absent, Torn}
    BY <1>6
  <2>2. new \in Call
    BY <1>2, <1>5, <2>1, PersistingType
  <2>3. new.pc \in {"unlink_test", "truncate"}
    BY <1>5 DEF Persisting, Call
  <2>4. QED
    BY <2>2, <2>3
<1>8. Become(t, new) /\ ~At(t, "idle")
  BY DEF Logged, At
<1>9. TypeOfMemory'
  BY <1>0, <1>2, <1>6 DEF Logged, TypeOfMemory
<1>10. isOpen' \in {isOpen, TRUE, FALSE} /\ UNCHANGED <<wal, files>> /\ TypeOfHistory'
  BY <1>0, Unchanged DEF Logged
<1> HIDE DEF new
<1>11. QED
  BY <1>7, <1>8, <1>9, <1>10, TypeMemoryStep

LEMMA TypeLoop ==
  ASSUME TypeInv, NEW t \in Tasks, CompactNext(t) \/ LoopDone(t)
  PROVE  TypeInv'
<1>0. TypeOfMemory /\ TypeOfFiles /\ TypeOfHistory /\ call \in [Tasks -> Call] /\ HasLog
  BY TypeParts DEF TypeInv
<1>1. call[t] \in Call /\ Idle \in Call /\ Idle.pc = "idle"
  BY <1>0, IdleType DEF Idle
<1>2. UNCHANGED <<wal, files>> /\ TypeOfHistory' /\ ~At(t, "idle")
  <2>1. UNCHANGED history \/ Opened
    BY DEF CompactNext, LoopDone, history
  <2>2. QED
    BY <1>0, <2>1, Unchanged, OpenedType DEF CompactNext, LoopDone, At
<1>3. CASE CompactNext(t)
  <2>1. PICK c \in call[t].todo :
          LET now == [call[t] EXCEPT !.todo = @ \ {c}]
          IN  /\ Become(t, IF store[c] = Absent THEN now
                           ELSE Persisting(now, c, store[c]))
              /\ store' = IF store[c] = NoDocs THEN [store EXCEPT ![c] = Absent]
                          ELSE store
    BY <1>3 DEF CompactNext
  <2> DEFINE now == [call[t] EXCEPT !.todo = @ \ {c}]
  <2> DEFINE new == IF store[c] = Absent THEN now ELSE Persisting(now, c, store[c])
  <2>2. c \in Collections /\ now \in Call /\ now.pc = "next"
    BY <1>1, <1>3, <2>1 DEF Call, CompactNext, At
  <2>3. store[c] \in Docs \cup {Absent, Torn}
    BY <1>0, <2>2 DEF TypeOfMemory
  <2>4. Become(t, new)
    BY <2>1
  <2>5. new \in Call /\ new.pc \in {"next", "unlink_test", "truncate"}
    <3> HIDE DEF now
    <3>1. Persisting(now, c, store[c]) \in Call
      BY <2>2, <2>3, PersistingType
    <3>2. Persisting(now, c, store[c]).pc \in {"unlink_test", "truncate"}
      BY <2>2 DEF Persisting, Call
    <3>3. QED
      BY <2>2, <3>1, <3>2
  <2>6. isOpen' = isOpen /\ TypeOfMemory'
    BY <1>0, <1>3, <2>1, <2>2 DEF CompactNext, TypeOfMemory
  <2> HIDE DEF new
  <2>7. QED
    BY <1>2, <2>4, <2>5, <2>6, TypeMemoryStep
<1>4. CASE LoopDone(t)
  <2> DEFINE clear == [call[t] EXCEPT !.pc = "clear", !.log = wal]
  <2>1. clear \in Call /\ clear.pc = "clear"
    BY <1>0, <1>1 DEF Call, FileSteps, TypeOfMemory
  <2>2. Become(t, clear) \/ Become(t, Idle)
    BY <1>4 DEF LoopDone
  <2>3. TypeOfMemory' /\ isOpen' \in {isOpen, TRUE, FALSE}
    BY <1>0, <1>4 DEF LoopDone, Opened, TypeOfMemory
  <2> HIDE DEF clear
  <2>4. QED
    BY <1>1, <1>2, <2>1, <2>2, <2>3, TypeMemoryStep
<1>5. QED
  BY <1>3, <1>4

LEMMA TypeCommitFilter ==
  ASSUME TypeInv, NEW t \in Tasks, CommitFilter(t)
  PROVE  TypeInv'
<1> DEFINE b == call[t].batch
<1> DEFINE rest == Remaining(b, call[t].seq)
<1> DEFINE new == [call[t] EXCEPT !.pc = "commit_open", !.batch = rest]
<1>0. TypeOfMemory /\ TypeOfFiles /\ TypeOfHistory /\ call \in [Tasks -> Call] /\ HasLog
  BY TypeParts DEF TypeInv
<1>1. call[t] \in Call /\ b \in Seq(Entry)
  BY <1>0 DEF Call
<1>2. rest \in Seq(Entry)
  BY <1>1, PickedElements DEF Remaining
<1>3. new \in Call /\ new.pc = "commit_open"
  <2> HIDE DEF rest
  <2>1. QED
    BY <1>1, <1>2 DEF Call, FileSteps
<1>4. Become(t, new) /\ ~At(t, "idle")
  BY <1>1 DEF CommitFilter, At, Call
<1>5. TypeOfMemory'
  <2>1. \A h \in 1..Handles : Bumped(sequence[h], b) \in Nat
    BY <1>0, <1>1, BumpedCounter DEF TypeOfMemory
  <2>2. QED
    BY <1>0, <2>1 DEF CommitFilter, TypeOfMemory
<1>6. isOpen' \in {isOpen, TRUE, FALSE} /\ UNCHANGED <<wal, files>> /\ TypeOfHistory'
  BY <1>0, Unchanged DEF CommitFilter
<1> HIDE DEF new
<1>7. QED
  BY <1>3, <1>4, <1>5, <1>6, TypeMemoryStep

LEMMA TypeCommitted ==
  ASSUME TypeInv, NEW t \in Tasks, Committed(t)
  PROVE  TypeInv'
<1> DEFINE e == call[t].entry
<1>0. TypeOfMemory /\ TypeOfFiles /\ TypeOfHistory /\ call \in [Tasks -> Call] /\ HasLog
  BY TypeParts DEF TypeInv
<1>1. e.coll \in Collections /\ e.id \in Ids /\ e.val \in MaybeValue
  BY <1>0 DEF Call, Entry
<1>2. Idle \in Call /\ Idle.pc = "idle" /\ Become(t, Idle) /\ ~At(t, "idle")
  BY IdleType DEF Committed, Idle, At
<1>3. TypeOfMemory'
  <2>1. ASSUME NEW copy \in Docs \cup {Torn} PROVE Applied(copy, t) \in Docs \cup {Torn}
    BY <1>1 DEF Applied, Docs
  <2>2. ASSUME mirror[e.coll] # Absent
        PROVE  Applied(mirror[e.coll], t) \in Docs \cup {Torn}
    BY <1>0, <1>1, <2>1, <2>2 DEF TypeOfMemory
  <2>3. mirror' \in [Collections -> Docs \cup {Absent, Torn}]
    BY <1>0, <1>1, <2>2 DEF Committed, TypeOfMemory
  <2>4. QED
    BY <1>0, <2>3 DEF Committed, TypeOfMemory
<1>4. TypeOfHistory'
  <2>1. [acked[e.coll] EXCEPT ![e.id] = e.val] \in Docs
    BY <1>0, <1>1 DEF TypeOfHistory, Docs
  <2>2. [attempts EXCEPT ![<<e.coll, e.id>>] = {}] \in [Documents -> SUBSET MaybeValue]
    BY <1>0 DEF TypeOfHistory
  <2>3. QED
    BY <1>0, <2>1, <2>2 DEF Committed, TypeOfHistory
<1>5. isOpen' \in {isOpen, TRUE, FALSE} /\ UNCHANGED <<wal, files>>
  BY DEF Committed
<1>6. QED
  BY <1>2, <1>3, <1>4, <1>5, TypeMemoryStep

LEMMA TypeCleared ==
  ASSUME TypeInv, NEW t \in Tasks, ClosedCleared(t) \/ ReplayedCleared(t)
  PROVE  TypeInv'
<1>0. TypeOfMemory /\ TypeOfFiles /\ TypeOfHistory /\ call \in [Tasks -> Call] /\ HasLog
  BY TypeParts DEF TypeInv
<1>1. call[t] \in Call /\ Idle \in Call /\ Idle.pc = "idle"
  BY <1>0, IdleType DEF Idle
<1> DEFINE loop == [call[t] EXCEPT !.pc = "next", !.todo = Keys]
<1>2. loop \in Call /\ loop.pc = "next"
  BY <1>1 DEF Call, Resuming, Keys
<1>3. Become(t, Idle) \/ Become(t, loop)
  BY DEF ClosedCleared, ReplayedCleared
<1>4. TypeOfMemory' /\ isOpen' \in {isOpen, TRUE, FALSE}
  <2>1. sequence' \in [1..Handles -> Nat]
    BY <1>0 DEF ClosedCleared, ReplayedCleared, ResetSequence, TypeOfMemory
  <2>2. mirror' \in [Collections -> Docs \cup {Absent, Torn}]
    BY <1>0 DEF ClosedCleared, ReplayedCleared, TypeOfMemory
  <2>3. QED
    BY <1>0, <2>1, <2>2 DEF ClosedCleared, ReplayedCleared, TypeOfMemory
<1>5. UNCHANGED <<wal, files>> /\ TypeOfHistory' /\ ~At(t, "idle")
  BY <1>0, Unchanged DEF ClosedCleared, ReplayedCleared, At
<1> HIDE DEF loop
<1>6. QED
  BY <1>1, <1>2, <1>3, <1>4, <1>5, TypeMemoryStep

LEMMA TypeLoaded ==
  ASSUME TypeInv, NEW t \in Tasks, Loaded(t)
  PROVE  TypeInv'
<1>0. TypeOfMemory /\ TypeOfFiles /\ TypeOfHistory /\ call \in [Tasks -> Call] /\ HasLog
  BY TypeParts DEF TypeInv
<1>1. call[t] \in Call
  BY <1>0
<1> DEFINE step == IF call[t].todo = {} THEN "recover_read" ELSE "load"
<1> DEFINE new == [call[t] EXCEPT !.pc = step]
<1>2. new \in Call /\ new.pc \in {"recover_read", "load"}
  BY <1>1 DEF Call, FileSteps
<1>3. Become(t, new)
  BY DEF Loaded, Goto
<1>4. TypeOfMemory'
  <2>1. call[t].target \in Collections /\ call[t].image \in Docs \cup {Absent, Torn}
    BY <1>1 DEF Call
  <2>2. QED
    BY <1>0, <2>1 DEF Loaded, TypeOfMemory
<1>5. /\ isOpen' \in {isOpen, TRUE, FALSE} /\ UNCHANGED <<wal, files>>
      /\ TypeOfHistory' /\ ~At(t, "idle")
  BY <1>0, Unchanged DEF Loaded, At
<1> HIDE DEF new
<1>6. QED
  BY <1>2, <1>3, <1>4, <1>5, TypeMemoryStep

LEMMA TypeReplay ==
  ASSUME TypeInv, NEW t \in Tasks, Replay(t)
  PROVE  TypeInv'
<1> DEFINE b == call[t].batch
<1> DEFINE new == IF b = << >> THEN Idle ELSE [call[t] EXCEPT !.pc = "clear"]
<1>0. TypeOfMemory /\ TypeOfFiles /\ TypeOfHistory /\ call \in [Tasks -> Call] /\ HasLog
  BY TypeParts DEF TypeInv
<1>1. call[t] \in Call /\ b \in Seq(Entry)
  BY <1>0 DEF Call
<1>2. new \in Call /\ new.pc \in {"idle", "clear"}
  BY <1>1, IdleType DEF Call, FileSteps, Idle
<1>3. Become(t, new)
  BY DEF Replay, Goto
<1>4. TypeOfMemory'
  <2>1. \A h \in 1..Handles : Bumped(sequence[h], b) \in Nat
    BY <1>0, <1>1, BumpedCounter DEF TypeOfMemory
  <2>2. sequence' \in [1..Handles -> Nat]
    BY <1>0, <2>1 DEF Replay, TypeOfMemory
  <2>3. ASSUME NEW c \in Collections
        PROVE  Replayed(DocsOf(store[c]), b, c) \in Docs
    <3>1. DocsOf(store[c]) \in [Ids -> MaybeValue]
      BY <1>0, DocsOfType DEF TypeOfMemory, Docs
    <3>2. QED
      BY <1>1, <3>1, ReplayedDocs DEF Docs
  <2>4. store' \in [Collections -> Docs \cup {Absent}]
    BY <1>0, <2>3 DEF Replay, TypeOfMemory
  <2>5. isOpen' \in BOOLEAN /\ UNCHANGED <<wal, mirror>>
    BY <1>0 DEF Replay, Opened, TypeOfMemory
  <2>6. QED
    BY <1>0, <2>2, <2>4, <2>5 DEF TypeOfMemory
<1>5. /\ isOpen' \in {isOpen, TRUE, FALSE} /\ UNCHANGED <<wal, files>>
      /\ TypeOfHistory' /\ ~At(t, "idle")
  <2>1. UNCHANGED history \/ Opened
    BY DEF Replay, history
  <2>2. QED
    BY <1>0, <2>1, Unchanged, OpenedType DEF Replay, Opened, At
<1> HIDE DEF new
<1>6. QED
  BY <1>2, <1>3, <1>4, <1>5, TypeMemoryStep

LEMMA TypeUnlink ==
  ASSUME TypeInv, NEW t \in Tasks, Unlink(t)
  PROVE  TypeInv'
<1>0. TypeOfMemory /\ TypeOfFiles /\ TypeOfHistory /\ call \in [Tasks -> Call] /\ HasLog
  BY TypeParts DEF TypeInv
<1>1. ASSUME NEW u \in Tasks
      PROVE  /\ call'[u] \in Call
             /\ \/ call'[u] = call[u]
                \/ ~At(u, "idle") /\ call'[u].pc \in {"next", "write_unlinked"}
  <2>1. call[t] \in Call /\ call[u] \in Call
    BY <1>0
  <2>2. /\ [call[t] EXCEPT !.pc = "next"] \in Call
        /\ [call[t] EXCEPT !.pc = "next"].pc = "next"
    BY <2>1 DEF Call, Resuming
  <2>3. /\ [call[u] EXCEPT !.pc = "write_unlinked"] \in Call
        /\ [call[u] EXCEPT !.pc = "write_unlinked"].pc = "write_unlinked"
    BY <2>1 DEF Call, FileSteps
  <2>4. call'[u] = IF u = t THEN [call[t] EXCEPT !.pc = "next"]
                   ELSE IF At(u, "write") /\ call[u].target = call[t].target
                        THEN [call[u] EXCEPT !.pc = "write_unlinked"]
                        ELSE call[u]
    BY DEF Unlink
  <2>5. At(t, "unlink")
    BY DEF Unlink
  <2>6. QED
    BY <2>1, <2>2, <2>3, <2>4, <2>5 DEF At
<1>2. call' \in [Tasks -> Call]
  <2>1. \E f : call' = [u \in Tasks |-> f[u]]
    <3> WITNESS [u \in Tasks |->
                IF u = t THEN [call[t] EXCEPT !.pc = "next"]
                ELSE IF At(u, "write") /\ call[u].target = call[t].target
                     THEN [call[u] EXCEPT !.pc = "write_unlinked"]
                     ELSE call[u]]
    <3>1. QED
      BY DEF Unlink
  <2>2. QED
    BY <1>1, <2>1
<1>3. UNCHANGED memory /\ UNCHANGED history
  BY DEF Unlink
<1>4. HasLog'
  BY <1>0, <1>1, <1>3 DEF HasLog, At, memory
<1>5. TypeOfFiles'
  BY <1>0 DEF Unlink, TypeOfFiles
<1>6. QED
  BY <1>0, <1>2, <1>3, <1>4, <1>5, Unchanged, TypeParts DEF TypeInv

LEMMA TypeEnvironment ==
  ASSUME TypeInv,
         \/ \E c \in Watched : Watch(c)
         \/ Crash
         \/ \E t \in Tasks : Fail(t) \/ LoadFails(t)
  PROVE  TypeInv'
<1>0. TypeOfMemory /\ TypeOfFiles /\ TypeOfHistory /\ call \in [Tasks -> Call] /\ HasLog
  BY TypeParts DEF TypeInv
<1>1. ASSUME NEW c \in Watched, Watch(c) PROVE TypeInv'
  <2>1. c \in Collections
    BY TasksAssumption
  <2>2. DocsOf(store[c]) \in Docs
    BY <1>0, <2>1, DocsOfType DEF TypeOfMemory
  <2>3. TypeOfMemory'
    BY <1>0, <1>1, <2>1, <2>2 DEF Watch, TypeOfMemory
  <2>4. TypeOfFiles' /\ TypeOfHistory' /\ call' \in [Tasks -> Call]
    BY <1>0, <1>1, Unchanged DEF Watch
  <2>5. HasLog'
    BY <1>0, <1>1 DEF Watch, HasLog, At
  <2>6. QED
    BY <2>3, <2>4, <2>5, TypeParts DEF TypeInv
<1>2. ASSUME Crash PROVE TypeInv'
  <2>1. /\ [c \in Collections |-> Absent] \in [Collections -> Docs \cup {Absent}]
        /\ [c \in Collections |-> Absent] \in [Collections -> Docs \cup {Absent, Torn}]
        /\ [h \in 1..Handles |-> 0] \in [1..Handles -> Nat]
        /\ 0 \in 0..Handles
    BY HandlesAssumption
  <2>2. TypeOfMemory'
    BY <1>2, <2>1 DEF Crash, TypeOfMemory
  <2>3. faults + 1 \in 0..MaxFaults
    BY <1>0, <1>2, BoundsAssumption DEF Crash, TypeOfHistory
  <2>4. TypeOfHistory'
    BY <1>0, <1>2, <2>3 DEF Crash, TypeOfHistory
  <2>5. call' \in [Tasks -> Call] /\ HasLog'
    BY <1>2, IdleType DEF Crash, HasLog, At, Idle
  <2>6. TypeOfFiles'
    BY <1>0, <1>2, Unchanged DEF Crash
  <2>7. QED
    BY <2>2, <2>4, <2>5, <2>6, TypeParts DEF TypeInv
<1>3. ASSUME NEW t \in Tasks, Fail(t) PROVE TypeInv'
  <2>1. faults + 1 \in 0..MaxFaults
    BY <1>0, <1>3, BoundsAssumption DEF Fail, TypeOfHistory
  <2>2. TypeOfHistory'
    BY <1>0, <1>3, <2>1 DEF Fail, TypeOfHistory
  <2>3. TypeOfFiles'
    BY <1>0, <1>3, Unchanged DEF Fail
  <2>4. TypeOfMemory' /\ call' \in [Tasks -> Call] /\ HasLog'
    BY <1>3, TypeThrow DEF Fail
  <2>5. QED
    BY <2>2, <2>3, <2>4, TypeParts DEF TypeInv
<1>4. ASSUME NEW t \in Tasks, LoadFails(t) PROVE TypeInv'
  <2>1. PICK c \in call[t].todo :
          /\ Become(t, [call[t] EXCEPT !.pc = "loaded", !.todo = @ \ {c},
                                       !.target = c, !.image = Torn])
          /\ forfeit' = forfeit \cup ({c} \X Ids)
    BY <1>4 DEF LoadFails
  <2> DEFINE new == [call[t] EXCEPT !.pc = "loaded", !.todo = @ \ {c},
                                    !.target = c, !.image = Torn]
  <2>2. c \in Collections /\ call[t] \in Call
    BY <1>0, <2>1 DEF Call
  <2>3. new \in Call /\ new.pc = "loaded"
    BY <2>2 DEF Call, Resuming
  <2>4. Become(t, new) /\ ~At(t, "idle") /\ UNCHANGED memory /\ UNCHANGED files
    BY <1>4, <2>1 DEF LoadFails, At
  <2>5. /\ faults < MaxFaults /\ faults' = faults + 1
        /\ UNCHANGED <<acked, attempts>>
    BY <1>4 DEF LoadFails
  <2>6. faults + 1 \in 0..MaxFaults
    BY <1>0, <2>5, BoundsAssumption DEF TypeOfHistory
  <2>9. TypeOfHistory'
    BY <1>0, <2>1, <2>2, <2>5, <2>6 DEF TypeOfHistory, Documents
  <2>7. TypeOfMemory' /\ UNCHANGED <<wal, files>> /\ isOpen' \in {isOpen, TRUE, FALSE}
    BY <1>0, <2>4, Unchanged DEF memory
  <2> HIDE DEF new
  <2>8. QED
    BY <2>3, <2>4, <2>7, <2>9, TypeMemoryStep
<1>5. QED
  BY <1>1, <1>2, <1>3, <1>4

LEMMA TypeContinue ==
  ASSUME TypeInv, NEW t \in Tasks, Continue(t)
  PROVE  TypeInv'
<1>1. CASE OwnStep(t)
  BY <1>1, TypeOwnStep
<1>2. CASE \/ LogWrite(t) \/ LogTail(t) \/ Truncate(t) \/ Write(t)
           \/ CommitOpen(t) \/ CommitWrite(t) \/ Clear(t)
  BY <1>2, TypeFileStep
<1>3. CASE Logged(t)
  BY <1>3, TypeLogged
<1>4. CASE Unlink(t)
  BY <1>4, TypeUnlink
<1>5. CASE CompactNext(t) \/ LoopDone(t)
  BY <1>5, TypeLoop
<1>6. CASE CommitFilter(t)
  BY <1>6, TypeCommitFilter
<1>7. CASE Committed(t)
  BY <1>7, TypeCommitted
<1>8. CASE ClosedCleared(t) \/ ReplayedCleared(t)
  BY <1>8, TypeCleared
<1>9. CASE Loaded(t)
  BY <1>9, TypeLoaded
<1>10. CASE Replay(t)
  BY <1>10, TypeReplay
<1>11. CASE UnlinkFails(t)
  BY <1>11, TypeUnlinkFails
<1>12. QED
  BY <1>1, <1>2, <1>3, <1>4, <1>5, <1>6, <1>7, <1>8, <1>9, <1>10, <1>11
     DEF Continue, OwnStep

LEMMA TypeStep == TypeInv /\ [Next]_vars => TypeInv'
<1>1. ASSUME TypeInv, NEW t \in Tasks, Start(t) PROVE TypeInv'
  BY <1>1, TypeStart
<1>2. ASSUME TypeInv, NEW t \in Tasks, Continue(t) PROVE TypeInv'
  BY <1>2, TypeContinue
<1>3. ASSUME TypeInv, NEW t \in Tasks, Fail(t) \/ LoadFails(t) PROVE TypeInv'
  BY <1>3, TypeEnvironment
<1>4. ASSUME TypeInv, (\E c \in Watched : Watch(c)) \/ Crash PROVE TypeInv'
  BY <1>4, TypeEnvironment
<1>5. ASSUME TypeInv, UNCHANGED vars PROVE TypeInv'
  BY <1>5 DEF TypeInv, TypeOK, WalTypeOK, HasLog, At, vars, memory, files, history
<1>6. QED
  BY <1>1, <1>2, <1>3, <1>4, <1>5 DEF Next

\* Whatever the interleaving of calls, crashes and failing file operations,
\* every variable of the engine keeps its type; in particular every log
\* counter that a call advances or resets belongs to a log object that
\* exists, and what a replay leaves in memory are documents.
THEOREM TypeCorrect == Spec => []TypeOK
<1>1. Spec => []TypeInv
  BY TypeInit, TypeStep, PTL DEF Spec
<1>2. TypeInv => TypeOK
  BY DEF TypeInv
<1>3. QED
  BY <1>1, <1>2, PTL
=============================================================================
