------------------------------ MODULE Documents ------------------------------
(* Documents of the Dart engine: what their names and values become in the   *)
(* files and in the log (models/document.dart, the codecs of                 *)
(* engine/storage_engine.dart and engine/wal.dart), and which of them a      *)
(* filter selects (models/query_filter.dart).                                *)
(*                                                                           *)
(* Calls run one after the other here, and a crash hits no half written      *)
(* file: StorageEngine has the steps, this module has the data.  A text is a *)
(* number, smaller for one that compares smaller.  Its code units are        *)
(* written as single bytes, so some texts come back as others (Cut), and its *)
(* length in two bytes, so the reader loses its place in a text of 65536     *)
(* units or more (Long).  As an id it makes the reader throw, which takes    *)
(* its units for lengths of four bytes.  As the name of a field it is read   *)
(* as other names, with null, until the fields are all read or the bytes run *)
(* out.                                                                      *)
EXTENDS Integers, SequencesExt

CONSTANTS Texts,       \* names of collections and fields, ids, text values
          Cut,         \* the text with every code unit cut to a byte
          Long,        \* texts as a name or an id: their length does not fit
          Spill,       \* the names a reader finds in a long one, in order
          Stem,        \* a file name without ".tdb", wherever that stands in it
          Refused,     \* collection names that are empty or too long
          Names,       \* the collections that are used
          Ids,         \* the ids that are used
          Inputs,      \* the field maps that are put
          Filters,     \* the filters that are asked
          MaxWrites    \* bound: different calls that change something

ASSUME TextsAssumption ==
  /\ Texts \subseteq Int /\ Long \cup Refused \cup Names \cup Ids \subseteq Texts
  /\ Cut \in [Texts -> Texts] /\ \A s \in Texts : Cut[Cut[s]] = Cut[s]
  /\ Stem \in [Texts -> Texts]
  /\ \A s \in Texts : Cut[s] \in Long <=> s \in Long
ASSUME SpillAssumption ==
  /\ Spill \in Seq(Texts)
  /\ \A n \in DOMAIN Spill : Spill[n] \notin Long /\ Cut[Spill[n]] = Spill[n]
ASSUME WritesAssumption == MaxWrites \in Nat

VARIABLES memory,   \* _store: a map for each key it has
          disk,     \* what was serialised into each .tdb file
          may,      \* history: what each document may be, a set of values
          written   \* history: every field map put, with its names

vars == <<memory, disk, may, written>>

-----------------------------------------------------------------------------
\* A Dart map is the sequence of its entries, in the order of insertion.

KeysOf(m)    == {m[k][1] : k \in DOMAIN m}
Lookup(m, x) == {m[k][2] : k \in {j \in DOMAIN m : m[j][1] = x}}
Removed(m, x) == IF x \in KeysOf(m)
                 THEN RemoveAt(m, CHOOSE k \in DOMAIN m : m[k][1] = x) ELSE m

AppendedTo(m, x, v) == Append(m, <<x, v>>)  \* mutant: a key can be there twice

Assigned(m, x, v) ==
  IF x \in KeysOf(m)
  THEN [k \in DOMAIN m |-> IF m[k][1] = x THEN <<x, v>> ELSE m[k]]
  ELSE Append(m, <<x, v>>)

\* The map a reader makes of the entries it finds.
MapOf(entries) ==
  LET read[n \in 0..Len(entries)] ==
        IF n = 0 THEN << >>
        ELSE Assigned(read[n-1], entries[n][1], entries[n][2])
  IN  read[Len(entries)]

\* No key twice.
IsMap(m)   == \A j, k \in DOMAIN m : m[j][1] = m[k][1] => j = k
Maps(K, V) == {m \in Seq(K \X V) : IsMap(m)}

\* A value is its type and a number: the text, the rank of the number (4n for
\* the integer and the float n, so that -0.0 and NaN have a place), 0 or 1.
Types  == {"null", "string", "int", "float", "bool", "other"}
Null   == <<"null", 0>>
Values == {Null} \cup {v \in (Types \ {"null"}) \X Int : v[1] = "string" => v[2] \in Texts}

FieldMaps == Maps(Texts, Values)
ASSUME InputsAssumption == \A f \in Inputs : f \in FieldMaps

\* Written and read again.  A value of no known type is written as null.
RereadValue(v) == IF v[1] = "string" THEN <<"string", Cut[v[2]]>>
                  ELSE IF v[1] = "other" THEN Null ELSE v

RereadEntry(e) == <<Cut[e[1]], RereadValue(e[2])>>

\* The first field with a long name, or none (0).
LongAt(fields) ==
  IF KeysOf(fields) \cap Long = {} THEN 0
  ELSE CHOOSE k \in DOMAIN fields : /\ fields[k][1] \in Long
                                    /\ \A j \in 1..(k-1) : fields[j][1] \notin Long

\* The reader gets as many fields as there are, or throws: from a long name on
\* it reads that name.
Readable(fields) == LongAt(fields) = 0 \/ Len(fields) - LongAt(fields) < Len(Spill)

RereadFields(fields) ==
  LET long == LongAt(fields)
  IN  IF ~Readable(fields) THEN << >>  \* never used: the reader throws
      ELSE
      MapOf([k \in DOMAIN fields |->
               IF long = 0 \/ k < long THEN RereadEntry(fields[k])
               ELSE <<Spill[k - long + 1], Null>>])

RereadDocsShared(docs) ==  \* mutant: one map of fields for all documents
  FoldLeft(LAMBDA m, e :
             LET before == IF m = << >> THEN << >> ELSE Last(m)[2]
             IN  Assigned(m, Cut[e[1]], RereadFields(before \o e[2])), << >>, docs)

RereadDocs(docs) ==
  MapOf([k \in DOMAIN docs |-> <<Cut[docs[k][1]], RereadFields(docs[k][2])>>])

Decodable(docs) == /\ KeysOf(docs) \cap Long = {}
                   /\ \A k \in DOMAIN docs : Readable(docs[k][2])

-----------------------------------------------------------------------------
\* Memory and files: functions on the collections they have.

DocsOf(m, c) == IF c \in DOMAIN m THEN m[c] ELSE << >>
With(m, c, docs) ==
  [x \in DOMAIN m \cup {c} |-> IF x = c THEN docs ELSE m[x]]

EmptyKept(files, m, cs) ==  \* mutant: the file of an emptied collection stays
  LET full == {c \in cs : DocsOf(m, c) # << >>}
  IN  [c \in DOMAIN files \cup full |-> IF c \in full THEN m[c] ELSE files[c]]

\* _persistCollection: a collection without documents has no file.
Persisted(files, m, cs) ==
  LET empty == {c \in cs : DocsOf(m, c) = << >>}
  IN  [c \in (DOMAIN files \cup cs) \ empty |-> IF c \in cs THEN m[c] ELSE files[c]]

\* _loadFromDisk into the memory m: the files in the order the directory lists
\* them.  The last one with the stem of a collection wins; one that cannot be
\* decoded is skipped.
Loaded(files, m) ==
  LET readable == {f \in DOMAIN files : Decodable(files[f])}
      stems    == {Stem[f] : f \in readable}
  IN  {[c \in stems \cup DOMAIN m |->
          IF c \in stems THEN RereadDocs(files[last[c]]) ELSE m[c]] :
       last \in {g \in [stems -> readable] : \A c \in stems : Stem[g[c]] = c}}

\* What a call does to memory: fields is {} for a delete.
Applied(m, c, i, fields) ==
  With(m, c, IF fields = {} THEN Removed(DocsOf(m, c), i)
             ELSE Assigned(DocsOf(m, c), i, CHOOSE f \in fields : TRUE))

\* _recoverFromWAL with the entry of that call.  The log cuts names as well.
Recovered(m, c, i, fields) ==
  Applied(m, Cut[c], Cut[i], {RereadFields(f) : f \in fields})

Recoverable(c, i, fields) ==
  {c, i} \cap Long = {} /\ \A f \in fields : Readable(f)

-----------------------------------------------------------------------------
Init == /\ memory = << >> /\ disk = << >>
        /\ may = [d \in Names \X Ids |-> {{}}]
        /\ written = {}

Recorded(c, i, fields) == written' = written \cup {<<c, i, fields>>}

\* put and delete, with all their steps.  A document that is not there is
\* deleted without a step.
Call(c, i, fields) ==
  /\ memory' = Applied(memory, c, i, fields)
  /\ disk' = Persisted(disk, memory', {c})
  /\ may' = [may EXCEPT ![<<c, i>>] = {fields}]
  /\ Recorded(c, i, fields)

\* The process dies in a call: its entry is in the log or not, the file is
\* written or not.  The next open recovers, which persists every collection.
Crash(c, i, fields) ==
  LET after == Applied(memory, c, i, fields)
  IN  /\ \E files \in {disk, Persisted(disk, after, {c})} :
           \E m \in Loaded(files, << >>) :
             \/ /\ Recoverable(c, i, fields)
                /\ memory' = Recovered(m, c, i, fields)
                /\ disk' = Persisted(files, memory', DOMAIN memory')
             \/ memory' = m /\ disk' = files
      /\ may' = [may EXCEPT ![<<c, i>>] = @ \cup {fields}]
      /\ Recorded(c, i, fields)

Changes(c, i) == \/ \E f \in Inputs : c \notin Refused /\ (Call(c, i, {f}) \/ Crash(c, i, {f}))
                 \/ /\ i \in KeysOf(DocsOf(memory, c))
                    /\ Call(c, i, {}) \/ Crash(c, i, {})

\* The process ends with no call under way, and starts again.
Restart == /\ memory' \in Loaded(disk, << >>)
           /\ UNCHANGED <<disk, may, written>>

\* close, then open in the same process.
Reopen == LET files == Persisted(disk, memory, DOMAIN memory)
          IN  /\ disk' = files
              /\ memory' \in Loaded(files, memory)
              /\ UNCHANGED <<may, written>>

Next == \/ /\ Cardinality(written) < MaxWrites
           /\ \E c \in Names, i \in Ids : Changes(c, i)
        \/ Restart \/ Reopen

Spec == Init /\ [][Next]_vars

-----------------------------------------------------------------------------
\* Filters, and query: _matchesFilter and _compareValues.

Simple(type, field, value) == [type |-> type, field |-> field, value |-> value]
InRange(field, from, to) ==
  [type |-> "range", field |-> field, value |-> from, value2 |-> to]
Joined(type, conditions) == [type |-> type, conditions |-> conditions]
All == [type |-> "all"]

\* Filters are trees: those with conditions are built from filters that are
\* there.
Orders    == {"eq", "ne", "gt", "lt", "gte", "lte"}
JoinedSet == {f \in Filters : f.type \in {"and", "or"}}
ASSUME FiltersAssumption ==
  /\ \A f \in Filters :
       \/ f \in [type : Orders, field : Texts, value : Values]
       \/ f \in [type : {"range"}, field : Texts, value : Values, value2 : Values]
       \/ f \in [type : {"and", "or"}, conditions : SUBSET Filters]
       \/ f = All
  /\ \A S \in SUBSET JoinedSet : S # {} => \E f \in S : f.conditions \cap S = {}

Number(v) == v[1] \in {"int", "float"}
Sign(n)   == IF n < 0 THEN -1 ELSE IF n > 0 THEN 1 ELSE 0

NullsLast(a, b) ==  \* mutant: what is missing comes after every value
  IF a[1] = "null" \/ b[1] = "null"
  THEN (IF a[1] = "null" THEN 1 ELSE 0) - (IF b[1] = "null" THEN 1 ELSE 0)
  ELSE IF a[1] = b[1] \/ (Number(a) /\ Number(b)) THEN Sign(a[2] - b[2]) ELSE 0

CompareValues(a, b) ==
  IF a[1] = "null" \/ b[1] = "null"
  THEN (IF a[1] = "null" THEN 0 ELSE 1) - (IF b[1] = "null" THEN 0 ELSE 1)
  ELSE IF (Number(a) /\ Number(b)) \/ (a[1] = b[1] /\ a[1] \in {"string", "bool"})
  THEN Sign(a[2] - b[2])
  ELSE 0

\* A field the document lacks reads as null.
Field(fields, name) == IF name \in KeysOf(fields)
                       THEN CHOOSE v \in Lookup(fields, name) : TRUE ELSE Null

Compared(fields, f, bound) == CompareValues(Field(fields, f.field), bound)

MatchesSimple(fields, f) ==
  /\ f.type = "eq"  => Compared(fields, f, f.value) = 0
  /\ f.type = "ne"  => Compared(fields, f, f.value) # 0
  /\ f.type = "gt"  => Compared(fields, f, f.value) > 0
  /\ f.type = "lt"  => Compared(fields, f, f.value) < 0
  /\ f.type = "gte" => Compared(fields, f, f.value) >= 0
  /\ f.type = "lte" => Compared(fields, f, f.value) <= 0
  /\ f.type = "range" => /\ Compared(fields, f, f.value) >= 0
                         /\ Compared(fields, f, f.value2) < 0

MatchesFilter(fields, filter) ==
  LET matches[f \in Filters] ==
        /\ f.type = "and" => \A g \in f.conditions : matches[g]
        /\ f.type = "or"  => \E g \in f.conditions : matches[g]
        /\ MatchesSimple(fields, f)
  IN  matches[filter]

Query(c, f) == LET docs == DocsOf(memory, c)
               IN  {docs[k] : k \in {j \in DOMAIN docs : MatchesFilter(docs[j][2], f)}}

-----------------------------------------------------------------------------
(* Properties.                                                               *)

\* The maps of memory and of the files, of each collection and document.
DocMaps == Maps(Texts, FieldMaps)

TypeOK == /\ DOMAIN memory \subseteq Texts /\ memory \in [DOMAIN memory -> DocMaps]
          /\ DOMAIN disk \subseteq Texts /\ disk \in [DOMAIN disk -> DocMaps]
          /\ \A c \in DOMAIN disk : disk[c] # << >>
          /\ may \in [Names \X Ids -> SUBSET ({{}} \cup {{f} : f \in Inputs})]

\* Names that every file and the log give back, and the calls that can reach a
\* document under another name, or take its file away.  A collection moves to
\* the stem of its file, and from there to the stem of that one.
Plain(c, i) == Cut[c] = c /\ Stem[c] = c /\ Cut[i] = i /\ i \notin Long
MovesTo == [x \in Texts |->
  {y \in Texts : \A S \in SUBSET Texts :
                    x \in S /\ (\A z \in S : Stem[z] \in S) => y \in S}]
LandsOn == [c \in Texts |-> {x \in Texts : c \in MovesTo[x] \cup MovesTo[Cut[x]]}]
Undisturbed(c, i) ==
  \A w \in written :
    /\ w[1] \in LandsOn[c] => w[1] = c
    /\ w[1] = c => /\ w[2] \notin Long /\ (Cut[w[2]] = i => w[2] = i)
                   /\ \A f \in w[3] : Readable(f)

\* A document with plain names keeps what it was put with, or what that is
\* when it is read back, through any restarts, reopenings and recoveries, as
\* long as no call used a name that is stored as one of its names or one that
\* makes its file unreadable: the codecs mix up nothing else.  (What a document
\* with a long field name is when it is read back has names nobody gave it.)
PlainSurvive ==
  \A c \in Names, i \in Ids :
    Plain(c, i) /\ Undisturbed(c, i)
      => Lookup(DocsOf(memory, c), i)
           \in may[<<c, i>>] \cup {{RereadFields(f) : f \in v} : v \in may[<<c, i>>]}

\* All the fields of a document are those of one call, or what they are when
\* they are read back: each is one of that call's fields, or a null that was
\* read in the long name of one.
FromFields(m, fields) ==
  \/ m = fields
  \/ /\ Readable(fields)
     /\ m = RereadFields(fields)
     /\ \A j \in DOMAIN m : \/ \E k \in DOMAIN fields : m[j] = RereadEntry(fields[k])
                            \/ m[j][2] = Null /\ LongAt(fields) # 0

\* Whatever happens to names, no document is put together out of several: each
\* one in memory has the fields of one put, under names that became its own.
OfOneCall ==
  \A c \in DOMAIN memory : \A k \in DOMAIN memory[c] :
    \E w \in written :
      /\ w[1] \in LandsOn[c]
      /\ memory[c][k][1] \in {w[2], Cut[w[2]]}
      /\ \E f \in w[3] : FromFields(memory[c][k][2], f)

\* The meaning of a filter, for a field that can be compared with its bounds:
\* its rank is on the right side of theirs, and a missing field or a null is
\* below every value.
Rank(v) == IF v[1] = "null" THEN <<0, 0>> ELSE <<1, v[2]>>
Below(a, b) == Rank(a)[1] < Rank(b)[1] \/ (Rank(a)[1] = Rank(b)[1] /\ a[2] < b[2])
Kind(v) == IF Number(v) THEN "number" ELSE v[1]
Comparable(v, bound) == /\ "other" \notin {v[1], bound[1]}
                        /\ Kind(v) = Kind(bound) \/ "null" \in {v[1], bound[1]}

DecidedSimple(fields, f) ==
  f.type \in Orders \cup {"range"}
    => /\ Comparable(Field(fields, f.field), f.value)
       /\ f.type = "range" => Comparable(Field(fields, f.field), f.value2)

Decided(fields, filter) ==
  LET decided[f \in Filters] ==
        /\ f.type \in {"and", "or"} => \A g \in f.conditions : decided[g]
        /\ DecidedSimple(fields, f)
  IN  decided[filter]

MeansSimple(fields, f) ==
  /\ f.type \in {"eq", "ne"} =>
       (f.type = "eq" <=> Rank(Field(fields, f.field)) = Rank(f.value))
  /\ f.type \in {"gt", "lte"} => (f.type = "gt" <=> Below(f.value, Field(fields, f.field)))
  /\ f.type \in {"lt", "gte"} => (f.type = "lt" <=> Below(Field(fields, f.field), f.value))
  /\ f.type = "range" => /\ ~Below(Field(fields, f.field), f.value)
                         /\ Below(Field(fields, f.field), f.value2)

Means(fields, filter) ==
  LET means[f \in Filters] ==
        /\ f.type = "and" => {g \in f.conditions : ~means[g]} = {}
        /\ f.type = "or"  => {g \in f.conditions : means[g]} # {}
        /\ MeansSimple(fields, f)
  IN  means[filter]

\* A query returns the documents its filter means, also the ones that were
\* read back from a file, and no others, wherever the values have an order;
\* -0.0 is below 0 and NaN above every number, as compareTo has it.
FiltersExact ==
  \A c \in DOMAIN memory, f \in Filters :
    LET found == {e[1] : e \in Query(c, f)}
    IN  \A k \in DOMAIN memory[c] :
          Decided(memory[c][k][2], f)
            => (memory[c][k][1] \in found <=> Means(memory[c][k][2], f))
=============================================================================
