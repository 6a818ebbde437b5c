----------------------------- MODULE QueryPlans -----------------------------
(* Queries of the Rust engine: what a query means on one record, the plan    *)
(* the optimizer makes of it, and the ids an index scan yields               *)
(* (rust/src/query and index/secondary.rs).                                  *)
EXTENDS Integers, Sequences, FiniteSets

CONSTANTS Fields,      \* names of fields
          LongFields,  \* those of 65536 bytes or more
          SplitFields, \* those of them that are cut inside a character
          Payload,     \* for each payload the <<field, value>> it was made of
          Unset        \* no second value, no plan

ASSUME LongAssumption == LongFields \subseteq Fields /\ SplitFields \subseteq LongFields

\* A value is its type and a number that stands for it among the values of its
\* type.  For a float that is its rank by magnitude, and -1, -2, ... for the
\* ranks 0, 1, ... with the sign bit set: -1 is -0.0.  (NaN is left out.)
Types == {"string", "integer", "float", "bool", "null"}
FieldValues == Types \X Int
ASSUME UnsetAssumption == Unset \notin FieldValues
MinusZero == <<"float", -1>>
Number(a) == IF a[1] = "float" /\ a[2] < 0 THEN a[2] + 1 ELSE a[2]

-----------------------------------------------------------------------------
\* torex_serialize_document writes the fields in their order, the length of a
\* name cut to 16 bits, and both readers follow it: the rest of a name that is
\* too long is no type of a value, and they stop there.  A name that is cut
\* inside a character is no UTF-8: then they give up what they have read, too.
Behind(v, k, names) == \E j \in 1..(k-1) : Payload[v][j][1] \in names

Unreadable(v) ==
  \E k \in DOMAIN Payload[v] :
    Payload[v][k][1] \in SplitFields /\ ~Behind(v, k, LongFields)

Legible(v) ==
  IF Unreadable(v) THEN {}
  ELSE {k \in DOMAIN Payload[v] : ~Behind(v, k + 1, LongFields)}

\* For the index every pair; for a query a map, where the last of a name stays.
IndexFields(v) == {Payload[v][k] : k \in Legible(v)}
RecordFields(v) ==
  {Payload[v][k] : k \in {j \in Legible(v) :
                            \A i \in Legible(v) : Payload[v][i][1] = Payload[v][j][1] => i <= j}}

-----------------------------------------------------------------------------
Operators == {"eq", "ne", "gt", "lt", "gte", "lte", "range"}

Conditions == [field : Fields, operator : Operators, value : FieldValues,
               value2 : FieldValues \cup {Unset}]

Condition(field, operator, value, value2) ==
  [field |-> field, operator |-> operator, value |-> value, value2 |-> value2]

\* A query is "all", or a "condition", "and", "or" of a sequence of conditions.
QueryType == [kind : {"all", "condition", "and", "or"}, conditions : Seq(Conditions)]
Query(kind, conditions) == [kind |-> kind, conditions |-> conditions]

\* What the bridge asks: an equality of strings, comparisons of integers.
Single(c)              == Query("condition", <<c>>)
QueryEq(field, string) == Single(Condition(field, "eq", <<"string", string>>, Unset))
QueryGt(field, n)      == Single(Condition(field, "gt", <<"integer", n>>, Unset))
QueryLt(field, n)      == Single(Condition(field, "lt", <<"integer", n>>, Unset))
QueryRange(field, m, n) ==
  Single(Condition(field, "range", <<"integer", m>>, <<"integer", n>>))

-----------------------------------------------------------------------------
\* evaluate_record.

Ordered(operator, m, n) == CASE operator = "gt"  -> m > n
                             [] operator = "lt"  -> m < n
                             [] operator = "gte" -> m >= n
                             [] operator = "lte" -> m <= n

\* compare_values: values of two types are never ordered, nor are booleans.
Compares(a, operator, b) ==
  CASE operator = "eq" -> a[1] = b[1] /\ Number(a) = Number(b)
    [] operator = "ne" -> a[1] # b[1] \/ Number(a) # Number(b)
    [] OTHER -> /\ a[1] = b[1]
                /\ a[1] \in {"integer", "float", "string"}
                /\ Ordered(operator, Number(a), Number(b))

Satisfies(value, c) ==
  IF c.operator = "range"
  THEN /\ c.value2 # Unset
       /\ Compares(value, "gte", c.value)
       /\ Compares(value, "lt", c.value2)
  ELSE Compares(value, c.operator, c.value)

MatchesCondition(fields, c) ==
  \E f \in fields : f[1] = c.field /\ Satisfies(f[2], c)

Matches(fields, q) ==
  CASE q.kind = "all" -> TRUE
    [] q.kind = "or"  -> \E k \in DOMAIN q.conditions :
                           MatchesCondition(fields, q.conditions[k])
    [] OTHER          -> \A k \in DOMAIN q.conditions :
                           MatchesCondition(fields, q.conditions[k])

-----------------------------------------------------------------------------
\* The derived order of IndexValue, which the ordered index follows: by type,
\* and floats by their bits, where one with the sign bit is above all others
\* and above those that are closer to zero.

Rank == [string |-> 1, integer |-> 2, float |-> 3, bool |-> 4, null |-> 5]

BitsBelow(m, n) == IF m < 0 \/ n < 0 THEN (m >= 0 /\ n < 0) \/ (n < m /\ m < 0)
                                     ELSE m < n

Below(a, b) ==
  \/ Rank[a[1]] < Rank[b[1]]
  \/ /\ a[1] = b[1]
     /\ IF a[1] = "float" THEN BitsBelow(a[2], b[2]) ELSE a[2] < b[2]

\* find_exact, find_gt, find_lt and find_range, on the entries <<id, field,
\* value>> of one collection.
Find(entries, field, Test(_)) ==
  {e[1] : e \in {x \in entries : x[2] = field /\ Test(x[3])}}

FindExact(entries, field, v) == LET Same(x) == x = v IN Find(entries, field, Same)
FindGt(entries, field, v) == LET Above(x) == Below(v, x) IN Find(entries, field, Above)
FindLt(entries, field, v) == LET Under(x) == Below(x, v) IN Find(entries, field, Under)

\* BTreeMap::range panics when its bounds are the wrong way round; FindRange is
\* for the others.
RangePanics(v, w) == Below(w, v)
FindRange(entries, field, v, w) ==
  LET Within(x) == ~Below(x, v) /\ Below(x, w) IN Find(entries, field, Within)

-----------------------------------------------------------------------------
\* The optimizer: the condition whose index is scanned, or Unset for a scan
\* of the collection.  In an "and" the first condition with an index is taken,
\* a later one instead of it if it is an equality.

HasIndex(exact, c) == \E e \in exact : e[2] = c.field

Indexed(exact, q) == {k \in DOMAIN q.conditions : HasIndex(exact, q.conditions[k])}

FirstOnly(exact, q) ==  \* mutant: an "or" is scanned by its first index too
  IF q.kind = "all" \/ Indexed(exact, q) = {} THEN Unset
  ELSE q.conditions[CHOOSE k \in Indexed(exact, q) :
                      \A j \in Indexed(exact, q) : k <= j]

Plan(exact, q) ==
  LET indexed == Indexed(exact, q)
      equal   == {k \in indexed : q.conditions[k].operator = "eq"}
  IN  IF q.kind \in {"all", "or"} \/ indexed = {} THEN Unset
      ELSE IF equal = {}
           THEN q.conditions[CHOOSE k \in indexed : \A j \in indexed : k <= j]
           ELSE q.conditions[CHOOSE k \in equal : \A j \in equal : j <= k]

\* The query has no answer: its thread panics in find_range.
Panics(exact, q) ==
  LET plan == Plan(exact, q)
  IN  /\ plan # Unset /\ plan.operator = "range" /\ plan.value2 # Unset
      /\ RangePanics(plan.value, plan.value2)

\* execute_index_scan over the two indexes; ids are all the ids of the
\* collection.  The rest of the query is not looked at again.
IndexScan(exact, ordered, ids, c) ==
  CASE c.operator = "eq"  -> FindExact(exact, c.field, c.value)
    [] c.operator = "ne"  -> ids \ FindExact(exact, c.field, c.value)
    [] c.operator = "gt"  -> FindGt(ordered, c.field, c.value)
    [] c.operator = "lt"  -> FindLt(ordered, c.field, c.value)
    [] c.operator = "gte" -> FindGt(ordered, c.field, c.value)
                               \cup FindExact(exact, c.field, c.value)
    [] c.operator = "lte" -> FindLt(ordered, c.field, c.value)
                               \cup FindExact(exact, c.field, c.value)
    [] c.operator = "range" -> IF c.value2 = Unset THEN {}
                               ELSE FindRange(ordered, c.field, c.value, c.value2)
=============================================================================
