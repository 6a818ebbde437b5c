----------------------------- MODULE MCDatabase -----------------------------
(* Instances of Database for TLC.                                            *)
EXTENDS Database, TLC

CONSTANTS c1, i1, i2, v1, v2, v3, v4, v5, t1, t2

Integer(n) == <<"integer", n>>
Float(n)   == <<"float", n>>
Null       == <<"null", 0>>

\* A number; a string, a name given twice, a null that -0.0 replaces, a
\* number, and a name of 70,000 bytes in front of another field; a
\* number in front of a name that is cut inside a character.
mcPayload == [v \in Values |->
  CASE v = v1 -> << <<"size", Integer(1)>> >>
    [] v = v2 -> << <<"age", Integer(2)>> >>
    [] v = v3 -> << <<"name", <<"string", 1>>>>, <<"age", Null>>, <<"age", Float(-1)>>,
                    <<"size", Integer(1)>>, <<"long", Integer(1)>>,
                    <<"name", <<"string", 2>>>> >>
    [] v = v4 -> << <<"age", Null>> >>
    [] v = v5 -> << <<"size", Integer(1)>>, <<"split", Integer(1)>> >>]
mcLength == [v \in Values |-> 20]

\* Every operator against every position of a bound, ranges in order and not;
\* two fields in an "and" and in an "or", also where one is null or missing.
mcQueries ==
  {Single(Condition("age", o, v, Unset)) :
     o \in Operators \ {"range"},
     v \in {Integer(1)} \cup {Float(n) : n \in -2..0} \cup {Null}}
  \cup {Single(Condition("size", o, Integer(n), Unset)) :
          o \in Operators \ {"range"}, n \in 0..2}
  \cup {QueryRange("size", m, n) : m \in 0..2, n \in 0..2}
  \cup {Single(Condition("age", "range", Float(m), Float(n))) : m \in -2..0, n \in -2..0}
  \cup {QueryEq("name", n) : n \in 0..1} \cup {QueryEq("long", 1)}
  \cup {Query(k, <<Condition("name", "eq", <<"string", 1>>, Unset),
                   Condition(f, o, v, Unset)>>) :
          k \in {"and", "or"}, f \in {"age", "size"}, o \in {"eq", "ne", "gte"},
          v \in {Integer(1), Float(-1)}}
  \cup {Query(k, <<Condition("name", "eq", <<"string", 2>>, Unset),
                   Condition("size", "gte", Integer(1), Unset)>>) : k \in {"and", "or"}}
  \cup {Query("all", << >>)}

Data == {"put", "update", "delete"}
One == {<<c1, i1>>}
Both == {<<c1, i1>>, <<c1, i2>>}

\* One thread, which is also what the bridge's mutex leaves of several.
mcDoesAlone == t1 :> Data \cup {"init", "reinit", "compact", "close"}
mcHomeAlone == t1 :> Both

\* Two threads with a document each.
mcDoesTwo == t1 :> Data \cup {"init"} @@ t2 :> Data
mcHomeOwn == t1 :> One @@ t2 :> Both \ One
=============================================================================
