--------------------------- MODULE MCStorageEngine ---------------------------
(* Small instances of the storage engine for TLC.                            *)
EXTENDS StoreRefinement, TLC

CONSTANTS a, b,       \* collections
          x, y,       \* ids
          p, q, r,    \* documents; r has a field the file format lacks
          t1, t2      \* tasks

\* r is stored as p: its list comes back as null.
MCEncoded == [v \in MaybeValue |-> IF v = r THEN p ELSE v]

\* One task that calls everything, one call at a time.
OneDoesAll     == (t1 :> Operations)
OneKeepsAll    == (t1 :> Operations \ {"compact"})
ThreeDocuments == (t1 :> {<<a, x>>, <<a, y>>, <<b, x>>})
TwoDocuments   == (t1 :> {<<a, x>>, <<b, x>>})

\* Two tasks: t1 opens the engine, both write.
CompactToo == (t1 :> {"open", "put", "delete", "compact"}) @@ (t2 :> {"put", "delete"})
BothPut == (t1 :> {"open", "put"}) @@ (t2 :> {"put"})
CloseToo == (t1 :> {"put"}) @@ (t2 :> {"open", "close"})
OwnCollection == (t1 :> {<<a, x>>}) @@ (t2 :> {<<b, x>>})
OwnDocument   == (t1 :> {<<a, x>>}) @@ (t2 :> {<<a, y>>})

=============================================================================
