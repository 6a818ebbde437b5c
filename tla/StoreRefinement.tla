--------------------------- MODULE StoreRefinement ---------------------------
(* The Dart engine implements DocumentStore: its memory, read while isOpen   *)
(* is set, is what the store shows.                                          *)
EXTENDS StorageEngine

CONSTANT Closed  \* nothing is shown
ASSUME ClosedAssumption == Closed \notin [Documents -> MaybeValue]

ShownNow == IF isOpen THEN [d \in Documents |-> Encoded[InMemory(d[1])[d[2]]]]
                      ELSE Closed
MayShow  == [d \in Documents |->
               {Encoded[v] : v \in attempts[d] \cup {acked[d[1]][d[2]]}}
               \cup (IF d \in forfeit THEN {None} ELSE {})]

Store == INSTANCE DocumentStore
           WITH shown <- ShownNow, may <- MayShow, lost <- forfeit,
                Files <- {{c} \X Ids : c \in Collections}

\* Every behaviour of the engine is one of the abstract store: with its steps
\* interleaved, cut off by crashes at any point and recovered from the log
\* (open, put, update, delete, close, compact of storage_engine.dart), nothing
\* is shown that was not acknowledged or tried since the document was settled,
\* and what is shown after an open is shown after every later one.  A delete
\* that finds nothing acknowledges nothing: after a failed call it returns
\* success, and the document may be shown again.
ImplementsStore == Store!Spec
=============================================================================
