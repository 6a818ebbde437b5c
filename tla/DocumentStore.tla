---------------------------- MODULE DocumentStore ----------------------------
(* What the Dart engine promises its callers, without files and without a    *)
(* log: a store that shows a value for every document while it is open.      *)
(*                                                                           *)
(* A document may show the value it was last acknowledged with, and those of *)
(* the calls since then that have not succeeded.  A delete that finds the    *)
(* document gone already succeeds without an acknowledgement: what an        *)
(* earlier call left in doubt stays in doubt, and the document may show      *)
(* again at the next open.  It shows the same value every time the store     *)
(* opens, until the next call on it.  The exception is a document whose file *)
(* is lost, with all the documents of that file.                             *)
EXTENDS FiniteSets

CONSTANTS Documents,  \* the documents
          Values,     \* what a document may be
          None,       \* no document
          Closed,     \* what a store shows that is not open
          Files       \* the sets of documents that are stored together

VARIABLES shown,  \* the value each document shows, or Closed
          may,    \* the values each document may show
          lost    \* documents whose file was lost

vars == <<shown, may, lost>>

View == [Documents -> Values \cup {None}]

TypeOK == /\ shown \in View \cup {Closed}
          /\ may \in [Documents -> SUBSET (Values \cup {None})]

Init == /\ shown = Closed
        /\ may = [d \in Documents |-> {None}]
        /\ lost = {}

IsOpen == shown # Closed

\* A put, an update or a delete starts; it shows at once or later.  A delete
\* of a document that does not show is this step and no other.
Begin(d, v) ==
  /\ IsOpen
  /\ may' = [may EXCEPT ![d] = @ \cup {v}]
  /\ shown' \in {shown, [shown EXCEPT ![d] = v]}
  /\ UNCHANGED lost

Appear(d) ==
  /\ IsOpen
  /\ \E v \in may[d] : shown' = [shown EXCEPT ![d] = v]
  /\ UNCHANGED <<may, lost>>

\* It returns success: from here on the document has this value and no other.
Acknowledge(d) ==
  /\ IsOpen
  /\ may' = [may EXCEPT ![d] = {shown[d]}]
  /\ lost' = lost \ {d}
  /\ UNCHANGED shown

\* The store closes, or its process dies and no file is lost.
Close ==
  /\ IsOpen
  /\ shown' = Closed
  /\ UNCHANGED <<may, lost>>

\* The process dies and files are lost, each with all its documents.
Lose(fs) ==
  LET gone == UNION fs
  IN  /\ shown' = Closed
      /\ may' = [d \in Documents |-> IF d \in gone THEN may[d] \cup {None} ELSE may[d]]
      /\ lost' = lost \cup gone

\* The store opens and settles every document that is not lost.
Open ==
  /\ ~IsOpen
  /\ shown' \in {s \in View : \A d \in Documents : s[d] \in may[d]}
  /\ may' = [d \in Documents |-> IF d \in lost THEN may[d] ELSE {shown'[d]}]
  /\ UNCHANGED lost

Next == \/ \E d \in Documents : \/ \E v \in Values \cup {None} : Begin(d, v)
                                \/ Appear(d) \/ Acknowledge(d)
        \/ Close \/ Open
        \/ \E fs \in SUBSET Files : Lose(fs)

Spec == Init /\ [][Next]_vars

-----------------------------------------------------------------------------
\* An open store shows no value that was not acknowledged or tried: a document
\* with one possible value, which is what get, query and count of
\* storage_engine.dart answer from, shows that one.
ShownAllowed == IsOpen => \A d \in Documents : shown[d] \in may[d]

\* Once a document has one possible value, only a call on it or the loss of its
\* file gives it another: not the calls on other documents, and not closing
\* and opening, however often (put, delete, close and open of
\* storage_engine.dart, as far as a caller can tell).
SettledStays ==
  [][\A d \in Documents, v \in Values \cup {None} :
       may[d] = {v} => \/ may'[d] = {v} \/ d \in lost'
                       \/ \E w \in Values \cup {None} : Begin(d, w)]_vars
=============================================================================
