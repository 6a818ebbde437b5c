------------------------- MODULE DocumentStoreProofs -------------------------
(* What every implementation of the abstract store inherits, for any         *)
(* documents, values and files.                                              *)
EXTENDS DocumentStore, TLAPS

Inv == TypeOK /\ ShownAllowed

LEMMA InvInit == Init => Inv
  BY DEF Init, Inv, TypeOK, ShownAllowed, IsOpen, View

LEMMA InvStep == Inv /\ [Next]_vars => Inv'
<1> SUFFICES ASSUME Inv, [Next]_vars PROVE Inv'
  OBVIOUS
<1>0. TypeOK /\ ShownAllowed
  BY DEF Inv
<1>1. ASSUME NEW d \in Documents, NEW v \in Values \cup {None}, Begin(d, v)
      PROVE  Inv'
  <2>1. IsOpen /\ shown' \in {shown, [shown EXCEPT ![d] = v]}
    BY <1>1 DEF Begin
  <2>2. may' = [may EXCEPT ![d] = @ \cup {v}]
    BY <1>1 DEF Begin
  <2>3. TypeOK'
    BY <1>0, <2>1, <2>2 DEF TypeOK, IsOpen, View
  <2>4. \A e \in Documents : shown'[e] \in may'[e]
    BY <1>0, <2>1, <2>2 DEF TypeOK, ShownAllowed, IsOpen, View
  <2>5. QED
    BY <2>3, <2>4 DEF Inv, ShownAllowed
<1>2. ASSUME NEW d \in Documents, Appear(d) PROVE Inv'
  <2>1. PICK v \in may[d] : shown' = [shown EXCEPT ![d] = v]
    BY <1>2 DEF Appear
  <2>2. IsOpen /\ may' = may
    BY <1>2 DEF Appear
  <2>3. TypeOK'
    BY <1>0, <2>1, <2>2 DEF TypeOK, IsOpen, View
  <2>4. \A e \in Documents : shown'[e] \in may'[e]
    BY <1>0, <2>1, <2>2 DEF TypeOK, ShownAllowed, IsOpen, View
  <2>5. QED
    BY <2>3, <2>4 DEF Inv, ShownAllowed
<1>3. ASSUME NEW d \in Documents, Acknowledge(d) PROVE Inv'
  BY <1>0, <1>3 DEF Inv, TypeOK, ShownAllowed, IsOpen, Acknowledge
<1>4. CASE Close
  BY <1>0, <1>4 DEF Inv, TypeOK, ShownAllowed, IsOpen, Close
<1>5. CASE Open
  <2>1. /\ shown' \in View /\ \A d \in Documents : shown'[d] \in may[d]
        /\ may' = [d \in Documents |-> IF d \in lost THEN may[d] ELSE {shown'[d]}]
    BY <1>5 DEF Open
  <2>2. TypeOK'
    BY <1>0, <2>1 DEF TypeOK, View
  <2>3. \A d \in Documents : shown'[d] \in may'[d]
    BY <2>1
  <2>4. QED
    BY <2>2, <2>3 DEF Inv, ShownAllowed
<1>6. ASSUME NEW fs \in SUBSET Files, Lose(fs) PROVE Inv'
  <2>1. shown' = Closed
    BY <1>6 DEF Lose
  <2>2. may' \in [Documents -> SUBSET (Values \cup {None})]
    BY <1>0, <1>6 DEF Lose, TypeOK
  <2>3. QED
    BY <2>1, <2>2 DEF Inv, TypeOK, ShownAllowed, IsOpen
<1>7. CASE UNCHANGED vars
  BY <1>0, <1>7 DEF Inv, TypeOK, ShownAllowed, IsOpen, vars
<1>8. QED
  BY <1>1, <1>2, <1>3, <1>4, <1>5, <1>6, <1>7 DEF Next

\* An open store shows only what was acknowledged or tried since: through
\* ImplementsStore this is what a caller of storage_engine.dart reads, crashes,
\* recovery and reopening included.
THEOREM OnlyAllowed == Spec => []ShownAllowed
<1>1. Inv => ShownAllowed
  BY DEF Inv
<1>2. QED
  BY <1>1, InvInit, InvStep, PTL DEF Spec

\* A document with one possible value keeps it until somebody calls put,
\* update or delete on it, or its file is lost.
THEOREM KeptUntilCalled == Spec => SettledStays
<1> DEFINE Kept == \A d \in Documents, v \in Values \cup {None} :
                     may[d] = {v} => \/ may'[d] = {v} \/ d \in lost'
                                     \/ \E w \in Values \cup {None} : Begin(d, w)
<1>1. Inv /\ [Next]_vars => [Kept]_vars
  <2> SUFFICES ASSUME Inv, Next, NEW d \in Documents, NEW v \in Values \cup {None},
                      may[d] = {v}, d \notin lost'
               PROVE  may'[d] = {v} \/ \E w \in Values \cup {None} : Begin(d, w)
    OBVIOUS
  <2>0. TypeOK /\ ShownAllowed
    BY DEF Inv
  <2>1. ASSUME NEW e \in Documents, NEW w \in Values \cup {None}, Begin(e, w)
        PROVE  may'[d] = {v} \/ Begin(d, w)
    BY <2>0, <2>1 DEF Begin, TypeOK
  <2>2. ASSUME NEW e \in Documents, Appear(e) PROVE may'[d] = {v}
    BY <2>2 DEF Appear
  <2>3. ASSUME NEW e \in Documents, Acknowledge(e) PROVE may'[d] = {v}
    BY <2>0, <2>3 DEF Acknowledge, TypeOK, ShownAllowed
  <2>4. CASE Close
    BY <2>4 DEF Close
  <2>5. CASE Open
    BY <2>0, <2>5 DEF Open
  <2>6. ASSUME NEW fs \in SUBSET Files, Lose(fs) PROVE may'[d] = {v}
    BY <2>0, <2>6 DEF Lose, TypeOK
  <2>7. QED
    BY <2>1, <2>2, <2>3, <2>4, <2>5, <2>6 DEF Next
<1>2. Spec => [][Kept]_vars
  BY <1>1, InvInit, InvStep, PTL DEF Spec
<1>3. QED
  BY <1>2 DEF SettledStays
=============================================================================
