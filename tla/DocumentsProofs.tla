---------------------------- MODULE DocumentsProofs ----------------------------
(* Theorems about the documents of the Dart engine, for every value of the   *)
(* constants.                                                                *)
EXTENDS Documents, SequenceTheorems, WellFoundedInduction, TLAPS

Less == {pair \in Nat \X Nat : pair[1] < pair[2]}

\* Every non-empty set of naturals has a least element.
LEMMA LeastNatural ==
  ASSUME NEW T \in SUBSET Nat, T # {}
  PROVE  \E m \in T : \A n \in T : m <= n
<1>1. IsWellFoundedOn(OpToRel(<, Nat), Nat)
  BY NatLessThanWellFounded
<1>2. OpToRel(<, Nat) = Less
  BY DEF OpToRel, Less
<1>3. IsWellFoundedOn(Less, Nat)
  BY <1>1, <1>2
<1>4. PICK m \in T : \A n \in T : ~ (<<n, m>> \in Less)
  BY <1>3, WFMin, Zenon
<1>5. ASSUME NEW n \in T, ~ (m <= n) PROVE FALSE
  <2>1. <<n, m>> \in Less
    BY <1>5 DEF Less
  <2>2. QED
    BY <2>1, <1>4
<1>6. QED
  BY <1>5

\* Induction up to a bound, on a set.
LEMMA UpTo ==
  ASSUME NEW N \in Nat, NEW T, 0 \in T,
         \A n \in 0..N : n \in T /\ n + 1 <= N => n + 1 \in T
  PROVE  0..N \subseteq T
<1> DEFINE Bad == (0..N) \ T
<1> SUFFICES ASSUME Bad # {} PROVE FALSE
  OBVIOUS
<1>1. PICK m \in Bad : \A n \in Bad : m <= n
  <2>1. Bad \in SUBSET Nat
    OBVIOUS
  <2>2. QED
    BY <2>1, LeastNatural
<1>2. m # 0 /\ m \in 0..N /\ m \notin T
  BY <1>1
<1>3. m - 1 \in 0..N /\ ~ (m <= m - 1)
  BY <1>2
<1>4. m - 1 \in T
  BY <1>1, <1>3
<1>5. (m - 1) + 1 \in T
  BY <1>2, <1>3, <1>4
<1>6. QED
  BY <1>2, <1>5

-----------------------------------------------------------------------------
(* Maps.                                                                     *)

Reads(read, entries, n) ==
  /\ read[0] = << >>
  /\ \A j \in 1..n : read[j] = Assigned(read[j-1], entries[j][1], entries[j][2])

\* The loop of MapOf: the map after each entry.
LEMMA MapOfLoop ==
  ASSUME NEW S, NEW entries \in Seq(S)
  PROVE  \E read : /\ Reads(read, entries, Len(entries))
                   /\ MapOf(entries) = read[Len(entries)]
<1> DEFINE N == Len(entries)
           Is(read, n) == read = [j \in 0..n |->
             IF j = 0 THEN << >> ELSE Assigned(read[j-1], entries[j][1], entries[j][2])]
           T == {n \in 0..N : \E read : Is(read, n)}
           all == CHOOSE read : Is(read, N)
<1>1. N \in Nat
  OBVIOUS
<1>2. 0 \in T
  <2> DEFINE zero == [j \in 0..0 |-> << >>]
  <2>1. Is(zero, 0)
    OBVIOUS
  <2> HIDE DEF zero
  <2>2. 0 \in 0..N /\ \E read : Is(read, 0)
    BY <1>1, <2>1
  <2>3. QED
    BY <2>2
<1>3. ASSUME NEW n \in 0..N, n \in T, n + 1 <= N PROVE n + 1 \in T
  <2>1. PICK read : Is(read, n)
    BY <1>3
  <2> DEFINE more == [j \in 0..(n+1) |->
               IF j = n + 1 THEN Assigned(read[n], entries[n+1][1], entries[n+1][2])
               ELSE read[j]]
  <2>2. ASSUME NEW j \in 0..(n+1)
        PROVE  more[j] = IF j = 0 THEN << >>
                         ELSE Assigned(more[j-1], entries[j][1], entries[j][2])
    <3>1. CASE j = n + 1
      <4>1. j # 0 /\ j - 1 = n /\ more[n] = read[n]
        BY <1>1, <3>1
      <4>2. QED
        BY <3>1, <4>1
    <3>2. CASE j # n + 1
      <4>1. j \in 0..n /\ more[j] = read[j]
        BY <1>1, <3>2
      <4>2. read[j] = IF j = 0 THEN << >>
                      ELSE Assigned(read[j-1], entries[j][1], entries[j][2])
        BY <2>1, <4>1
      <4>3. j # 0 => more[j-1] = read[j-1]
        BY <1>1, <4>1
      <4>4. QED
        BY <4>1, <4>2, <4>3
    <3>3. QED
      BY <3>1, <3>2
  <2>3. DOMAIN more = 0..(n+1) /\ more = [j \in 0..(n+1) |-> more[j]]
    OBVIOUS
  <2> HIDE DEF more
  <2>4. Is(more, n + 1)
    BY <2>2, <2>3
  <2>5. QED
    BY <1>1, <1>3, <2>4
<1>4. 0..N \subseteq T
  <2> HIDE DEF T
  <2>1. QED
    BY <1>1, <1>2, <1>3, UpTo
<1>5. \E read : Is(read, N)
  BY <1>1, <1>4
<1>6. Is(all, N)
  BY <1>5, Zenon
<1>7. MapOf(entries) = all[Len(entries)]
  BY Zenon DEF MapOf
<1> HIDE DEF all
<1>8. Reads(all, entries, Len(entries))
  <2>1. all[0] = << >>
    BY <1>1, <1>6
  <2>2. ASSUME NEW j \in 1..N
        PROVE  all[j] = Assigned(all[j-1], entries[j][1], entries[j][2])
    <3>1. j \in 0..N /\ j # 0
      BY <1>1
    <3>2. QED
      BY <1>6, <3>1
  <2>3. QED
    BY <2>1, <2>2 DEF Reads
<1>9. QED
  BY <1>7, <1>8

LEMMA OfMap ==
  ASSUME NEW S, NEW m \in Seq(S)
  PROVE  /\ KeysOf(m) = {e[1] : e \in ToSet(m)}
         /\ \A x : Lookup(m, x) = {e[2] : e \in {g \in ToSet(m) : g[1] = x}}
         /\ DOMAIN m = 1..Len(m) /\ Len(m) \in Nat
         /\ \A e : e \in ToSet(m) <=> \E k \in DOMAIN m : e = m[k]
  BY DEF KeysOf, Lookup, ToSet

\* What an assignment does to a map: the entry is there, those of other keys
\* stay.
LEMMA AssignedMap ==
  ASSUME NEW K, NEW V, NEW m \in Maps(K, V), NEW x \in K, NEW v \in V
  PROVE  /\ Assigned(m, x, v) \in Maps(K, V)
         /\ ToSet(Assigned(m, x, v)) = {e \in ToSet(m) : e[1] # x} \cup {<<x, v>>}
         /\ x \notin KeysOf(m) => Assigned(m, x, v) = Append(m, <<x, v>>)
<1>1. /\ DOMAIN m = 1..Len(m) /\ Len(m) \in Nat
      /\ \A k \in DOMAIN m : m[k] \in K \X V
      /\ m \in Seq(K \X V)
  BY DEF Maps
<1>0. \A j, k \in DOMAIN m : m[j][1] = m[k][1] => j = k
  BY DEF Maps, IsMap
<1>2. CASE x \in KeysOf(m)
  <2> DEFINE r == [k \in DOMAIN m |-> IF m[k][1] = x THEN <<x, v>> ELSE m[k]]
  <2>1. Assigned(m, x, v) = r
    BY <1>2 DEF Assigned
  <2>2. PICK p \in DOMAIN m : m[p][1] = x
    BY <1>2 DEF KeysOf
  <2>3. DOMAIN r = DOMAIN m /\ \A k \in DOMAIN m : r[k] = IF m[k][1] = x THEN <<x, v>> ELSE m[k]
    OBVIOUS
  <2>4. \A k \in DOMAIN m : r[k] \in K \X V /\ r[k][1] = m[k][1]
    BY <1>1
  <2>5. r \in Seq(K \X V)
    <3>1. r \in [1..Len(m) -> K \X V]
      BY <1>1
    <3>2. QED
      BY <1>1, <3>1
  <2> HIDE DEF r
  <2>6. IsMap(r)
    <3>1. \A j, k \in DOMAIN r : r[j][1] = r[k][1] => j = k
      BY <1>0, <2>3, <2>4
    <3>2. QED
      BY <3>1 DEF IsMap
  <2>7. ToSet(r) = {e \in ToSet(m) : e[1] # x} \cup {<<x, v>>}
    <3>1. ASSUME NEW e \in ToSet(r) PROVE e \in {g \in ToSet(m) : g[1] # x} \cup {<<x, v>>}
      BY <2>3 DEF ToSet
    <3>2. ASSUME NEW e \in ToSet(m), e[1] # x PROVE e \in ToSet(r)
      BY <2>3, <3>2 DEF ToSet
    <3>3. <<x, v>> \in ToSet(r)
      BY <2>2, <2>3 DEF ToSet
    <3>4. QED
      BY <3>1, <3>2, <3>3
  <2>8. QED
    BY <1>2, <2>1, <2>5, <2>6, <2>7 DEF Maps
<1>3. CASE x \notin KeysOf(m)
  <2> DEFINE r == Append(m, <<x, v>>)
  <2>1. Assigned(m, x, v) = r
    BY <1>3 DEF Assigned
  <2>2. \A k \in DOMAIN m : m[k][1] # x
    BY <1>3 DEF KeysOf
  <2>3. /\ r \in Seq(K \X V) /\ DOMAIN r = 1..(Len(m) + 1)
        /\ \A k \in DOMAIN m : r[k] = m[k]
        /\ r[Len(m) + 1] = <<x, v>>
    BY <1>1, AppendProperties
  <2> HIDE DEF r
  <2>4. \A k \in DOMAIN r : k \in DOMAIN m \/ k = Len(m) + 1
    BY <1>1, <2>3
  <2>8. Len(m) + 1 \in DOMAIN r /\ DOMAIN m \subseteq DOMAIN r
    BY <1>1, <2>3
  <2>5. IsMap(r)
    <3>1. ASSUME NEW j \in DOMAIN r, NEW k \in DOMAIN r, r[j][1] = r[k][1] PROVE j = k
      BY <1>0, <2>2, <2>3, <2>4, <3>1
    <3>2. QED
      BY <3>1 DEF IsMap
  <2>6. ToSet(r) = {e \in ToSet(m) : e[1] # x} \cup {<<x, v>>}
    <3>1. ASSUME NEW e \in ToSet(r) PROVE e \in {g \in ToSet(m) : g[1] # x} \cup {<<x, v>>}
      BY <2>2, <2>3, <2>4 DEF ToSet
    <3>2. ASSUME NEW e \in ToSet(m) PROVE e \in ToSet(r)
      BY <2>3, <2>8 DEF ToSet
    <3>3. <<x, v>> \in ToSet(r)
      BY <2>3, <2>8 DEF ToSet
    <3>4. QED
      BY <3>1, <3>2, <3>3
  <2>7. QED
    BY <2>1, <2>3, <2>5, <2>6 DEF Maps
<1>4. QED
  BY <1>2, <1>3

\* remove takes the entry of the key, and no other.
LEMMA RemovedMap ==
  ASSUME NEW K, NEW V, NEW m \in Maps(K, V), NEW x
  PROVE  /\ Removed(m, x) \in Maps(K, V)
         /\ ToSet(Removed(m, x)) = {e \in ToSet(m) : e[1] # x}
<1>1. /\ DOMAIN m = 1..Len(m) /\ Len(m) \in Nat
      /\ \A k \in DOMAIN m : m[k] \in K \X V
      /\ m \in Seq(K \X V)
  BY DEF Maps
<1>0. \A j, k \in DOMAIN m : m[j][1] = m[k][1] => j = k
  BY DEF Maps, IsMap
<1>2. CASE x \in KeysOf(m)
  <2> DEFINE p == CHOOSE k \in DOMAIN m : m[k][1] = x
             r == SubSeq(m, 1, p - 1) \o SubSeq(m, p + 1, Len(m))
             from(k) == IF k < p THEN k ELSE k + 1
  <2>1. p \in 1..Len(m) /\ m[p][1] = x
    <3>1. \E k \in DOMAIN m : m[k][1] = x
      BY <1>2 DEF KeysOf
    <3>2. QED
      BY <1>1, <3>1
  <2>2. Removed(m, x) = r
    BY <1>2 DEF Removed, RemoveAt
  <2> HIDE DEF p
  <2>3. /\ SubSeq(m, 1, p - 1) \in Seq(K \X V) /\ Len(SubSeq(m, 1, p - 1)) = p - 1
        /\ \A k \in 1..(p - 1) : SubSeq(m, 1, p - 1)[k] = m[k]
    BY <1>1, <2>1
  <2>4. /\ SubSeq(m, p + 1, Len(m)) \in Seq(K \X V)
        /\ Len(SubSeq(m, p + 1, Len(m))) = Len(m) - p
        /\ \A k \in 1..(Len(m) - p) : SubSeq(m, p + 1, Len(m))[k] = m[p + k]
    <3>1. /\ p + 1 \in Int /\ Len(m) \in Int /\ \A i \in (p + 1)..Len(m) : m[i] \in K \X V
          /\ (IF p + 1 <= Len(m) THEN Len(m) - (p + 1) + 1 ELSE 0) = Len(m) - p
          /\ \A k \in 1..(Len(m) - p) :
               k \in 1..(Len(m) - (p + 1) + 1) /\ (p + 1) + k - 1 = p + k
      <4>1. \A i \in (p + 1)..Len(m) : m[i] \in K \X V
        BY <1>1, <2>1
      <4> DEFINE n == Len(m)
      <4>2. n \in Nat /\ p \in 1..n
        BY <1>1, <2>1
      <4> HIDE DEF n
      <4>3. /\ p + 1 \in Int /\ n \in Int
            /\ (IF p + 1 <= n THEN n - (p + 1) + 1 ELSE 0) = n - p
            /\ \A k \in 1..(n - p) : k \in 1..(n - (p + 1) + 1) /\ (p + 1) + k - 1 = p + k
        BY <4>2
      <4>4. QED
        BY <4>1, <4>3 DEF n
    <3>2. /\ SubSeq(m, p + 1, Len(m)) \in Seq(K \X V)
          /\ Len(SubSeq(m, p + 1, Len(m)))
               = IF p + 1 <= Len(m) THEN Len(m) - (p + 1) + 1 ELSE 0
          /\ \A k \in 1..(Len(m) - (p + 1) + 1) :
               SubSeq(m, p + 1, Len(m))[k] = m[(p + 1) + k - 1]
      BY <3>1, SubSeqProperties
    <3>3. QED
      BY <3>1, <3>2
  <2>5. /\ r \in Seq(K \X V) /\ DOMAIN r = 1..(Len(m) - 1)
        /\ \A k \in 1..(Len(m) - 1) : r[k] = m[from(k)]
    <3> DEFINE a == SubSeq(m, 1, p - 1)
               b == SubSeq(m, p + 1, Len(m))
    <3>0. /\ a \in Seq(K \X V) /\ Len(a) = p - 1 /\ \A k \in 1..(p - 1) : a[k] = m[k]
          /\ b \in Seq(K \X V) /\ Len(b) = Len(m) - p
          /\ \A k \in 1..(Len(m) - p) : b[k] = m[p + k]
      BY <2>3, <2>4
    <3> HIDE DEF a, b
    <3>1. /\ a \o b \in Seq(K \X V) /\ Len(a \o b) = (p - 1) + (Len(m) - p)
          /\ \A k \in 1..((p - 1) + (Len(m) - p)) :
               (a \o b)[k] = IF k <= p - 1 THEN a[k] ELSE b[k - (p - 1)]
      <4>1. /\ a \o b \in Seq(K \X V) /\ Len(a \o b) = Len(a) + Len(b)
            /\ \A k \in 1..(Len(a) + Len(b)) :
                 (a \o b)[k] = IF k <= Len(a) THEN a[k] ELSE b[k - Len(a)]
        BY <3>0, ConcatProperties
      <4>2. QED
        BY <3>0, <4>1
    <3>2. (p - 1) + (Len(m) - p) = Len(m) - 1
      BY <1>1, <2>1
    <3>3. ASSUME NEW k \in 1..(Len(m) - 1) PROVE (a \o b)[k] = m[from(k)]
      <4>1. CASE k < p
        <5>1. k \in 1..(p - 1) /\ k <= p - 1
          BY <1>1, <2>1, <4>1
        <5>2. QED
          BY <3>0, <3>1, <3>2, <4>1, <5>1
      <4>2. CASE ~ (k < p)
        <5>1. ~ (k <= p - 1) /\ k - (p - 1) \in 1..(Len(m) - p) /\ p + (k - (p - 1)) = k + 1
          BY <1>1, <2>1, <4>2
        <5>2. QED
          BY <3>0, <3>1, <3>2, <4>2, <5>1
      <4>3. QED
        BY <4>1, <4>2
    <3>4. DOMAIN (a \o b) = 1..(Len(m) - 1)
      BY <3>1, <3>2
    <3>5. QED
      BY <3>1, <3>3, <3>4 DEF a, b
  <2> HIDE DEF r
  <2>6. \A k \in 1..(Len(m) - 1) : from(k) \in 1..Len(m) /\ from(k) # p
    BY <1>1, <2>1
  <2>7. \A j, k \in 1..(Len(m) - 1) : from(j) = from(k) => j = k
    BY <1>1, <2>1
  <2>8. \A j \in 1..Len(m) : j # p => \E k \in 1..(Len(m) - 1) : j = from(k)
    <3>1. ASSUME NEW j \in 1..Len(m), j # p PROVE \E k \in 1..(Len(m) - 1) : j = from(k)
      <4>1. CASE j < p
        <5>1. j \in 1..(Len(m) - 1) /\ j = from(j)
          BY <1>1, <2>1, <4>1
        <5>2. QED
          BY <5>1
      <4>2. CASE j > p
        <5>1. j - 1 \in 1..(Len(m) - 1) /\ j = from(j - 1)
          BY <1>1, <2>1, <4>2
        <5>2. QED
          BY <5>1
      <4>3. QED
        BY <1>1, <2>1, <3>1, <4>1, <4>2
    <3>2. QED
      BY <3>1
  <2> HIDE DEF from
  <2>9. \A k \in DOMAIN m : m[k][1] = x <=> k = p
    BY <1>0, <1>1, <2>1
  <2>10. IsMap(r)
    <3>1. ASSUME NEW j \in DOMAIN r, NEW k \in DOMAIN r, r[j][1] = r[k][1] PROVE j = k
      <4>1. from(j) \in DOMAIN m /\ from(k) \in DOMAIN m /\ m[from(j)][1] = m[from(k)][1]
        BY <1>1, <2>5, <2>6, <3>1
      <4>2. from(j) = from(k)
        BY <1>0, <4>1
      <4>3. QED
        BY <2>5, <2>7, <4>2
    <3>2. QED
      BY <3>1 DEF IsMap
  <2>11. ToSet(r) = {e \in ToSet(m) : e[1] # x}
    <3>1. ASSUME NEW k \in DOMAIN r PROVE r[k] \in {e \in ToSet(m) : e[1] # x}
      <4>1. from(k) \in DOMAIN m /\ from(k) # p /\ r[k] = m[from(k)]
        BY <1>1, <2>5, <2>6
      <4>2. QED
        BY <2>9, <4>1 DEF ToSet
    <3>2. ASSUME NEW j \in DOMAIN m, m[j][1] # x PROVE m[j] \in ToSet(r)
      <4>1. PICK k \in 1..(Len(m) - 1) : j = from(k)
        BY <1>1, <2>8, <2>9, <3>2
      <4>2. QED
        BY <2>5, <4>1 DEF ToSet
    <3>3. QED
      BY <3>1, <3>2 DEF ToSet
  <2>12. QED
    BY <2>2, <2>5, <2>10, <2>11 DEF Maps
<1>3. CASE x \notin KeysOf(m)
  <2>1. Removed(m, x) = m
    BY <1>3 DEF Removed
  <2>2. \A e \in ToSet(m) : e[1] # x
    BY <1>3 DEF KeysOf, ToSet
  <2>3. QED
    BY <2>1, <2>2
<1>4. QED
  BY <1>2, <1>3

\* What a reader makes of entries: a map of the same keys with values that were
\* read for them, and of a map that map.
LEMMA MapOfMap ==
  ASSUME NEW K, NEW V, NEW entries \in Seq(K \X V)
  PROVE  /\ MapOf(entries) \in Maps(K, V)
         /\ ToSet(MapOf(entries)) \subseteq ToSet(entries)
         /\ KeysOf(MapOf(entries)) = KeysOf(entries)
         /\ IsMap(entries) => MapOf(entries) = entries
<1> DEFINE N == Len(entries)
<1>1. PICK read : Reads(read, entries, N) /\ MapOf(entries) = read[N]
  BY MapOfLoop
<1>2. N \in Nat /\ DOMAIN entries = 1..N
  OBVIOUS
<1>3. \A j \in 1..N : /\ entries[j] \in K \X V
                      /\ entries[j] = <<entries[j][1], entries[j][2]>>
                      /\ entries[j][1] \in K /\ entries[j][2] \in V
  BY <1>2
<1> HIDE DEF N
<1> DEFINE Good(n) ==
             /\ read[n] \in Maps(K, V)
             /\ \A e \in ToSet(read[n]) : \E j \in 1..n : e = entries[j]
             /\ \A j \in 1..n : \E e \in ToSet(read[n]) : e[1] = entries[j][1]
           T == {n \in 0..N : Good(n)}
           Same == {n \in 0..N : read[n] = SubSeq(entries, 1, n)}
<1>4. Good(0)
  <2>1. read[0] = << >>
    BY <1>1 DEF Reads
  <2>2. << >> \in Maps(K, V) /\ ToSet(<< >>) = {}
    BY DEF Maps, IsMap, ToSet
  <2>3. \A j \in 1..0 : FALSE
    OBVIOUS
  <2>4. QED
    BY <2>1, <2>2, <2>3
<1>5. ASSUME NEW n \in 0..N, Good(n), n + 1 <= N PROVE Good(n + 1)
  <2> DEFINE e1 == entries[n+1]
  <2>1. n + 1 \in 1..N /\ n + 1 \in 0..N /\ (n + 1) - 1 = n
    BY <1>2, <1>5
  <2>2. read[n+1] = Assigned(read[n], e1[1], e1[2])
    BY <1>1, <2>1 DEF Reads
  <2>3. /\ read[n] \in Maps(K, V)
        /\ \A e \in ToSet(read[n]) : \E j \in 1..n : e = entries[j]
        /\ \A j \in 1..n : \E e \in ToSet(read[n]) : e[1] = entries[j][1]
    BY <1>5
  <2>4. e1[1] \in K /\ e1[2] \in V /\ e1 = <<e1[1], e1[2]>>
    BY <1>3, <2>1
  <2> HIDE DEF e1
  <2>5. /\ read[n+1] \in Maps(K, V)
        /\ ToSet(read[n+1]) = {e \in ToSet(read[n]) : e[1] # e1[1]} \cup {e1}
    <3> DEFINE m == read[n]
               x == e1[1]
               v == e1[2]
    <3>1. m \in Maps(K, V) /\ x \in K /\ v \in V /\ e1 = <<x, v>>
      BY <2>3, <2>4
    <3>2. read[n+1] = Assigned(m, x, v)
      BY <2>2
    <3> HIDE DEF m, x, v
    <3>3. /\ read[n+1] \in Maps(K, V)
          /\ ToSet(read[n+1]) = {e \in ToSet(m) : e[1] # x} \cup {e1}
      BY <3>1, <3>2, AssignedMap
    <3>4. QED
      BY <3>3 DEF m, x
  <2>6. /\ \A j \in 1..n : j \in 1..(n+1)
        /\ \A j \in 1..(n+1) : j \in 1..n \/ j = n + 1
        /\ n + 1 \in 1..(n+1)
    BY <1>2, <2>1
  <2>7. ASSUME NEW e \in ToSet(read[n+1]) PROVE \E j \in 1..(n+1) : e = entries[j]
    BY <2>3, <2>5, <2>6 DEF e1
  <2>8. ASSUME NEW j \in 1..(n+1) PROVE \E e \in ToSet(read[n+1]) : e[1] = entries[j][1]
    <3>1. e1 \in ToSet(read[n+1])
      BY <2>5
    <3>2. CASE entries[j][1] = e1[1]
      BY <3>1, <3>2
    <3>3. CASE entries[j][1] # e1[1]
      <4>1. j \in 1..n
        BY <2>6, <3>3 DEF e1
      <4>2. PICK e \in ToSet(read[n]) : e[1] = entries[j][1]
        BY <2>3, <4>1
      <4>3. QED
        BY <2>5, <3>3, <4>2
    <3>4. QED
      BY <3>2, <3>3
  <2>9. QED
    BY <2>1, <2>5, <2>7, <2>8
<1> HIDE DEF Good
<1>6. Good(N)
  <2>1. 0 \in T /\ \A n \in 0..N : n \in T /\ n + 1 <= N => n + 1 \in T
    <3>1. \A n \in 0..N : n + 1 <= N => n + 1 \in 0..N
      BY <1>2
    <3>2. 0 \in 0..N
      BY <1>2
    <3>3. QED
      BY <1>4, <1>5, <3>1, <3>2
  <2> HIDE DEF T
  <2>2. 0..N \subseteq T
    BY <1>2, <2>1, UpTo
  <2>3. N \in T
    BY <1>2, <2>2
  <2>4. QED
    BY <2>3 DEF T
<1>7. ASSUME IsMap(entries) PROVE read[N] = entries
  <2>1. 0 \in Same
    <3>1. read[0] = << >>
      BY <1>1 DEF Reads
    <3>2. SubSeq(entries, 1, 0) = << >>
      BY SubSeqEmpty
    <3>3. 0 \in 0..N
      BY <1>2
    <3>4. QED
      BY <3>1, <3>2, <3>3
  <2>2. ASSUME NEW n \in 0..N, n \in Same, n + 1 <= N PROVE n + 1 \in Same
    <3> DEFINE s == SubSeq(entries, 1, n)
               e1 == entries[n+1]
    <3>1. n + 1 \in 1..N /\ n + 1 \in 0..N /\ (n + 1) - 1 = n /\ n \in Nat
      BY <1>2, <2>2
    <3>2. read[n+1] = Assigned(s, e1[1], e1[2])
      BY <1>1, <2>2, <3>1 DEF Reads
    <3>3. /\ s \in Seq(K \X V) /\ Len(s) = n /\ DOMAIN s = 1..n
          /\ \A j \in 1..n : s[j] = entries[j] /\ j \in 1..N
      BY <1>2, <3>1 DEF N
    <3>4. e1[1] \in K /\ e1[2] \in V /\ e1 = <<e1[1], e1[2]>>
      BY <1>3, <3>1
    <3> HIDE DEF s
    <3>5. \A j \in 1..n : s[j][1] # e1[1]
      <4>1. \A j \in 1..n : j \in DOMAIN entries /\ j # n + 1 /\ n + 1 \in DOMAIN entries
        BY <1>2, <3>1, <3>3
      <4>2. QED
        BY <1>7, <3>3, <4>1 DEF IsMap
    <3>6. e1[1] \notin KeysOf(s) /\ s \in Maps(K, V)
      <4>1. \A j, k \in 1..n : s[j][1] = s[k][1] => j = k
        BY <1>2, <1>7, <3>3 DEF IsMap
      <4>2. QED
        BY <3>3, <3>5, <4>1 DEF Maps, IsMap, KeysOf
    <3>7. read[n+1] = Append(s, e1)
      <4> DEFINE x == e1[1]
                 v == e1[2]
      <4>1. x \in K /\ v \in V /\ e1 = <<x, v>> /\ read[n+1] = Assigned(s, x, v)
            /\ x \notin KeysOf(s)
        BY <3>2, <3>4, <3>6
      <4> HIDE DEF x, v
      <4>2. QED
        BY <3>3, <3>6, <4>1, AssignedMap
    <3>8. /\ SubSeq(entries, 1, n + 1) \in Seq(K \X V) /\ Len(SubSeq(entries, 1, n + 1)) = n + 1
          /\ \A j \in 1..(n+1) : SubSeq(entries, 1, n + 1)[j] = entries[j]
      BY <1>2, <3>1 DEF N
    <3>9. /\ Append(s, e1) \in Seq(K \X V) /\ Len(Append(s, e1)) = n + 1
          /\ \A j \in 1..(n+1) : Append(s, e1)[j] = entries[j]
      <4>1. e1 \in K \X V
        BY <1>3, <3>1
      <4>2. QED
        BY <3>1, <3>3, <4>1, AppendProperties
    <3>10. Append(s, e1) = SubSeq(entries, 1, n + 1)
      <4> DEFINE a == Append(s, e1)
                 b == SubSeq(entries, 1, n + 1)
      <4>1. /\ a \in Seq(K \X V) /\ Len(a) = n + 1 /\ b \in Seq(K \X V) /\ Len(b) = n + 1
            /\ \A j \in 1..(n+1) : a[j] = b[j]
        BY <3>8, <3>9
      <4> HIDE DEF a, b
      <4>2. a = b
        BY <4>1, SeqEqual
      <4>3. QED
        BY <4>2 DEF a, b
    <3>11. QED
      BY <3>1, <3>7, <3>10
  <2>3. 0..N \subseteq Same
    <3> HIDE DEF Same
    <3>1. QED
      BY <1>2, <2>1, <2>2, UpTo
  <2>4. read[N] = SubSeq(entries, 1, N)
    BY <1>2, <2>3
  <2>5. QED
    BY <2>4, SubSeqFull DEF N
<1>8. /\ read[N] \in Maps(K, V)
      /\ \A e \in ToSet(read[N]) : \E j \in 1..N : e = entries[j]
      /\ \A j \in 1..N : \E e \in ToSet(read[N]) : e[1] = entries[j][1]
  BY <1>6 DEF Good
<1>9. ToSet(read[N]) \subseteq ToSet(entries)
  BY <1>2, <1>8 DEF ToSet
<1>10. KeysOf(read[N]) = KeysOf(entries)
  <2>1. KeysOf(read[N]) = {e[1] : e \in ToSet(read[N])}
    BY DEF KeysOf, ToSet
  <2>2. KeysOf(entries) = {entries[j][1] : j \in 1..N}
    BY <1>2 DEF KeysOf
  <2>3. QED
    BY <1>8, <2>1, <2>2
<1>11. QED
  BY <1>1, <1>7, <1>8, <1>9, <1>10

-----------------------------------------------------------------------------
(* What is read again.                                                       *)

\* Reading a value again changes nothing that one reading left.
LEMMA ValueReread ==
  ASSUME NEW v \in Values
  PROVE  RereadValue(v) \in Values /\ RereadValue(RereadValue(v)) = RereadValue(v)
<1>1. CASE v = Null
  BY <1>1 DEF RereadValue, Values, Null
<1>2. CASE v \in (Types \ {"null"}) \X Int /\ (v[1] = "string" => v[2] \in Texts)
  <2>1. CASE v[1] = "string"
    <3>1. Cut[v[2]] \in Texts /\ Cut[v[2]] \in Int /\ Cut[Cut[v[2]]] = Cut[v[2]]
      BY <1>2, <2>1, TextsAssumption
    <3>2. <<"string", Cut[v[2]]>> \in (Types \ {"null"}) \X Int
      BY <3>1 DEF Types
    <3>3. QED
      BY <2>1, <3>1, <3>2 DEF RereadValue, Values
  <2>2. CASE v[1] = "other"
    BY <2>2 DEF RereadValue, Values, Null
  <2>3. CASE v[1] # "string" /\ v[1] # "other"
    BY <2>3 DEF RereadValue
  <2>4. QED
    BY <2>1, <2>2, <2>3
<1>3. QED
  BY <1>1, <1>2 DEF Values

Each(m, key, value) ==
  MapOf([k \in DOMAIN m |-> <<key[m[k][1]], value[m[k][2]]>>])

\* A reader that replaces keys and values, over any map.
LEMMA MapOfEach ==
  ASSUME NEW K, NEW V, NEW m \in Maps(K, V), NEW key \in [K -> K], NEW value \in [V -> V]
  PROVE  /\ Each(m, key, value) \in Maps(K, V)
         /\ \A e \in ToSet(Each(m, key, value)) :
              \E g \in ToSet(m) : e = <<key[g[1]], value[g[2]]>>
         /\ KeysOf(Each(m, key, value)) = {key[x] : x \in KeysOf(m)}
         /\ (\A g \in ToSet(m) : g = <<key[g[1]], value[g[2]]>>) => Each(m, key, value) = m
<1> DEFINE entries == [k \in DOMAIN m |-> <<key[m[k][1]], value[m[k][2]]>>]
<1>1. /\ m \in Seq(K \X V) /\ IsMap(m) /\ DOMAIN m = 1..Len(m) /\ Len(m) \in Nat
      /\ \A k \in DOMAIN m : m[k] \in K \X V /\ m[k][1] \in K /\ m[k][2] \in V
  BY DEF Maps
<1>2. DOMAIN entries = DOMAIN m
  OBVIOUS
<1>3. \A k \in DOMAIN m : /\ entries[k] = <<key[m[k][1]], value[m[k][2]]>>
                          /\ entries[k] \in K \X V
  BY <1>1
<1>4. entries \in Seq(K \X V)
  <2>1. entries \in [1..Len(m) -> K \X V]
    BY <1>1, <1>3
  <2>2. QED
    BY <1>1, <2>1
<1>5. /\ MapOf(entries) \in Maps(K, V)
      /\ ToSet(MapOf(entries)) \subseteq ToSet(entries)
      /\ KeysOf(MapOf(entries)) = KeysOf(entries)
      /\ IsMap(entries) => MapOf(entries) = entries
  <2> HIDE DEF entries
  <2>1. QED
    BY <1>4, MapOfMap
<1>6. ASSUME NEW e \in ToSet(MapOf(entries))
      PROVE  \E g \in ToSet(m) : e = <<key[g[1]], value[g[2]]>>
  <2>1. PICK k \in DOMAIN m : e = entries[k]
    BY <1>2, <1>5, Zenon DEF ToSet
  <2>2. m[k] \in ToSet(m)
    BY DEF ToSet
  <2>3. QED
    BY <1>3, <2>1, <2>2
<1>7. KeysOf(entries) = {key[x] : x \in KeysOf(m)}
  <2>1. \A k \in DOMAIN m : entries[k][1] = key[m[k][1]]
    BY <1>3
  <2>2. QED
    BY <1>2, <2>1 DEF KeysOf
<1>8. ASSUME \A g \in ToSet(m) : g = <<key[g[1]], value[g[2]]>> PROVE MapOf(entries) = m
  <2>1. \A k \in DOMAIN m : entries[k] = m[k]
    BY <1>3, <1>8 DEF ToSet
  <2>2. entries = m
    BY <1>1, <1>2, <1>4, <2>1, SeqEqual
  <2>3. QED
    BY <1>1, <1>5, <2>2
<1>9. Each(m, key, value) = MapOf(entries)
  BY DEF Each
<1> HIDE DEF entries
<1>10. QED
  BY <1>5, <1>6, <1>7, <1>8, <1>9

\* An entry that reading leaves as it is.
Clean(e) == e \in Texts \X Values /\ e[1] \notin Long /\ RereadEntry(e) = e

LEMMA EntryReread ==
  /\ \A e \in Texts \X Values : e[1] \notin Long => Clean(RereadEntry(e))
  /\ \A n \in DOMAIN Spill : Clean(<<Spill[n], Null>>)
<1>1. ASSUME NEW e \in Texts \X Values, e[1] \notin Long PROVE Clean(RereadEntry(e))
  <2>1. /\ e[1] \in Texts /\ e[2] \in Values
        /\ Cut[e[1]] \in Texts /\ Cut[e[1]] \notin Long /\ Cut[Cut[e[1]]] = Cut[e[1]]
    BY <1>1, TextsAssumption
  <2>2. RereadValue(e[2]) \in Values /\ RereadValue(RereadValue(e[2])) = RereadValue(e[2])
    BY <2>1, ValueReread
  <2>3. QED
    BY <2>1, <2>2 DEF Clean, RereadEntry
<1>2. ASSUME NEW n \in DOMAIN Spill PROVE Clean(<<Spill[n], Null>>)
  <2>1. Spill[n] \in Texts /\ Spill[n] \notin Long /\ Cut[Spill[n]] = Spill[n]
    BY SpillAssumption
  <2>2. Null \in Values /\ RereadValue(Null) = Null
    BY DEF Null, Values, RereadValue
  <2>3. QED
    BY <2>1, <2>2 DEF Clean, RereadEntry
<1>3. QED
  BY <1>1, <1>2

\* The first long name of the fields, if they have one.
LEMMA FirstLong ==
  ASSUME NEW f \in FieldMaps
  PROVE  /\ DOMAIN f = 1..Len(f) /\ Len(f) \in Nat
         /\ \A k \in DOMAIN f : f[k] \in Texts \X Values
         /\ LongAt(f) \in Nat
         /\ LongAt(f) = 0 => \A k \in DOMAIN f : f[k][1] \notin Long
         /\ LongAt(f) # 0 => /\ LongAt(f) \in DOMAIN f
                             /\ \A j \in 1..(LongAt(f)-1) : f[j][1] \notin Long
<1>1. DOMAIN f = 1..Len(f) /\ Len(f) \in Nat /\ \A k \in DOMAIN f : f[k] \in Texts \X Values
  BY DEF FieldMaps, Maps
<1>2. CASE KeysOf(f) \cap Long = {}
  BY <1>1, <1>2 DEF LongAt, KeysOf
<1>3. CASE KeysOf(f) \cap Long # {}
  <2> DEFINE T == {k \in DOMAIN f : f[k][1] \in Long}
             First(k) == f[k][1] \in Long /\ \A j \in 1..(k-1) : f[j][1] \notin Long
  <2>1. T \in SUBSET Nat /\ T # {}
    BY <1>1, <1>3 DEF KeysOf
  <2>2. PICK m \in T : \A n \in T : m <= n
    BY <2>1, LeastNatural
  <2>3. m \in DOMAIN f /\ First(m)
    <3>1. ASSUME NEW j \in 1..(m-1), f[j][1] \in Long PROVE FALSE
      <4>1. j \in DOMAIN f /\ ~ (m <= j)
        BY <1>1, <2>2
      <4>2. QED
        BY <2>2, <3>1, <4>1
    <3>2. QED
      BY <2>2, <3>1
  <2>4. LongAt(f) = CHOOSE k \in DOMAIN f : First(k)
    BY <1>3 DEF LongAt
  <2> HIDE DEF First
  <2>5. LongAt(f) \in DOMAIN f /\ First(LongAt(f))
    BY <2>3, <2>4, Zenon
  <2>6. QED
    BY <1>1, <2>5 DEF First
<1>4. QED
  BY <1>2, <1>3

\* The fields of a document that were read: they are fields, reading them once
\* more changes nothing, and each one is a field that was written or a null.
LEMMA FieldsReread ==
  ASSUME NEW f \in FieldMaps
  PROVE  /\ RereadFields(f) \in FieldMaps
         /\ RereadFields(RereadFields(f)) = RereadFields(f)
         /\ Readable(RereadFields(f))
         /\ FromFields(f, f)
         /\ Readable(f) => FromFields(RereadFields(f), f)
<1> DEFINE long == LongAt(f)
           entries == [k \in DOMAIN f |-> IF long = 0 \/ k < long THEN RereadEntry(f[k])
                                          ELSE <<Spill[k - long + 1], Null>>]
           r == RereadFields(f)
           ReadOf(e) == \/ \E k \in DOMAIN f : e = RereadEntry(f[k])
                        \/ e[2] = Null /\ long # 0
<1>1. /\ DOMAIN f = 1..Len(f) /\ Len(f) \in Nat
      /\ \A k \in DOMAIN f : f[k] \in Texts \X Values
      /\ long \in Nat
      /\ long = 0 => \A k \in DOMAIN f : f[k][1] \notin Long
      /\ long # 0 => /\ long \in DOMAIN f
                     /\ \A j \in 1..(long-1) : f[j][1] \notin Long
  BY FirstLong
<1>2. /\ Readable(f) <=> long = 0 \/ Len(f) - long < Len(Spill)
      /\ r = IF ~Readable(f) THEN << >> ELSE MapOf(entries)
  BY DEF Readable, RereadFields
<1>3. DOMAIN Spill = 1..Len(Spill) /\ Len(Spill) \in Nat
  BY SpillAssumption
<1> HIDE DEF long
<1>4. ASSUME Readable(f), NEW k \in DOMAIN f PROVE Clean(entries[k]) /\ ReadOf(entries[k])
  <2>1. CASE long = 0 \/ k < long
    <3>1. f[k] \in Texts \X Values /\ f[k][1] \notin Long
      BY <1>1, <2>1
    <3>2. entries[k] = RereadEntry(f[k])
      BY <2>1
    <3>3. QED
      BY <3>1, <3>2, EntryReread
  <2>2. CASE ~ (long = 0 \/ k < long)
    <3>1. k - long + 1 \in DOMAIN Spill
      BY <1>1, <1>2, <1>3, <1>4, <2>2
    <3>2. entries[k] = <<Spill[k - long + 1], Null>>
      BY <2>2
    <3>3. QED
      BY <2>2, <3>1, <3>2, EntryReread
  <2>3. QED
    BY <2>1, <2>2
<1>5. DOMAIN entries = DOMAIN f
  OBVIOUS
<1> HIDE DEF entries, ReadOf
<1>6. r \in FieldMaps /\ \A e \in ToSet(r) : Clean(e) /\ ReadOf(e)
  <2>1. CASE Readable(f)
    <3>1. entries \in Seq(Texts \X Values)
      <4>1. \A k \in 1..Len(f) : entries[k] \in Texts \X Values
        BY <1>1, <1>4, <2>1 DEF Clean
      <4>2. entries = [k \in 1..Len(f) |-> entries[k]]
        BY <1>1 DEF entries
      <4>3. entries \in [1..Len(f) -> Texts \X Values]
        BY <4>1, <4>2
      <4>4. QED
        BY <1>1, <4>3
    <3>2. /\ MapOf(entries) \in FieldMaps
          /\ ToSet(MapOf(entries)) \subseteq ToSet(entries)
      BY <3>1, MapOfMap DEF FieldMaps
    <3>3. \A e \in ToSet(entries) : Clean(e) /\ ReadOf(e)
      BY <1>4, <1>5, <2>1 DEF ToSet
    <3>4. QED
      BY <1>2, <2>1, <3>2, <3>3
  <2>2. CASE ~Readable(f)
    <3>1. << >> \in FieldMaps /\ ToSet(<< >>) = {}
      BY DEF FieldMaps, Maps, IsMap, ToSet
    <3>2. QED
      BY <1>2, <2>2, <3>1
  <2>3. QED
    BY <2>1, <2>2
<1> HIDE DEF r
<1>7. r \in Seq(Texts \X Values) /\ IsMap(r) /\ \A k \in DOMAIN r : Clean(r[k]) /\ ReadOf(r[k])
  BY <1>6 DEF FieldMaps, Maps, ToSet
<1>8. LongAt(r) = 0 /\ Readable(r)
  <2>1. KeysOf(r) \cap Long = {}
    BY <1>7 DEF KeysOf, Clean
  <2>2. QED
    BY <2>1 DEF LongAt, Readable
<1>9. RereadFields(r) = r
  <2> DEFINE same == [k \in DOMAIN r |-> RereadEntry(r[k])]
  <2>1. RereadFields(r) = MapOf(same)
    BY <1>8 DEF RereadFields
  <2>2. \A k \in DOMAIN r : same[k] = r[k]
    BY <1>7 DEF Clean
  <2>3. same = r
    <3>1. DOMAIN same = DOMAIN r /\ r = [k \in DOMAIN r |-> r[k]]
      BY <1>7
    <3>2. QED
      BY <2>2, <3>1
  <2> HIDE DEF same
  <2>4. QED
    BY <1>7, <2>1, <2>3, MapOfMap
<1>10. ASSUME Readable(f) PROVE FromFields(r, f)
  <2>1. r = RereadFields(f)
    BY DEF r
  <2>2. \A j \in DOMAIN r : \/ \E k \in DOMAIN f : r[j] = RereadEntry(f[k])
                            \/ r[j][2] = Null /\ LongAt(f) # 0
    BY <1>7 DEF ReadOf, long
  <2>3. QED
    BY <1>10, <2>1, <2>2 DEF FromFields
<1>11. FromFields(f, f)
  BY DEF FromFields
<1>12. QED
  BY <1>6, <1>8, <1>9, <1>10, <1>11 DEF r

ReadFields == [f \in FieldMaps |-> RereadFields(f)]

\* The documents of a file that was read: each one is a document of the file,
\* under the id and with the fields the codec leaves.
LEMMA DocsReread ==
  ASSUME NEW docs \in DocMaps
  PROVE  /\ RereadDocs(docs) \in DocMaps
         /\ \A e \in ToSet(RereadDocs(docs)) :
              \E g \in ToSet(docs) : e = <<Cut[g[1]], RereadFields(g[2])>>
         /\ KeysOf(RereadDocs(docs)) = {Cut[x] : x \in KeysOf(docs)}
<1>1. ReadFields \in [FieldMaps -> FieldMaps] /\ Cut \in [Texts -> Texts]
  BY FieldsReread, TextsAssumption DEF ReadFields
<1>2. \A k \in DOMAIN docs : docs[k][2] \in FieldMaps
  BY DEF DocMaps, Maps
<1>3. RereadDocs(docs) = Each(docs, Cut, ReadFields)
  <2>1. \A k \in DOMAIN docs : ReadFields[docs[k][2]] = RereadFields(docs[k][2])
    BY <1>2 DEF ReadFields
  <2>2. QED
    BY <2>1 DEF RereadDocs, Each
<1>4. /\ RereadDocs(docs) \in DocMaps
      /\ \A e \in ToSet(RereadDocs(docs)) :
           \E g \in ToSet(docs) : e = <<Cut[g[1]], ReadFields[g[2]]>>
      /\ KeysOf(RereadDocs(docs)) = {Cut[x] : x \in KeysOf(docs)}
  BY <1>1, <1>3, MapOfEach DEF DocMaps
<1>5. \A g \in ToSet(docs) : ReadFields[g[2]] = RereadFields(g[2])
  BY <1>2 DEF ReadFields, ToSet
<1>6. QED
  BY <1>4, <1>5

-----------------------------------------------------------------------------
(* The invariant, of memory and of the files alike.                          *)

Puts  == {{}} \cup {{f} : f \in Inputs}
Calls == Names \X Ids \X Puts

\* Undisturbed, OfOneCall and PlainSurvive of the calls W, for one
\* document or one collection.
UndisturbedBy(W, c, i) ==
  \A w \in W :
    /\ w[1] \in LandsOn[c] => w[1] = c
    /\ w[1] = c => /\ w[2] \notin Long /\ (Cut[w[2]] = i => w[2] = i)
                   /\ \A f \in w[3] : Readable(f)

Origin(w, c, e) == /\ w[1] \in LandsOn[c]
                   /\ e[1] \in {w[2], Cut[w[2]]}
                   /\ \E f \in w[3] : FromFields(e[2], f)
Kept(V) == V \cup {{RereadFields(f) : f \in v} : v \in V}

Good(c, docs, W, my) ==
  /\ docs \in DocMaps
  /\ \A e \in ToSet(docs) : \E w \in W : Origin(w, c, e)
  /\ \A i \in Ids : c \in Names /\ Plain(c, i) /\ UndisturbedBy(W, c, i)
                      => Lookup(docs, i) \in Kept(my[<<c, i>>])

IsStore(m) == DOMAIN m \subseteq Texts /\ m \in [DOMAIN m -> DocMaps]
GoodStore(m, W, my) == /\ IsStore(m)
                       /\ \A c \in Texts : Good(c, DocsOf(m, c), W, my)
NoneEmpty(files) == \A c \in DOMAIN files : files[c] # << >>

IInv == /\ GoodStore(memory, written, may)
        /\ GoodStore(disk, written, may) /\ NoneEmpty(disk)
        /\ written \subseteq Calls /\ may \in [Names \X Ids -> SUBSET Puts]

LEMMA Entries ==
  ASSUME NEW K, NEW V, NEW m \in Maps(K, V)
  PROVE  /\ \A e \in ToSet(m) : e = <<e[1], e[2]>> /\ e[1] \in K /\ e[2] \in V
         /\ \A e, g \in ToSet(m) : e[1] = g[1] => e = g
         /\ KeysOf(m) = {e[1] : e \in ToSet(m)}
         /\ \A x : Lookup(m, x) = {e[2] : e \in {g \in ToSet(m) : g[1] = x}}
<1>1. m \in Seq(K \X V) /\ \A j, k \in DOMAIN m : m[j][1] = m[k][1] => j = k
  BY DEF Maps, IsMap
<1>2. /\ KeysOf(m) = {e[1] : e \in ToSet(m)}
      /\ \A x : Lookup(m, x) = {e[2] : e \in {g \in ToSet(m) : g[1] = x}}
      /\ \A e : e \in ToSet(m) <=> \E k \in DOMAIN m : e = m[k]
  BY <1>1, OfMap
<1>3. \A k \in DOMAIN m : m[k] = <<m[k][1], m[k][2]>> /\ m[k][1] \in K /\ m[k][2] \in V
  BY <1>1
<1>4. QED
  BY <1>1, <1>2, <1>3

LEMMA NoEntries ==
  /\ \A K, V : << >> \in Maps(K, V)
  /\ ToSet(<< >>) = {} /\ \A x : Lookup(<< >>, x) = {}
  /\ IsStore(<< >>) /\ DOMAIN << >> = {}
BY DEF Maps, IsMap, ToSet, Lookup, IsStore

LEMMA DocsOfStore ==
  ASSUME NEW m, IsStore(m)
  PROVE  /\ \A c : DocsOf(m, c) \in DocMaps
         /\ \A c : DocsOf(m, c) # << >> => c \in DOMAIN m
         /\ \A c \in DOMAIN m : DocsOf(m, c) = m[c]
  BY NoEntries DEF IsStore, DocsOf, DocMaps

\* What is good of some calls stays so when there are more of them.
LEMMA Later ==
  ASSUME NEW c, NEW docs, NEW W, NEW my, NEW X, NEW mine, Good(c, docs, W, my),
         W \subseteq X, \A i \in Ids : c \in Names => my[<<c, i>>] \subseteq mine[<<c, i>>]
  PROVE  Good(c, docs, X, mine)
<1>1. \A e \in ToSet(docs) : \E w \in X : Origin(w, c, e)
  BY DEF Good
<1>2. ASSUME NEW i \in Ids, c \in Names, Plain(c, i), UndisturbedBy(X, c, i)
      PROVE  Lookup(docs, i) \in Kept(mine[<<c, i>>])
  <2>1. UndisturbedBy(W, c, i)
    BY <1>2 DEF UndisturbedBy
  <2>2. Lookup(docs, i) \in Kept(my[<<c, i>>]) /\ my[<<c, i>>] \subseteq mine[<<c, i>>]
    BY <1>2, <2>1 DEF Good
  <2>3. QED
    BY <2>2 DEF Kept
<1>3. QED
  BY <1>1, <1>2 DEF Good

\* What a put or a delete makes of a collection.
Changed(docs, i, fields) ==
  IF fields = {} THEN Removed(docs, i) ELSE Assigned(docs, i, CHOOSE f \in fields : TRUE)

LEMMA ChangedDocs ==
  ASSUME NEW docs \in DocMaps, NEW i \in Texts, NEW fields,
         fields = {} \/ \E f \in FieldMaps : fields = {f}
  PROVE  /\ Changed(docs, i, fields) \in DocMaps
         /\ ToSet(Changed(docs, i, fields))
              = {e \in ToSet(docs) : e[1] # i} \cup {<<i, f>> : f \in fields}
         /\ Lookup(Changed(docs, i, fields), i) = fields
         /\ \A x : x # i => Lookup(Changed(docs, i, fields), x) = Lookup(docs, x)
<1> DEFINE r == Changed(docs, i, fields)
<1>1. r \in DocMaps /\ ToSet(r) = {e \in ToSet(docs) : e[1] # i} \cup {<<i, f>> : f \in fields}
  <2>1. CASE fields = {}
    <3>1. r = Removed(docs, i)
      BY <2>1 DEF Changed
    <3>2. {<<i, f>> : f \in fields} = {}
      BY <2>1
    <3>3. QED
      BY <3>1, <3>2, RemovedMap DEF DocMaps
  <2>2. ASSUME NEW f \in FieldMaps, fields = {f} PROVE r \in DocMaps /\ ToSet(r) = {e \in ToSet(docs) : e[1] # i} \cup {<<i, g>> : g \in fields}
    <3>1. r = Assigned(docs, i, f)
      BY <2>2 DEF Changed
    <3>2. {<<i, g>> : g \in fields} = {<<i, f>>}
      BY <2>2
    <3>3. QED
      BY <3>1, <3>2, AssignedMap DEF DocMaps
  <2>3. QED
    BY <2>1, <2>2
<1> HIDE DEF r
<1>2. \A x : Lookup(r, x) = {e[2] : e \in {g \in ToSet(r) : g[1] = x}}
  BY <1>1, Entries DEF DocMaps
<1>3. \A x : Lookup(docs, x) = {e[2] : e \in {g \in ToSet(docs) : g[1] = x}}
  BY Entries DEF DocMaps
<1>4. Lookup(r, i) = fields
  <2>1. {g \in ToSet(r) : g[1] = i} = {<<i, f>> : f \in fields}
    BY <1>1
  <2>2. Lookup(r, i) = {e[2] : e \in {<<i, f>> : f \in fields}}
    BY <1>2, <2>1
  <2>3. CASE fields = {}
    BY <2>2, <2>3
  <2>4. ASSUME NEW f \in FieldMaps, fields = {f} PROVE Lookup(r, i) = fields
    <3>1. {<<i, g>> : g \in fields} = {<<i, f>>}
      BY <2>4
    <3>2. Lookup(r, i) = {e[2] : e \in {<<i, f>>}}
      BY <2>2, <3>1
    <3>3. {e[2] : e \in {<<i, f>>}} = {f}
      OBVIOUS
    <3>4. QED
      BY <2>4, <3>2, <3>3
  <2>5. QED
    BY <2>3, <2>4
<1>5. ASSUME NEW x, x # i PROVE Lookup(r, x) = Lookup(docs, x)
  <2>1. {g \in ToSet(r) : g[1] = x} = {g \in ToSet(docs) : g[1] = x}
    BY <1>1, <1>5
  <2>2. QED
    BY <1>2, <1>3, <2>1
<1>6. QED
  BY <1>1, <1>4, <1>5 DEF r

\* Another collection in a store.
LEMMA GoodWith ==
  ASSUME NEW m, IsStore(m), NEW c \in Texts, NEW docs \in DocMaps, NEW W, NEW my,
         Good(c, docs, W, my), \A x \in Texts : x # c => Good(x, DocsOf(m, x), W, my)
  PROVE  GoodStore(With(m, c, docs), W, my)
<1> DEFINE r == With(m, c, docs)
<1>1. /\ DOMAIN r = DOMAIN m \cup {c} /\ DOMAIN r \subseteq Texts
      /\ \A x \in DOMAIN r : r[x] = IF x = c THEN docs ELSE m[x]
  BY DEF With, IsStore
<1>2. r \in [DOMAIN r -> DocMaps]
  BY DEF With, IsStore
<1> HIDE DEF r
<1>3. \A x : DocsOf(r, x) = IF x = c THEN docs ELSE DocsOf(m, x)
  BY <1>1 DEF DocsOf
<1>4. QED
  BY <1>1, <1>2, <1>3 DEF GoodStore, IsStore, r

-----------------------------------------------------------------------------
(* The steps of the calls, of a restart and of a recovery keep it.           *)

\* A name moves to itself, on to the stem of where it moves to, and nowhere if
\* it is its own stem.
LEMMA Moves ==
  /\ \A x \in Texts : x \in MovesTo[x]
  /\ \A x, y \in Texts : y \in MovesTo[x] => Stem[y] \in MovesTo[x]
  /\ \A x \in Texts : Stem[x] = x => MovesTo[x] = {x}
<1>1. \A x \in Texts : Stem[x] \in Texts
  BY TextsAssumption
<1>2. \A x, y \in Texts :
        y \in MovesTo[x] <=> \A S \in SUBSET Texts :
                               x \in S /\ (\A z \in S : Stem[z] \in S) => y \in S
  BY DEF MovesTo
<1>3. \A x \in Texts : MovesTo[x] \subseteq Texts
  BY DEF MovesTo
<1>4. ASSUME NEW x \in Texts, NEW y \in Texts, y \in MovesTo[x] PROVE Stem[y] \in MovesTo[x]
  BY <1>1, <1>2, <1>4
<1>5. ASSUME NEW x \in Texts, Stem[x] = x PROVE MovesTo[x] = {x}
  <2>1. {x} \in SUBSET Texts /\ x \in {x} /\ \A z \in {x} : Stem[z] \in {x}
    BY <1>5
  <2>2. \A y \in Texts : y \in MovesTo[x] => y \in {x}
    BY <1>2, <2>1
  <2>3. x \in MovesTo[x]
    BY <1>2
  <2>4. QED
    BY <1>3, <2>2, <2>3
<1>6. QED
  BY <1>2, <1>4, <1>5

\* Names that a good file or a good collection was not put under.
LEMMA Origins ==
  ASSUME NEW c \in Texts, NEW w, NEW e, Origin(w, c, e), w \in Calls
  PROVE  /\ \A x \in Texts : Stem[c] = x => w[1] \in LandsOn[x]
         /\ w[1] \in Texts /\ w[2] \in Texts /\ Cut[w[2]] \in Texts
         /\ Cut[e[1]] = Cut[w[2]]
         /\ \A f \in w[3] : f \in FieldMaps
<1>1. w[1] \in Names /\ w[2] \in Ids /\ w[3] \in Puts
  BY DEF Calls
<1>2. /\ w[1] \in Texts /\ w[2] \in Texts /\ Cut[w[2]] \in Texts
      /\ Cut[Cut[w[2]]] = Cut[w[2]] /\ Cut[w[1]] \in Texts
  BY <1>1, TextsAssumption
<1>3. \A f \in w[3] : f \in FieldMaps
  BY <1>1, InputsAssumption DEF Puts
<1>4. ASSUME NEW x \in Texts, Stem[c] = x PROVE w[1] \in LandsOn[x]
  <2>1. c \in MovesTo[w[1]] \/ c \in MovesTo[Cut[w[1]]]
    BY DEF Origin, LandsOn
  <2>2. x \in MovesTo[w[1]] \/ x \in MovesTo[Cut[w[1]]]
    BY <1>2, <1>4, <2>1, Moves
  <2>3. QED
    BY <1>2, <2>2 DEF LandsOn
<1>5. QED
  BY <1>2, <1>3, <1>4 DEF Origin

\* A put or a delete in a collection, when what it leaves of the others is good.
LEMMA GoodChange ==
  ASSUME NEW x \in Texts, NEW i \in Texts, NEW fields, NEW docs \in DocMaps, NEW W, NEW my,
         fields = {} \/ \E f \in FieldMaps : fields = {f},
         \A e \in ToSet(docs) : \E w \in W : Origin(w, x, e),
         \A f \in fields : \E w \in W : Origin(w, x, <<i, f>>),
         \A j \in Ids : x \in Names /\ Plain(x, j) /\ UndisturbedBy(W, x, j)
           => (IF j = i THEN fields ELSE Lookup(docs, j)) \in Kept(my[<<x, j>>])
  PROVE  Good(x, Changed(docs, i, fields), W, my)
<1> DEFINE r == Changed(docs, i, fields)
<1>1. /\ r \in DocMaps
      /\ ToSet(r) = {e \in ToSet(docs) : e[1] # i} \cup {<<i, f>> : f \in fields}
      /\ Lookup(r, i) = fields
      /\ \A y : y # i => Lookup(r, y) = Lookup(docs, y)
  BY ChangedDocs
<1> HIDE DEF r
<1>2. \A e \in ToSet(r) : \E w \in W : Origin(w, x, e)
  BY <1>1
<1>3. ASSUME NEW j \in Ids, x \in Names, Plain(x, j), UndisturbedBy(W, x, j)
      PROVE  Lookup(r, j) \in Kept(my[<<x, j>>])
  BY <1>1, <1>3
<1>4. QED
  BY <1>1, <1>2, <1>3 DEF Good, r

LEMMA ReadPuts ==
  ASSUME NEW v \in Puts
  PROVE  /\ v = {} \/ \E f \in FieldMaps : v = {f}
         /\ \/ {RereadFields(f) : f \in v} = {}
            \/ \E g \in FieldMaps : {RereadFields(f) : f \in v} = {g}
         /\ {RereadFields(f) : f \in {RereadFields(g) : g \in v}} = {RereadFields(f) : f \in v}
<1>1. CASE v = {}
  BY <1>1
<1>2. ASSUME NEW f \in Inputs, v = {f}
      PROVE  /\ f \in FieldMaps /\ RereadFields(f) \in FieldMaps
             /\ {RereadFields(g) : g \in v} = {RereadFields(f)}
             /\ {RereadFields(g) : g \in {RereadFields(f)}} = {RereadFields(f)}
  <2>1. f \in FieldMaps
    BY InputsAssumption
  <2>2. RereadFields(f) \in FieldMaps /\ RereadFields(RereadFields(f)) = RereadFields(f)
    BY <2>1, FieldsReread
  <2>3. QED
    BY <1>2, <2>1, <2>2
<1>3. QED
  BY <1>1, <1>2 DEF Puts

\* A call, applied to what it found.
LEMMA GoodApplied ==
  ASSUME NEW m, NEW W, NEW my, NEW X, NEW mine, GoodStore(m, W, my), W \subseteq X,
         NEW c \in Names, NEW i \in Ids, NEW fields \in Puts, <<c, i, fields>> \in X,
         fields \in mine[<<c, i>>],
         \A d \in Names \X Ids : d # <<c, i>> => my[d] \subseteq mine[d]
  PROVE  GoodStore(Applied(m, c, i, fields), X, mine)
<1> DEFINE docs == Changed(DocsOf(m, c), i, fields)
<1>1. c \in Texts /\ i \in Texts /\ IsStore(m) /\ DocsOf(m, c) \in DocMaps
  BY TextsAssumption, DocsOfStore DEF GoodStore
<1>2. fields = {} \/ \E f \in FieldMaps : fields = {f}
  BY ReadPuts
<1>3. Applied(m, c, i, fields) = With(m, c, docs)
  BY DEF Applied, Changed
<1>4. Good(c, docs, X, mine)
  <2>1. Good(c, DocsOf(m, c), W, my)
    BY <1>1 DEF GoodStore
  <2>2. \A e \in ToSet(DocsOf(m, c)) : \E w \in X : Origin(w, c, e)
    BY <2>1 DEF Good
  <2>3. \A f \in fields : Origin(<<c, i, fields>>, c, <<i, f>>)
    BY <1>1, Moves DEF Origin, LandsOn, FromFields
  <2>4. ASSUME NEW j \in Ids, Plain(c, j), UndisturbedBy(X, c, j)
        PROVE  (IF j = i THEN fields ELSE Lookup(DocsOf(m, c), j)) \in Kept(mine[<<c, j>>])
    <3>1. CASE j = i
      BY <3>1 DEF Kept
    <3>2. CASE j # i
      <4>1. UndisturbedBy(W, c, j)
        BY <2>4 DEF UndisturbedBy
      <4>2. Lookup(DocsOf(m, c), j) \in Kept(my[<<c, j>>])
        BY <2>1, <2>4, <4>1 DEF Good
      <4>3. my[<<c, j>>] \subseteq mine[<<c, j>>]
        BY <3>2
      <4>4. QED
        BY <3>2, <4>2, <4>3 DEF Kept
    <3>3. QED
      BY <3>1, <3>2
  <2>5. QED
    BY <1>1, <1>2, <2>2, <2>3, <2>4, GoodChange
<1>5. ASSUME NEW x \in Texts, x # c PROVE Good(x, DocsOf(m, x), X, mine)
  <2>1. Good(x, DocsOf(m, x), W, my)
    BY DEF GoodStore
  <2>2. \A j \in Ids : x \in Names => my[<<x, j>>] \subseteq mine[<<x, j>>]
    BY <1>5
  <2>3. QED
    BY <2>1, <2>2, Later
<1>6. docs \in DocMaps
  BY <1>1, <1>2, ChangedDocs
<1> HIDE DEF docs
<1>7. QED
  BY <1>1, <1>3, <1>4, <1>5, <1>6, GoodWith

\* A call, applied to what was loaded, from its entry in the log.
LEMMA GoodRecovered ==
  ASSUME NEW m, NEW W, NEW my, GoodStore(m, W, my), W \subseteq Calls,
         NEW c \in Names, NEW i \in Ids, NEW fields \in Puts, <<c, i, fields>> \in W,
         fields \in my[<<c, i>>], Recoverable(c, i, fields)
  PROVE  GoodStore(Recovered(m, c, i, fields), W, my)
<1> DEFINE x == Cut[c]
           k == Cut[i]
           read == {RereadFields(f) : f \in fields}
           docs == Changed(DocsOf(m, x), k, read)
<1>1. /\ c \in Texts /\ i \in Texts /\ x \in Texts /\ k \in Texts
      /\ IsStore(m) /\ DocsOf(m, x) \in DocMaps
  BY TextsAssumption, DocsOfStore DEF GoodStore
<1>2. read = {} \/ \E f \in FieldMaps : read = {f}
  BY ReadPuts
<1>3. Recovered(m, c, i, fields) = With(m, x, docs)
  BY DEF Recovered, Applied, Changed
<1>4. Good(x, docs, W, my)
  <2>1. Good(x, DocsOf(m, x), W, my)
    BY <1>1 DEF GoodStore
  <2>2. \A e \in ToSet(DocsOf(m, x)) : \E w \in W : Origin(w, x, e)
    BY <2>1 DEF Good
  <2>3. \A f \in read : Origin(<<c, i, fields>>, x, <<k, f>>)
    <3>1. \A g \in fields : FromFields(RereadFields(g), g)
      <4>1. \A g \in fields : g \in FieldMaps /\ Readable(g)
        BY InputsAssumption DEF Puts, Recoverable
      <4>2. QED
        BY <4>1, FieldsReread
    <3>2. c \in LandsOn[x]
      BY <1>1, Moves DEF LandsOn
    <3>3. QED
      BY <3>1, <3>2 DEF Origin
  <2>4. ASSUME NEW j \in Ids, x \in Names, Plain(x, j), UndisturbedBy(W, x, j)
        PROVE  (IF j = k THEN read ELSE Lookup(DocsOf(m, x), j)) \in Kept(my[<<x, j>>])
    <3>1. CASE j = k
      <4>1. c \in LandsOn[x]
        BY <1>1, Moves DEF LandsOn
      <4>2. c = x
        BY <2>4, <4>1 DEF UndisturbedBy
      <4>3. i = j
        BY <2>4, <3>1, <4>2 DEF UndisturbedBy
      <4>4. read \in Kept(my[<<c, i>>])
        BY DEF Kept
      <4>5. QED
        BY <3>1, <4>2, <4>3, <4>4
    <3>2. CASE j # k
      BY <2>1, <2>4, <3>2 DEF Good
    <3>3. QED
      BY <3>1, <3>2
  <2> HIDE DEF x, k, read
  <2>5. QED
    BY <1>1, <1>2, <2>2, <2>3, <2>4, GoodChange DEF docs
<1>5. \A y \in Texts : Good(y, DocsOf(m, y), W, my)
  BY DEF GoodStore
<1>6. docs \in DocMaps
  <2> HIDE DEF x, k, read
  <2>1. QED
    BY <1>1, <1>2, ChangedDocs DEF docs
<1> HIDE DEF docs, x
<1>7. QED
  BY <1>1, <1>3, <1>4, <1>5, <1>6, GoodWith

\* What was written has what memory and the other files had.
LEMMA GoodPersisted ==
  ASSUME NEW files, IsStore(files), NoneEmpty(files), NEW m, NEW W, NEW my,
         IsStore(m), NEW cs \in SUBSET Texts,
         \A x \in cs : Good(x, DocsOf(m, x), W, my),
         \A x \in Texts \ cs : Good(x, DocsOf(files, x), W, my)
  PROVE  GoodStore(Persisted(files, m, cs), W, my) /\ NoneEmpty(Persisted(files, m, cs))
<1> DEFINE r == Persisted(files, m, cs)
           empty == {c \in cs : DocsOf(m, c) = << >>}
<1>1. /\ DOMAIN r = (DOMAIN files \cup cs) \ empty
      /\ \A x \in DOMAIN r : r[x] = IF x \in cs THEN m[x] ELSE files[x]
      /\ r = [x \in DOMAIN r |-> r[x]]
  BY DEF Persisted
<1> HIDE DEF r
<1>2. ASSUME NEW x \in DOMAIN r
      PROVE  /\ r[x] \in DocMaps /\ r[x] # << >>
             /\ r[x] = IF x \in cs THEN DocsOf(m, x) ELSE DocsOf(files, x)
  <2>1. CASE x \in cs
    <3>1. r[x] = m[x] /\ DocsOf(m, x) # << >>
      BY <1>1, <2>1
    <3>2. x \in DOMAIN m /\ DocsOf(m, x) = m[x] /\ DocsOf(m, x) \in DocMaps
      BY <3>1, DocsOfStore
    <3>3. QED
      BY <2>1, <3>1, <3>2
  <2>2. CASE x \notin cs
    <3>1. x \in DOMAIN files /\ r[x] = files[x]
      BY <1>1, <2>2
    <3>2. DocsOf(files, x) = files[x] /\ DocsOf(files, x) \in DocMaps
      BY <3>1, DocsOfStore
    <3>3. QED
      BY <2>2, <3>1, <3>2 DEF NoneEmpty
  <2>3. QED
    BY <2>1, <2>2
<1>3. IsStore(r) /\ NoneEmpty(r)
  <2>1. DOMAIN r \subseteq Texts
    BY <1>1 DEF IsStore
  <2>2. r \in [DOMAIN r -> DocMaps]
    BY <1>1, <1>2
  <2>3. QED
    BY <1>2, <2>1, <2>2 DEF IsStore, NoneEmpty
<1>4. ASSUME NEW x \in Texts
      PROVE  DocsOf(r, x) = IF x \in cs THEN DocsOf(m, x) ELSE DocsOf(files, x)
  <2>1. CASE x \in DOMAIN r
    BY <1>2, <2>1 DEF DocsOf
  <2>2. CASE x \notin DOMAIN r
    BY <1>1, <2>2 DEF DocsOf
  <2>3. QED
    BY <2>1, <2>2
<1>5. \A x \in Texts : Good(x, DocsOf(r, x), W, my)
  BY <1>4
<1>6. QED
  BY <1>3, <1>5 DEF GoodStore, r

\* Of the files that a collection with plain names can be loaded from there is
\* only its own, and it can be decoded.
LEMMA OwnFile ==
  ASSUME NEW files, NEW W, NEW my, GoodStore(files, W, my), NoneEmpty(files), W \subseteq Calls,
         NEW c \in Names, NEW i \in Ids, Plain(c, i), UndisturbedBy(W, c, i)
  PROVE  /\ \A x \in DOMAIN files : Stem[x] = c => x = c
         /\ c \in DOMAIN files => Decodable(files[c])
         /\ Lookup(RereadDocs(DocsOf(files, c)), i)
              = {RereadFields(f) : f \in Lookup(DocsOf(files, c), i)}
<1>1. /\ c \in Texts /\ IsStore(files)
      /\ \A x \in DOMAIN files : /\ x \in Texts /\ files[x] \in DocMaps
                                 /\ files[x] # << >> /\ Good(x, files[x], W, my)
  BY TextsAssumption, DocsOfStore DEF GoodStore, NoneEmpty, IsStore
<1>2. ASSUME NEW x \in DOMAIN files, Stem[x] = c PROVE x = c
  <2>1. PICK e : e \in ToSet(files[x])
    <3>1. files[x] \in Seq(Texts \X FieldMaps) /\ files[x] # << >>
      BY <1>1 DEF DocMaps, Maps
    <3>2. 1 \in DOMAIN files[x]
      BY <3>1
    <3>3. files[x][1] \in ToSet(files[x])
      BY <3>2 DEF ToSet
    <3>4. QED
      BY <3>3
  <2>2. PICK w \in W : Origin(w, x, e)
    BY <1>1, <2>1 DEF Good
  <2>3. w[1] \in LandsOn[c] /\ w[1] \in Texts
    BY <1>1, <1>2, <2>2, Origins
  <2>4. w[1] = c
    BY <2>3 DEF UndisturbedBy
  <2>5. x \in MovesTo[c] \cup MovesTo[Cut[c]]
    BY <1>1, <2>2, <2>4 DEF Origin, LandsOn
  <2>6. QED
    BY <1>1, <2>5, Moves DEF Plain
<1> DEFINE docs == DocsOf(files, c)
<1>3. /\ docs \in DocMaps
      /\ \A e \in ToSet(docs) : \E w \in W : Origin(w, c, e)
      /\ c \in DOMAIN files => docs = files[c]
  BY <1>1, DocsOfStore DEF GoodStore, Good
<1>4. ASSUME NEW e \in ToSet(docs)
      PROVE  /\ e[1] \notin Long /\ Readable(e[2]) /\ (Cut[e[1]] = i => e[1] = i)
             /\ e[2] \in FieldMaps
  <2>1. PICK w \in W : Origin(w, c, e)
    BY <1>3
  <2>2. /\ w[1] \in Texts /\ w[2] \in Texts /\ Cut[w[2]] \in Texts /\ Cut[e[1]] = Cut[w[2]]
        /\ \A f \in w[3] : f \in FieldMaps
    BY <1>1, <2>1, Origins
  <2>3. w[1] = c
    BY <2>1 DEF Origin, UndisturbedBy
  <2>4. /\ w[2] \notin Long /\ (Cut[w[2]] = i => w[2] = i)
        /\ \A f \in w[3] : Readable(f)
    BY <2>3 DEF UndisturbedBy
  <2>5. e[1] \notin Long
    BY <2>1, <2>2, <2>4, TextsAssumption DEF Origin
  <2>6. PICK f \in w[3] : e[2] \in {f, RereadFields(f)}
    BY <2>1 DEF Origin, FromFields
  <2>7. Readable(e[2]) /\ e[2] \in FieldMaps
    BY <2>2, <2>4, <2>6, FieldsReread
  <2>8. Cut[e[1]] = i => e[1] = i
    BY <2>1, <2>2, <2>4 DEF Origin, Plain
  <2>9. QED
    BY <2>5, <2>7, <2>8
<1>5. Decodable(docs)
  <2>1. KeysOf(docs) = {e[1] : e \in ToSet(docs)}
    BY <1>3, Entries DEF DocMaps
  <2>2. KeysOf(docs) \cap Long = {}
    BY <1>4, <2>1
  <2>3. \A k \in DOMAIN docs : Readable(docs[k][2])
    BY <1>4 DEF ToSet
  <2>4. QED
    BY <2>2, <2>3 DEF Decodable
<1> DEFINE read == RereadDocs(docs)
<1>6. /\ read \in DocMaps
      /\ \A e \in ToSet(read) : \E g \in ToSet(docs) : e = <<Cut[g[1]], RereadFields(g[2])>>
      /\ KeysOf(read) = {Cut[x] : x \in KeysOf(docs)}
  BY <1>3, DocsReread
<1> HIDE DEF read, docs
<1>7. /\ Lookup(read, i) = {e[2] : e \in {g \in ToSet(read) : g[1] = i}}
      /\ Lookup(docs, i) = {e[2] : e \in {g \in ToSet(docs) : g[1] = i}}
      /\ KeysOf(read) = {e[1] : e \in ToSet(read)}
      /\ KeysOf(docs) = {e[1] : e \in ToSet(docs)}
      /\ \A e, g \in ToSet(docs) : e[1] = g[1] => e = g
  BY <1>3, <1>6, Entries DEF DocMaps
<1>8. ASSUME NEW v \in Lookup(read, i) PROVE v \in {RereadFields(f) : f \in Lookup(docs, i)}
  <2>1. PICK e \in ToSet(read) : e[1] = i /\ e[2] = v
    BY <1>7
  <2>2. PICK g \in ToSet(docs) : e = <<Cut[g[1]], RereadFields(g[2])>>
    BY <1>6
  <2>3. g[1] = i /\ v = RereadFields(g[2])
    BY <1>4, <2>1, <2>2
  <2>4. QED
    BY <1>7, <2>3
<1>9. ASSUME NEW f \in Lookup(docs, i) PROVE RereadFields(f) \in Lookup(read, i)
  <2>1. PICK g \in ToSet(docs) : g[1] = i /\ g[2] = f
    BY <1>7
  <2>2. i \in KeysOf(docs) /\ Cut[i] = i
    BY <1>7, <2>1 DEF Plain
  <2>3. PICK e \in ToSet(read) : e[1] = i
    BY <1>6, <1>7, <2>2
  <2>4. PICK h \in ToSet(docs) : e = <<Cut[h[1]], RereadFields(h[2])>>
    BY <1>6
  <2>5. h = g
    BY <1>4, <1>7, <2>1, <2>3, <2>4
  <2>6. e[2] = RereadFields(f)
    BY <2>1, <2>4, <2>5
  <2>7. QED
    BY <1>7, <2>3, <2>6
<1>10. QED
  BY <1>2, <1>3, <1>5, <1>8, <1>9 DEF read, docs

\* What is read again of what a document may be is what it may be.
LEMMA KeptRead ==
  ASSUME NEW V \in SUBSET Puts, NEW v \in Kept(V)
  PROVE  {RereadFields(f) : f \in v} \in Kept(V)
<1>1. CASE v \in V
  BY <1>1 DEF Kept
<1>2. ASSUME NEW u \in V, v = {RereadFields(f) : f \in u}
      PROVE  {RereadFields(f) : f \in v} \in Kept(V)
  <2>1. {RereadFields(f) : f \in v} = v
    BY <1>2, ReadPuts
  <2>2. QED
    BY <2>1
<1>3. QED
  BY <1>1, <1>2 DEF Kept

\* What was loaded from good files, into what memory had.
LEMMA GoodLoaded ==
  ASSUME NEW files, NEW W, NEW my, GoodStore(files, W, my), NoneEmpty(files), W \subseteq Calls,
         my \in [Names \X Ids -> SUBSET Puts],
         NEW m, m = << >> \/ GoodStore(m, W, my), NEW r \in Loaded(files, m)
  PROVE  GoodStore(r, W, my)
<1> DEFINE readable == {f \in DOMAIN files : Decodable(files[f])}
           stems    == {Stem[f] : f \in readable}
<1>1. PICK last \in [stems -> readable] :
        /\ \A c \in stems : Stem[last[c]] = c
        /\ r = [c \in stems \cup DOMAIN m |->
                  IF c \in stems THEN RereadDocs(files[last[c]]) ELSE m[c]]
  BY DEF Loaded
<1>2. IsStore(m) /\ IsStore(files)
  BY NoEntries DEF GoodStore
<1>3. \A x \in DOMAIN files : /\ x \in Texts /\ Stem[x] \in Texts
                              /\ files[x] \in DocMaps /\ files[x] = DocsOf(files, x)
                              /\ Good(x, files[x], W, my)
  BY <1>2, DocsOfStore, TextsAssumption DEF IsStore, GoodStore
<1>4. /\ DOMAIN r = stems \cup DOMAIN m
      /\ \A c \in stems : /\ last[c] \in DOMAIN files /\ Stem[last[c]] = c
                          /\ Decodable(files[last[c]])
                          /\ r[c] = RereadDocs(files[last[c]])
      /\ \A c \in DOMAIN m : c \notin stems => r[c] = m[c]
      /\ r = [c \in DOMAIN r |-> r[c]]
  BY <1>1
<1>5. stems \subseteq Texts
  BY <1>3
<1>6. \A x \in DOMAIN files : Decodable(files[x]) => Stem[x] \in stems
  OBVIOUS
<1> HIDE DEF stems
<1>7. IsStore(r)
  <2>1. \A c \in DOMAIN r : r[c] \in DocMaps
    <3>1. \A c \in stems : r[c] \in DocMaps
      BY <1>3, <1>4, DocsReread
    <3>2. \A c \in DOMAIN m : m[c] \in DocMaps
      BY <1>2 DEF IsStore
    <3>3. QED
      BY <1>4, <3>1, <3>2
  <2>2. QED
    BY <1>2, <1>4, <1>5, <2>1 DEF IsStore
<1>8. ASSUME NEW c \in Texts PROVE Good(c, DocsOf(r, c), W, my)
  <2>1. DocsOf(r, c) \in DocMaps
    BY <1>7, DocsOfStore
  <2>2. CASE c \in stems
    <3> DEFINE x == last[c]
    <3>1. /\ x \in DOMAIN files /\ Stem[x] = c /\ files[x] \in DocMaps
          /\ DocsOf(r, c) = RereadDocs(files[x]) /\ Good(x, files[x], W, my)
          /\ x \in Texts /\ files[x] = DocsOf(files, x) /\ Decodable(files[x])
      BY <1>3, <1>4, <2>2 DEF DocsOf
    <3> HIDE DEF x
    <3>2. ASSUME NEW e \in ToSet(DocsOf(r, c)) PROVE \E w \in W : Origin(w, c, e)
      <4>1. PICK g \in ToSet(files[x]) : e = <<Cut[g[1]], RereadFields(g[2])>>
        BY <3>1, DocsReread
      <4>2. PICK w \in W : Origin(w, x, g)
        BY <3>1 DEF Good
      <4>3. /\ w[1] \in LandsOn[c] /\ w[1] \in Texts
            /\ Cut[g[1]] = Cut[w[2]] /\ \A f \in w[3] : f \in FieldMaps
        BY <3>1, <4>2, Origins
      <4>4. \E f \in w[3] : FromFields(e[2], f)
        <5>1. PICK f \in w[3] : FromFields(g[2], f)
          BY <4>2 DEF Origin
        <5>2. e[2] = RereadFields(g[2]) /\ Readable(g[2]) /\ f \in FieldMaps
          BY <3>1, <4>1, <4>3 DEF Decodable, ToSet
        <5>3. CASE g[2] = f
          BY <5>2, <5>3, FieldsReread
        <5>4. CASE g[2] = RereadFields(f)
          <6>1. e[2] = g[2]
            BY <5>2, <5>4, FieldsReread
          <6>2. QED
            BY <5>1, <6>1
        <5>5. QED
          BY <5>1, <5>3, <5>4 DEF FromFields
      <4>5. QED
        BY <4>1, <4>3, <4>4 DEF Origin
    <3>3. ASSUME NEW i \in Ids, c \in Names, Plain(c, i), UndisturbedBy(W, c, i)
          PROVE  Lookup(DocsOf(r, c), i) \in Kept(my[<<c, i>>])
      <4>1. x = c /\ Lookup(RereadDocs(DocsOf(files, c)), i)
                       = {RereadFields(f) : f \in Lookup(DocsOf(files, c), i)}
        BY <3>1, <3>3, OwnFile
      <4>2. Lookup(DocsOf(files, c), i) \in Kept(my[<<c, i>>])
        BY <3>1, <3>3, <4>1 DEF Good
      <4>3. my[<<c, i>>] \in SUBSET Puts
        BY <3>3
      <4>4. QED
        BY <3>1, <4>1, <4>2, <4>3, KeptRead
    <3>4. QED
      BY <2>1, <3>2, <3>3 DEF Good
  <2>3. CASE c \notin stems
    <3>1. DocsOf(r, c) = DocsOf(m, c)
      BY <1>4, <2>3 DEF DocsOf
    <3>2. CASE GoodStore(m, W, my)
      BY <3>1, <3>2 DEF GoodStore
    <3>3. CASE m = << >>
      <4>1. DocsOf(r, c) = << >> /\ ToSet(<< >>) = {} /\ Lookup(<< >>, c) = {}
        BY <3>1, <3>3, NoEntries DEF DocsOf
      <4>2. ASSUME NEW i \in Ids, c \in Names, Plain(c, i), UndisturbedBy(W, c, i)
            PROVE  {} \in Kept(my[<<c, i>>])
        <5>1. c \in DOMAIN files => Decodable(files[c])
          BY <4>2, OwnFile
        <5>2. c \notin DOMAIN files
          BY <1>6, <2>3, <4>2, <5>1 DEF Plain
        <5>3. DocsOf(files, c) = << >> /\ Good(c, DocsOf(files, c), W, my)
          BY <5>2 DEF DocsOf, GoodStore
        <5>4. QED
          BY <4>2, <5>3, NoEntries DEF Good
      <4>3. QED
        BY <2>1, <4>1, <4>2, NoEntries DEF Good
    <3>4. QED
      BY <3>2, <3>3
  <2>4. QED
    BY <2>2, <2>3
<1>9. QED
  BY <1>7, <1>8 DEF GoodStore

-----------------------------------------------------------------------------
(* The theorems about the stores.                                            *)

LEMMA CallKeeps ==
  ASSUME IInv, NEW c \in Names, NEW i \in Ids, NEW fields \in Puts,
         Call(c, i, fields) \/ Crash(c, i, fields)
  PROVE  IInv'
<1> DEFINE w == <<c, i, fields>>
           X == written \cup {w}
           after == Applied(memory, c, i, fields)
<1>1. /\ GoodStore(memory, written, may) /\ GoodStore(disk, written, may)
      /\ NoneEmpty(disk) /\ IsStore(memory) /\ IsStore(disk)
      /\ written \subseteq Calls /\ may \in [Names \X Ids -> SUBSET Puts]
      /\ c \in Texts /\ i \in Texts /\ w \in X /\ written \subseteq X
  BY TextsAssumption DEF IInv, GoodStore
<1>2. written' = X /\ X \subseteq Calls
  BY <1>1 DEF Call, Crash, Recorded, Calls
<1>3. /\ may' \in [Names \X Ids -> SUBSET Puts]
      /\ fields \in may'[<<c, i>>]
      /\ \A d \in Names \X Ids : d # <<c, i>> => may'[d] = may[d]
  <2>1. <<c, i>> \in Names \X Ids
    OBVIOUS
  <2>2. CASE Call(c, i, fields)
    <3>1. may' = [may EXCEPT ![<<c, i>>] = {fields}]
      BY <2>2 DEF Call
    <3>2. QED
      BY <1>1, <2>1, <3>1
  <2>3. CASE Crash(c, i, fields)
    <3>1. may' = [may EXCEPT ![<<c, i>>] = @ \cup {fields}]
      BY <2>3 DEF Crash
    <3>2. QED
      BY <1>1, <2>1, <3>1
  <2>4. QED
    BY <2>2, <2>3
<1> HIDE DEF X
<1>4. GoodStore(after, X, may')
  BY <1>1, <1>3, GoodApplied
<1>5. IsStore(after)
  BY <1>4 DEF GoodStore
<1> HIDE DEF after
<1>6. \A x \in Texts \ {c} : Good(x, DocsOf(disk, x), X, may')
  <2>1. ASSUME NEW x \in Texts \ {c} PROVE Good(x, DocsOf(disk, x), X, may')
    <3>1. Good(x, DocsOf(disk, x), written, may)
      BY <1>1 DEF GoodStore
    <3>2. \A j \in Ids : x \in Names => may[<<x, j>>] \subseteq may'[<<x, j>>]
      BY <1>3
    <3>3. QED
      BY <1>1, <3>1, <3>2, Later
  <2>2. QED
    BY <2>1
<1>7. /\ GoodStore(Persisted(disk, after, {c}), X, may')
      /\ NoneEmpty(Persisted(disk, after, {c}))
  <2>1. {c} \in SUBSET Texts /\ \A x \in {c} : Good(x, DocsOf(after, x), X, may')
    BY <1>1, <1>4 DEF GoodStore
  <2>2. QED
    BY <1>1, <1>5, <1>6, <2>1, GoodPersisted
<1>8. CASE Call(c, i, fields)
  <2>1. memory' = after /\ disk' = Persisted(disk, after, {c})
    BY <1>8 DEF Call, after
  <2>2. QED
    BY <1>2, <1>3, <1>4, <1>7, <2>1 DEF IInv
<1>9. CASE Crash(c, i, fields)
  <2>0. \A d \in Names \X Ids : may[d] \subseteq may'[d]
    <3>1. may' = [may EXCEPT ![<<c, i>>] = @ \cup {fields}]
      BY <1>9 DEF Crash
    <3>2. QED
      BY <1>1, <3>1
  <2>1. GoodStore(disk, X, may')
    <3>1. \A x \in Texts : Good(x, DocsOf(disk, x), X, may')
      <4>1. ASSUME NEW x \in Texts PROVE Good(x, DocsOf(disk, x), X, may')
        <5>1. Good(x, DocsOf(disk, x), written, may)
          BY <1>1 DEF GoodStore
        <5>2. \A j \in Ids : x \in Names => may[<<x, j>>] \subseteq may'[<<x, j>>]
          BY <2>0
        <5>3. QED
          BY <1>1, <5>1, <5>2, Later
      <4>2. QED
        BY <4>1
    <3>2. QED
      BY <1>1, <3>1 DEF GoodStore
  <2>2. PICK files \in {disk, Persisted(disk, after, {c})} :
          \E m \in Loaded(files, << >>) :
             \/ /\ Recoverable(c, i, fields)
                /\ memory' = Recovered(m, c, i, fields)
                /\ disk' = Persisted(files, memory', DOMAIN memory')
             \/ memory' = m /\ disk' = files
    BY <1>9 DEF Crash, after
  <2>3. GoodStore(files, X, may') /\ NoneEmpty(files)
    BY <1>1, <1>7, <2>1
  <2>4. PICK m \in Loaded(files, << >>) :
             \/ /\ Recoverable(c, i, fields)
                /\ memory' = Recovered(m, c, i, fields)
                /\ disk' = Persisted(files, memory', DOMAIN memory')
             \/ memory' = m /\ disk' = files
    BY <2>2
  <2>5. GoodStore(m, X, may')
    BY <1>2, <1>3, <2>3, GoodLoaded
  <2>6. CASE memory' = m /\ disk' = files
    BY <1>2, <1>3, <2>3, <2>5, <2>6 DEF IInv
  <2>7. CASE /\ Recoverable(c, i, fields)
             /\ memory' = Recovered(m, c, i, fields)
             /\ disk' = Persisted(files, memory', DOMAIN memory')
    <3>1. GoodStore(memory', X, may')
      BY <1>1, <1>2, <1>3, <2>5, <2>7, GoodRecovered
    <3>2. GoodStore(disk', X, may') /\ NoneEmpty(disk')
      <4>1. /\ IsStore(memory') /\ DOMAIN memory' \in SUBSET Texts
            /\ \A x \in DOMAIN memory' : Good(x, DocsOf(memory', x), X, may')
        BY <3>1 DEF GoodStore, IsStore
      <4>2. IsStore(files) /\ \A x \in Texts \ DOMAIN memory' : Good(x, DocsOf(files, x), X, may')
        BY <2>3 DEF GoodStore
      <4>3. QED
        BY <2>3, <2>7, <4>1, <4>2, GoodPersisted
    <3>3. QED
      BY <1>2, <1>3, <3>1, <3>2 DEF IInv
  <2>8. QED
    BY <2>4, <2>6, <2>7
<1>10. QED
  BY <1>8, <1>9

LEMMA StartKeeps ==
  ASSUME IInv, Restart \/ Reopen
  PROVE  IInv'
<1>1. /\ GoodStore(memory, written, may) /\ GoodStore(disk, written, may)
      /\ NoneEmpty(disk) /\ IsStore(memory) /\ IsStore(disk)
      /\ written \subseteq Calls /\ may \in [Names \X Ids -> SUBSET Puts]
  BY DEF IInv, GoodStore
<1>2. CASE Restart
  <2>1. memory' \in Loaded(disk, << >>) /\ disk' = disk /\ may' = may /\ written' = written
    BY <1>2 DEF Restart
  <2>2. GoodStore(memory', written, may)
    BY <1>1, <2>1, GoodLoaded
  <2>3. QED
    BY <1>1, <2>1, <2>2 DEF IInv
<1>3. CASE Reopen
  <2> DEFINE files == Persisted(disk, memory, DOMAIN memory)
  <2>1. disk' = files /\ memory' \in Loaded(files, memory) /\ may' = may /\ written' = written
    BY <1>3 DEF Reopen
  <2>2. GoodStore(files, written, may) /\ NoneEmpty(files)
    <3>1. /\ DOMAIN memory \in SUBSET Texts
          /\ \A x \in DOMAIN memory : Good(x, DocsOf(memory, x), written, may)
          /\ \A x \in Texts \ DOMAIN memory : Good(x, DocsOf(disk, x), written, may)
      BY <1>1 DEF GoodStore, IsStore
    <3>2. QED
      BY <1>1, <3>1, GoodPersisted
  <2> HIDE DEF files
  <2>3. GoodStore(memory', written, may)
    BY <1>1, <2>1, <2>2, GoodLoaded
  <2>4. QED
    BY <1>1, <2>1, <2>2, <2>3 DEF IInv
<1>4. QED
  BY <1>2, <1>3

LEMMA InitIInv == Init => IInv
<1> SUFFICES ASSUME Init PROVE IInv
  OBVIOUS
<1>1. /\ memory = << >> /\ disk = << >> /\ written = {}
      /\ may = [d \in Names \X Ids |-> {{}}]
  BY DEF Init
<1>2. IsStore(<< >>) /\ \A c : DocsOf(<< >>, c) = << >>
  BY NoEntries DEF DocsOf
<1>3. ASSUME NEW c \in Texts PROVE Good(c, << >>, {}, may)
  <2>1. << >> \in DocMaps /\ ToSet(<< >>) = {} /\ \A i : Lookup(<< >>, i) = {}
    BY NoEntries DEF DocMaps
  <2>2. \A i \in Ids : c \in Names => {} \in Kept(may[<<c, i>>])
    BY <1>1 DEF Kept
  <2>3. QED
    BY <2>1, <2>2 DEF Good
<1>4. GoodStore(<< >>, {}, may)
  BY <1>2, <1>3 DEF GoodStore
<1>5. NoneEmpty(<< >>)
  BY NoEntries DEF NoneEmpty
<1>6. may \in [Names \X Ids -> SUBSET Puts]
  BY <1>1 DEF Puts
<1>7. QED
  BY <1>1, <1>4, <1>5, <1>6 DEF IInv

LEMMA NextIInv == IInv /\ [Next]_vars => IInv'
<1> SUFFICES ASSUME IInv, [Next]_vars PROVE IInv'
  OBVIOUS
<1>1. ASSUME NEW c \in Names, NEW i \in Ids, Changes(c, i) PROVE IInv'
  <2>1. CASE \E f \in Inputs : Call(c, i, {f}) \/ Crash(c, i, {f})
    <3>1. PICK f \in Inputs : Call(c, i, {f}) \/ Crash(c, i, {f})
      BY <2>1
    <3>2. {f} \in Puts
      BY DEF Puts
    <3>3. QED
      BY <3>1, <3>2, CallKeeps
  <2>2. CASE Call(c, i, {}) \/ Crash(c, i, {})
    <3>1. {} \in Puts
      BY DEF Puts
    <3>2. QED
      BY <2>2, <3>1, CallKeeps
  <2>3. QED
    BY <1>1, <2>1, <2>2 DEF Changes
<1>2. CASE Restart \/ Reopen
  BY <1>2, StartKeeps
<1>3. CASE UNCHANGED vars
  BY <1>3 DEF vars, IInv
<1>4. QED
  BY <1>1, <1>2, <1>3 DEF Next

\* What the invariant says of memory and of the files is what the properties
\* say.
LEMMA IInvImplies == IInv => TypeOK /\ OfOneCall /\ PlainSurvive
<1> SUFFICES ASSUME IInv PROVE TypeOK /\ OfOneCall /\ PlainSurvive
  OBVIOUS
<1>1. /\ GoodStore(memory, written, may) /\ GoodStore(disk, written, may)
      /\ NoneEmpty(disk) /\ IsStore(memory) /\ IsStore(disk)
      /\ may \in [Names \X Ids -> SUBSET Puts]
  BY DEF IInv, GoodStore
<1>2. TypeOK
  BY <1>1 DEF TypeOK, IsStore, NoneEmpty, Puts
<1>3. OfOneCall
  <2>1. ASSUME NEW c \in DOMAIN memory, NEW k \in DOMAIN memory[c]
        PROVE  \E w \in written : Origin(w, c, memory[c][k])
    <3>1. c \in Texts /\ DocsOf(memory, c) = memory[c]
      BY <1>1, DocsOfStore DEF IsStore
    <3>2. memory[c][k] \in ToSet(memory[c])
      BY DEF ToSet
    <3>3. QED
      BY <1>1, <3>1, <3>2 DEF GoodStore, Good
  <2>2. QED
    BY <2>1 DEF OfOneCall, Origin
<1>4. PlainSurvive
  <2>1. ASSUME NEW c \in Names, NEW i \in Ids, Plain(c, i), Undisturbed(c, i)
        PROVE  Lookup(DocsOf(memory, c), i) \in Kept(may[<<c, i>>])
    <3>1. UndisturbedBy(written, c, i) /\ c \in Texts
      BY <2>1, TextsAssumption DEF Undisturbed, UndisturbedBy
    <3>2. QED
      BY <1>1, <2>1, <3>1 DEF GoodStore, Good
  <2>2. QED
    BY <2>1 DEF PlainSurvive, Kept
<1>5. QED
  BY <1>2, <1>3, <1>4

\* Every reachable store, file and history is one of the types named for it.
THEOREM DocumentsTypes == Spec => []TypeOK
<1>1. QED
  BY InitIInv, NextIInv, IInvImplies, PTL DEF Spec

\* A document with plain names survives restarts, reopenings and recoveries,
\* whatever the constants say of the other names.
THEOREM PlainDocumentsSurvive == Spec => []PlainSurvive
<1>1. QED
  BY InitIInv, NextIInv, IInvImplies, PTL DEF Spec

\* Every document in memory has the fields of one put, under names that became
\* its own, or what those fields are when they are read back: no file, log
\* entry or recovery puts a document together out of several.  Names that were
\* read in a long one have null.
THEOREM DocumentsHaveOrigins == Spec => []OfOneCall
<1>1. QED
  BY InitIInv, NextIInv, IInvImplies, PTL DEF Spec

-----------------------------------------------------------------------------
(* Filters.                                                                  *)

Sub(f) == IF f \in JoinedSet THEN f.conditions ELSE {}

LEMMA SubFilters ==
  /\ \A f \in Filters : Sub(f) \subseteq Filters
  /\ \A f \in Filters : f.type \in {"and", "or"} => Sub(f) = f.conditions
  /\ \A f \in Filters : f \in JoinedSet <=> f.type \in {"and", "or"}
<1>1. ASSUME NEW f \in JoinedSet PROVE f.conditions \subseteq Filters
  <2>1. f \in Filters /\ f.type \in {"and", "or"}
    BY DEF JoinedSet
  <2>2. f \notin [type : Orders, field : Texts, value : Values]
    BY <2>1 DEF Orders
  <2>3. f \notin [type : {"range"}, field : Texts, value : Values, value2 : Values]
    BY <2>1
  <2>4. f # All
    BY <2>1 DEF All
  <2>5. f \in [type : {"and", "or"}, conditions : SUBSET Filters]
    BY <2>1, <2>2, <2>3, <2>4, FiltersAssumption
  <2>6. QED
    BY <2>5
<1>2. QED
  BY <1>1 DEF Sub, JoinedSet

\* A filter of a set that has no condition in it.
LEMMA LeastFilter ==
  ASSUME NEW S \in SUBSET Filters, S # {}
  PROVE  \E f \in S : Sub(f) \cap S = {}
<1>1. CASE S \subseteq JoinedSet
  <2>1. PICK f \in S : f.conditions \cap S = {}
    BY <1>1, FiltersAssumption
  <2>2. QED
    BY <1>1, <2>1 DEF Sub
<1>2. CASE ~ (S \subseteq JoinedSet)
  <2>1. PICK f \in S : f \notin JoinedSet
    BY <1>2
  <2>2. Sub(f) \cap S = {}
    BY <2>1 DEF Sub
  <2>3. QED
    BY <2>2
<1>3. QED
  BY <1>1, <1>2

\* T is what Yes accepts, among the filters of C.
Solves(Yes, C, T) ==
  /\ C \subseteq Filters /\ T \subseteq C
  /\ \A f \in C : Sub(f) \subseteq C
  /\ \A f \in C : f \in T <=> <<f, Sub(f) \cap T>> \in Yes

LEMMA SolutionsAgree ==
  ASSUME NEW Yes, NEW C, NEW T, NEW D, NEW U, Solves(Yes, C, T), Solves(Yes, D, U)
  PROVE  \A f \in C \cap D : f \in T <=> f \in U
<1> DEFINE Bad == {f \in C \cap D : ~ (f \in T <=> f \in U)}
<1> SUFFICES ASSUME Bad # {} PROVE FALSE
  OBVIOUS
<1>1. PICK f \in Bad : Sub(f) \cap Bad = {}
  <2>1. Bad \in SUBSET Filters
    BY DEF Solves
  <2> HIDE DEF Bad
  <2>2. QED
    BY <2>1, LeastFilter
<1>2. Sub(f) \subseteq C /\ Sub(f) \subseteq D
  BY DEF Solves
<1>3. \A g \in Sub(f) : g \in T <=> g \in U
  BY <1>1, <1>2
<1>4. Sub(f) \cap T = Sub(f) \cap U
  BY <1>3
<1>5. (f \in T <=> <<f, Sub(f) \cap T>> \in Yes) /\ (f \in U <=> <<f, Sub(f) \cap U>> \in Yes)
  BY DEF Solves
<1>6. QED
  BY <1>4, <1>5

\* What is decided for a filter from its conditions is decided for all filters:
\* the recursive definitions of this module have a value.
LEMMA Solution ==
  ASSUME NEW Yes
  PROVE  \E T \in SUBSET Filters : \A f \in Filters : f \in T <=> <<f, Sub(f) \cap T>> \in Yes
<1> DEFINE Pairs == {p \in (SUBSET Filters) \X (SUBSET Filters) : Solves(Yes, p[1], p[2])}
           C == UNION {p[1] : p \in Pairs}
           T == UNION {p[2] : p \in Pairs}
<1>1. ASSUME NEW p \in Pairs, NEW f \in p[1] PROVE f \in T <=> f \in p[2]
  <2>1. ASSUME f \in T PROVE f \in p[2]
    <3>1. PICK q \in Pairs : f \in q[2]
      BY <2>1
    <3>2. f \in q[1]
      BY <3>1 DEF Solves
    <3>3. Solves(Yes, p[1], p[2]) /\ Solves(Yes, q[1], q[2])
      OBVIOUS
    <3>4. QED
      BY <3>1, <3>2, <3>3, SolutionsAgree
  <2>2. QED
    BY <2>1
<1>2. Solves(Yes, C, T)
  <2>1. C \subseteq Filters /\ T \subseteq C
    BY DEF Solves
  <2>2. ASSUME NEW f \in C PROVE Sub(f) \subseteq C /\ (f \in T <=> <<f, Sub(f) \cap T>> \in Yes)
    <3>1. PICK p \in Pairs : f \in p[1]
      OBVIOUS
    <3>2. /\ Sub(f) \subseteq p[1] /\ (f \in p[2] <=> <<f, Sub(f) \cap p[2]>> \in Yes)
      BY <3>1 DEF Solves
    <3>3. Sub(f) \cap T = Sub(f) \cap p[2]
      <4>1. \A g \in Sub(f) : g \in T <=> g \in p[2]
        BY <1>1, <3>2
      <4>2. QED
        BY <4>1
    <3>4. f \in T <=> f \in p[2]
      BY <1>1, <3>1
    <3>5. Sub(f) \subseteq C
      BY <3>2
    <3>6. QED
      BY <3>2, <3>3, <3>4, <3>5
  <2> HIDE DEF C, T
  <2>3. QED
    BY <2>1, <2>2 DEF Solves
<1>3. C = Filters
  <2> SUFFICES ASSUME Filters \ C # {} PROVE FALSE
    BY <1>2 DEF Solves
  <2>1. PICK f \in Filters \ C : Sub(f) \cap (Filters \ C) = {}
    <3> HIDE DEF C
    <3>1. Filters \ C \in SUBSET Filters
      OBVIOUS
    <3>2. QED
      BY <3>1, LeastFilter
  <2>2. Sub(f) \subseteq C
    BY <2>1, SubFilters
  <2> DEFINE D == C \cup {f}
             U == T \cup {g \in {f} : <<f, Sub(f) \cap T>> \in Yes}
  <2>3. Solves(Yes, D, U)
    <3> HIDE DEF C, T
    <3>1. D \subseteq Filters /\ U \subseteq D /\ f \notin T /\ f \notin C
      BY <1>2, <2>1 DEF Solves
    <3>2. ASSUME NEW g \in D PROVE Sub(g) \subseteq C
      BY <1>2, <2>2 DEF Solves
    <3>3. ASSUME NEW g \in D PROVE Sub(g) \cap U = Sub(g) \cap T
      BY <3>1, <3>2
    <3>4. ASSUME NEW g \in D PROVE g \in U <=> <<g, Sub(g) \cap U>> \in Yes
      <4>1. CASE g = f
        BY <3>1, <3>3, <4>1
      <4>2. CASE g # f
        <5>1. g \in C /\ (g \in U <=> g \in T)
          BY <4>2
        <5>2. g \in T <=> <<g, Sub(g) \cap T>> \in Yes
          BY <1>2, <5>1 DEF Solves
        <5>3. QED
          BY <3>3, <5>1, <5>2
      <4>3. QED
        BY <4>1, <4>2
    <3>5. \A g \in D : Sub(g) \subseteq D
      BY <3>2
    <3> HIDE DEF D, U
    <3>6. QED
      BY <3>1, <3>4, <3>5 DEF Solves
  <2>4. D \in SUBSET Filters /\ U \in SUBSET Filters
    <3> HIDE DEF D, U
    <3>1. QED
      BY <2>3 DEF Solves
  <2>5. <<D, U>> \in Pairs
    <3> HIDE DEF D, U
    <3>1. QED
      BY <2>3, <2>4
  <2>6. D \subseteq C
    <3> HIDE DEF D, U, Pairs
    <3>1. QED
      BY <2>5
  <2>7. QED
    BY <2>1, <2>6
<1> HIDE DEF C, T
<1>4. T \in SUBSET Filters
  BY <1>2 DEF Solves
<1>5. QED
  BY <1>2, <1>3, <1>4 DEF Solves

\* The recursive definitions of a query have the values they are written for.
LEMMA MatchesUnfolds ==
  ASSUME NEW fields
  PROVE  \A f \in Filters :
           MatchesFilter(fields, f)
             <=> /\ f.type = "and" => \A g \in f.conditions : MatchesFilter(fields, g)
                 /\ f.type = "or" => \E g \in f.conditions : MatchesFilter(fields, g)
                 /\ MatchesSimple(fields, f)
<1> DEFINE Body(m, f) ==
             /\ f.type = "and" => \A g \in f.conditions : m[g]
             /\ f.type = "or" => \E g \in f.conditions : m[g]
             /\ MatchesSimple(fields, f)
           Is(m) == m = [f \in Filters |-> Body(m, f)]
           all == CHOOSE m : Is(m)
           Yes == {p \in Filters \X SUBSET Filters :
                     /\ p[1].type = "and" => p[1].conditions \subseteq p[2]
                     /\ p[1].type = "or" => p[2] # {}
                     /\ MatchesSimple(fields, p[1])}
<1>1. PICK T \in SUBSET Filters : \A f \in Filters : f \in T <=> <<f, Sub(f) \cap T>> \in Yes
  <2> HIDE DEF Yes
  <2>1. QED
    BY Solution
<1> DEFINE m == [f \in Filters |-> f \in T]
<1>2. ASSUME NEW f \in Filters PROVE Body(m, f) = (f \in T)
  <2>1. f \in T <=> /\ f.type = "and" => f.conditions \subseteq Sub(f) \cap T
                    /\ f.type = "or" => Sub(f) \cap T # {}
                    /\ MatchesSimple(fields, f)
    <3>1. Sub(f) \cap T \in SUBSET Filters
      BY SubFilters
    <3>2. QED
      BY <1>1, <3>1
  <2>2. \A g \in Filters : m[g] <=> g \in T
    OBVIOUS
  <2> HIDE DEF m
  <2>3. f.type \in {"and", "or"} => f.conditions = Sub(f) /\ Sub(f) \subseteq Filters
    BY SubFilters
  <2>4. Body(m, f) <=> f \in T
    BY <2>1, <2>2, <2>3
  <2>5. Body(m, f) \in BOOLEAN
    OBVIOUS
  <2> HIDE DEF Body
  <2>6. QED
    BY <2>4, <2>5
<1>3. Is(m)
  BY <1>2
<1> HIDE DEF m
<1>4. Is(all)
  BY <1>3, Zenon
<1>5. \A f : MatchesFilter(fields, f) = all[f]
  BY Zenon DEF MatchesFilter
<1> HIDE DEF all
<1>6. \A f \in Filters : all[f] = Body(all, f)
  BY <1>4
<1>7. QED
  BY <1>5, <1>6, Zenon

LEMMA MeansUnfolds ==
  ASSUME NEW fields
  PROVE  \A f \in Filters :
           Means(fields, f)
             <=> /\ f.type = "and" => {g \in f.conditions : ~ Means(fields, g)} = {}
                 /\ f.type = "or" => {g \in f.conditions : Means(fields, g)} # {}
                 /\ MeansSimple(fields, f)
<1> DEFINE Body(m, f) ==
             /\ f.type = "and" => {g \in f.conditions : ~ m[g]} = {}
             /\ f.type = "or" => {g \in f.conditions : m[g]} # {}
             /\ MeansSimple(fields, f)
           Is(m) == m = [f \in Filters |-> Body(m, f)]
           all == CHOOSE m : Is(m)
           Yes == {p \in Filters \X SUBSET Filters :
                     /\ p[1].type = "and" => p[1].conditions \subseteq p[2]
                     /\ p[1].type = "or" => p[2] # {}
                     /\ MeansSimple(fields, p[1])}
<1>1. PICK T \in SUBSET Filters : \A f \in Filters : f \in T <=> <<f, Sub(f) \cap T>> \in Yes
  <2> HIDE DEF Yes
  <2>1. QED
    BY Solution
<1> DEFINE m == [f \in Filters |-> f \in T]
<1>2. ASSUME NEW f \in Filters PROVE Body(m, f) = (f \in T)
  <2>1. f \in T <=> /\ f.type = "and" => f.conditions \subseteq Sub(f) \cap T
                    /\ f.type = "or" => Sub(f) \cap T # {}
                    /\ MeansSimple(fields, f)
    <3>1. Sub(f) \cap T \in SUBSET Filters
      BY SubFilters
    <3>2. QED
      BY <1>1, <3>1
  <2>2. \A g \in Filters : m[g] <=> g \in T
    OBVIOUS
  <2> HIDE DEF m
  <2>3. f.type \in {"and", "or"} => f.conditions = Sub(f) /\ Sub(f) \subseteq Filters
    BY SubFilters
  <2>4. Body(m, f) <=> f \in T
    BY <2>1, <2>2, <2>3
  <2>5. Body(m, f) \in BOOLEAN
    OBVIOUS
  <2> HIDE DEF Body
  <2>6. QED
    BY <2>4, <2>5
<1>3. Is(m)
  BY <1>2
<1> HIDE DEF m
<1>4. Is(all)
  BY <1>3, Zenon
<1>5. \A f : Means(fields, f) = all[f]
  BY Zenon DEF Means
<1> HIDE DEF all
<1>6. \A f \in Filters : all[f] = Body(all, f)
  BY <1>4
<1>7. QED
  BY <1>5, <1>6, Zenon

LEMMA DecidedUnfolds ==
  ASSUME NEW fields
  PROVE  \A f \in Filters :
           Decided(fields, f)
             <=> /\ f.type \in {"and", "or"} => \A g \in f.conditions : Decided(fields, g)
                 /\ DecidedSimple(fields, f)
<1> DEFINE Body(m, f) ==
             /\ f.type \in {"and", "or"} => \A g \in f.conditions : m[g]
             /\ DecidedSimple(fields, f)
           Is(m) == m = [f \in Filters |-> Body(m, f)]
           all == CHOOSE m : Is(m)
           Yes == {p \in Filters \X SUBSET Filters :
                     /\ p[1].type \in {"and", "or"} => p[1].conditions \subseteq p[2]
                     /\ DecidedSimple(fields, p[1])}
<1>1. PICK T \in SUBSET Filters : \A f \in Filters : f \in T <=> <<f, Sub(f) \cap T>> \in Yes
  <2> HIDE DEF Yes
  <2>1. QED
    BY Solution
<1> DEFINE m == [f \in Filters |-> f \in T]
<1>2. ASSUME NEW f \in Filters PROVE Body(m, f) = (f \in T)
  <2>1. f \in T <=> /\ f.type \in {"and", "or"} => f.conditions \subseteq Sub(f) \cap T
                    /\ DecidedSimple(fields, f)
    <3>1. Sub(f) \cap T \in SUBSET Filters
      BY SubFilters
    <3>2. QED
      BY <1>1, <3>1
  <2>2. \A g \in Filters : m[g] <=> g \in T
    OBVIOUS
  <2> HIDE DEF m
  <2>3. f.type \in {"and", "or"} => f.conditions = Sub(f) /\ Sub(f) \subseteq Filters
    BY SubFilters
  <2>4. Body(m, f) <=> f \in T
    BY <2>1, <2>2, <2>3
  <2>5. Body(m, f) \in BOOLEAN
    OBVIOUS
  <2> HIDE DEF Body
  <2>6. QED
    BY <2>4, <2>5
<1>3. Is(m)
  BY <1>2
<1> HIDE DEF m
<1>4. Is(all)
  BY <1>3, Zenon
<1>5. \A f : Decided(fields, f) = all[f]
  BY Zenon DEF Decided
<1> HIDE DEF all
<1>6. \A f \in Filters : all[f] = Body(all, f)
  BY <1>4
<1>7. QED
  BY <1>5, <1>6, Zenon

\* _compareValues follows the order of the ranks wherever there is one.
LEMMA ComparisonRight ==
  ASSUME NEW a \in Values, NEW b \in Values, Comparable(a, b)
  PROVE  /\ CompareValues(a, b) \in {-1, 0, 1}
         /\ CompareValues(a, b) = 0 <=> Rank(a) = Rank(b)
         /\ CompareValues(a, b) < 0 <=> Below(a, b)
         /\ CompareValues(a, b) > 0 <=> Below(b, a)
<1>1. /\ a[1] \in Types /\ a[2] \in Int /\ (a[1] = "null" => a[2] = 0)
      /\ b[1] \in Types /\ b[2] \in Int /\ (b[1] = "null" => b[2] = 0)
      /\ a[1] # "other" /\ b[1] # "other"
      /\ a = <<a[1], a[2]>> /\ b = <<b[1], b[2]>>
  BY DEF Values, Null, Types, Comparable
<1>2. CASE a[1] = "null" \/ b[1] = "null"
  <2>1. CompareValues(a, b) = (IF a[1] = "null" THEN 0 ELSE 1) - (IF b[1] = "null" THEN 0 ELSE 1)
    BY <1>2 DEF CompareValues
  <2>2. QED
    BY <1>1, <1>2, <2>1 DEF Rank, Below
<1>3. CASE a[1] # "null" /\ b[1] # "null"
  <2>1. (Number(a) /\ Number(b)) \/ (a[1] = b[1] /\ a[1] \in {"string", "bool"})
    BY <1>1, <1>3 DEF Comparable, Kind, Number, Types
  <2>2. CompareValues(a, b) = Sign(a[2] - b[2])
    BY <1>3, <2>1 DEF CompareValues
  <2>3. /\ Sign(a[2] - b[2]) \in {-1, 0, 1}
        /\ Sign(a[2] - b[2]) = 0 <=> a[2] = b[2]
        /\ Sign(a[2] - b[2]) < 0 <=> a[2] < b[2]
        /\ Sign(a[2] - b[2]) > 0 <=> b[2] < a[2]
    BY <1>1 DEF Sign
  <2>4. Rank(a) = <<1, a[2]>> /\ Rank(b) = <<1, b[2]>>
    BY <1>3 DEF Rank
  <2>5. QED
    BY <2>2, <2>3, <2>4 DEF Below
<1>4. QED
  BY <1>2, <1>3

LEMMA FieldValue ==
  ASSUME NEW fields \in FieldMaps, NEW name
  PROVE  Field(fields, name) \in Values
<1>1. CASE name \in KeysOf(fields)
  <2>1. /\ \A e \in ToSet(fields) : e[2] \in Values
        /\ KeysOf(fields) = {e[1] : e \in ToSet(fields)}
        /\ \A x : Lookup(fields, x) = {e[2] : e \in {g \in ToSet(fields) : g[1] = x}}
    BY Entries DEF FieldMaps
  <2>2. Lookup(fields, name) # {} /\ Lookup(fields, name) \subseteq Values
    <3>1. PICK e \in ToSet(fields) : e[1] = name
      BY <1>1, <2>1
    <3>2. e[2] \in Lookup(fields, name)
      BY <2>1, <3>1
    <3>3. \A v \in Lookup(fields, name) : v \in Values
      BY <2>1
    <3>4. QED
      BY <3>2, <3>3
  <2>3. QED
    BY <1>1, <2>2 DEF Field
<1>2. CASE name \notin KeysOf(fields)
  BY <1>2 DEF Field, Values
<1>3. QED
  BY <1>1, <1>2

\* A filter without conditions selects what it means.
LEMMA SimpleExact ==
  ASSUME NEW fields \in FieldMaps, NEW f \in Filters, DecidedSimple(fields, f)
  PROVE  MatchesSimple(fields, f) <=> MeansSimple(fields, f)
<1> DEFINE v == Field(fields, f.field)
           n == CompareValues(v, f.value)
<1>1. v \in Values
  BY FieldValue
<1>2. CASE f.type \in Orders
  <2>1. f.value \in Values
    <3>1. f \in [type : Orders, field : Texts, value : Values]
      BY <1>2, FiltersAssumption DEF Orders, All
    <3>2. QED
      BY <3>1
  <2>2. Comparable(v, f.value)
    BY <1>2 DEF DecidedSimple
  <2>3. /\ n \in {-1, 0, 1} /\ (n = 0 <=> Rank(v) = Rank(f.value))
        /\ (n < 0 <=> Below(v, f.value)) /\ (n > 0 <=> Below(f.value, v))
    BY <1>1, <2>1, <2>2, ComparisonRight
  <2>4. Compared(fields, f, f.value) = n
    BY DEF Compared
  <2> HIDE DEF n, v
  <2>5. n >= 0 <=> ~ (n < 0)
    BY <2>3
  <2>6. n <= 0 <=> ~ (n > 0)
    BY <2>3
  <2>7. QED
    BY <1>2, <2>3, <2>4, <2>5, <2>6 DEF Orders, MatchesSimple, MeansSimple, v
<1>3. CASE f.type = "range"
  <2> DEFINE n2 == CompareValues(v, f.value2)
  <2>1. f.value \in Values /\ f.value2 \in Values
    <3>1. f \in [type : {"range"}, field : Texts, value : Values, value2 : Values]
      BY <1>3, FiltersAssumption DEF Orders, All
    <3>2. QED
      BY <3>1
  <2>2. Comparable(v, f.value) /\ Comparable(v, f.value2)
    BY <1>3 DEF DecidedSimple
  <2>3. /\ n \in {-1, 0, 1} /\ (n < 0 <=> Below(v, f.value))
        /\ n2 \in {-1, 0, 1} /\ (n2 < 0 <=> Below(v, f.value2))
    BY <1>1, <2>1, <2>2, ComparisonRight
  <2>4. Compared(fields, f, f.value) = n /\ Compared(fields, f, f.value2) = n2
    BY DEF Compared
  <2> HIDE DEF n, v, n2
  <2>5. n >= 0 <=> ~ (n < 0)
    BY <2>3
  <2>6. QED
    BY <1>3, <2>3, <2>4, <2>5 DEF MatchesSimple, MeansSimple, v
<1>4. CASE f.type \notin Orders \cup {"range"}
  BY <1>4 DEF Orders, MatchesSimple, MeansSimple
<1>5. QED
  BY <1>2, <1>3, <1>4

\* So does every filter that is built from them.
LEMMA MatchesExact ==
  ASSUME NEW fields \in FieldMaps
  PROVE  \A f \in Filters :
           Decided(fields, f) => (MatchesFilter(fields, f) <=> Means(fields, f))
<1> DEFINE Bad == {f \in Filters :
             Decided(fields, f) /\ ~ (MatchesFilter(fields, f) <=> Means(fields, f))}
<1> SUFFICES ASSUME Bad # {} PROVE FALSE
  OBVIOUS
<1>1. PICK f \in Bad : Sub(f) \cap Bad = {}
  <2>1. Bad \in SUBSET Filters
    OBVIOUS
  <2> HIDE DEF Bad
  <2>2. QED
    BY <2>1, LeastFilter
<1>2. /\ f \in Filters /\ Decided(fields, f)
      /\ ~ (MatchesFilter(fields, f) <=> Means(fields, f))
  OBVIOUS
<1>3. /\ f.type \in {"and", "or"} => \A g \in f.conditions : Decided(fields, g)
      /\ DecidedSimple(fields, f)
  BY <1>2, DecidedUnfolds
<1>4. MatchesSimple(fields, f) <=> MeansSimple(fields, f)
  BY <1>2, <1>3, SimpleExact
<1>5. ASSUME f.type \in {"and", "or"}
      PROVE  \A g \in f.conditions : MatchesFilter(fields, g) <=> Means(fields, g)
  <2>1. f.conditions = Sub(f) /\ Sub(f) \subseteq Filters
    BY <1>2, <1>5, SubFilters
  <2>2. QED
    BY <1>1, <1>3, <1>5, <2>1
<1> HIDE DEF Bad
<1>6. /\ f.type = "and" =>
           ((\A g \in f.conditions : MatchesFilter(fields, g))
              <=> {g \in f.conditions : ~ Means(fields, g)} = {})
      /\ f.type = "or" =>
           ((\E g \in f.conditions : MatchesFilter(fields, g))
              <=> {g \in f.conditions : Means(fields, g)} # {})
  BY <1>5
<1>7. MatchesFilter(fields, f)
        <=> /\ f.type = "and" => \A g \in f.conditions : MatchesFilter(fields, g)
            /\ f.type = "or" => \E g \in f.conditions : MatchesFilter(fields, g)
            /\ MatchesSimple(fields, f)
  BY <1>2, MatchesUnfolds
<1>8. Means(fields, f)
        <=> /\ f.type = "and" => {g \in f.conditions : ~ Means(fields, g)} = {}
            /\ f.type = "or" => {g \in f.conditions : Means(fields, g)} # {}
            /\ MeansSimple(fields, f)
  BY <1>2, MeansUnfolds
<1>9. QED
  BY <1>2, <1>4, <1>6, <1>7, <1>8

LEMMA TypesExact == TypeOK => FiltersExact
<1> SUFFICES ASSUME TypeOK, NEW c \in DOMAIN memory, NEW f \in Filters,
                    NEW k \in DOMAIN memory[c], Decided(memory[c][k][2], f)
             PROVE  memory[c][k][1] \in {e[1] : e \in Query(c, f)}
                      <=> Means(memory[c][k][2], f)
  BY DEF FiltersExact
<1> DEFINE docs == memory[c]
<1>1. docs \in DocMaps /\ DocsOf(memory, c) = docs
  BY DEF TypeOK, DocsOf
<1>2. /\ \A j \in DOMAIN docs : docs[j][2] \in FieldMaps
      /\ \A j \in DOMAIN docs : docs[j][1] = docs[k][1] => j = k
  BY <1>1 DEF DocMaps, Maps, IsMap
<1>3. Query(c, f) = {docs[j] : j \in {h \in DOMAIN docs : MatchesFilter(docs[h][2], f)}}
  BY <1>1 DEF Query
<1>4. MatchesFilter(docs[k][2], f) <=> Means(docs[k][2], f)
  BY <1>2, MatchesExact
<1> HIDE DEF docs
<1>5. docs[k][1] \in {e[1] : e \in Query(c, f)} <=> MatchesFilter(docs[k][2], f)
  BY <1>2, <1>3 DEF docs
<1>6. QED
  BY <1>4, <1>5 DEF docs

\* A query selects the documents its filter means and no others.
THEOREM QueriesExact == Spec => []FiltersExact
<1>1. QED
  BY InitIInv, NextIInv, IInvImplies, TypesExact, PTL DEF Spec
=============================================================================
