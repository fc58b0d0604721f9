---------------------------- MODULE Uncalled_proof ----------------------------
(***************************************************************************)
(* Proofs about the four parts of MCUncalled: the service registrer for    *)
(* every set of uuids, the timed sleep for every clock and every time to   *)
(* wait, the key combinations of every length, and the frame encoder for   *)
(* every number of frames the codec keeps.                                 *)
(***************************************************************************)
EXTENDS MCUncalled, SequenceTheorems, TLAPS

-----------------------------------------------------------------------------
(* What the insertion and the removal of the community modules leave of a   *)
(* sequence *)

\* The part of a sequence from m to n, which may be empty.
LEMMA SubSeqElements ==
  ASSUME NEW S, NEW s \in Seq(S), NEW m \in Nat \ {0}, NEW n \in 0 .. Len(s), m <= n + 1,
         NEW u, u = SubSeq(s, m, n)
  PROVE  /\ u \in Seq(S) /\ Len(u) = n - m + 1
         /\ \A p \in 1 .. n - m + 1 : u[p] = s[m + p - 1]
<1>1. Len(s) \in Nat /\ m \in Int /\ n \in Int
  BY LenProperties
<1>2. \A p \in m .. n : s[p] \in S
  BY <1>1, ElementOfSeq
<1>3. /\ SubSeq(s, m, n) \in Seq(S)
      /\ Len(SubSeq(s, m, n)) = IF m <= n THEN n - m + 1 ELSE 0
      /\ \A p \in 1 .. n - m + 1 : SubSeq(s, m, n)[p] = s[m + p - 1]
  BY <1>1, <1>2, SubSeqProperties
<1>4. (IF m <= n THEN n - m + 1 ELSE 0) = n - m + 1
  BY <1>1
<1>5. QED
  BY <1>3, <1>4, Zenon

\* t is s with e inserted at n; t is s without its element at n.
HasOneMore(s, t, n, e) ==
  /\ Len(t) = Len(s) + 1
  /\ \A p \in 1 .. Len(s) + 1 :
       /\ p < n => t[p] = s[p]
       /\ p = n => t[p] = e
       /\ p > n => t[p] = s[p - 1]

HasOneLess(s, t, n) ==
  /\ Len(t) = Len(s) - 1
  /\ \A p \in 1 .. Len(s) - 1 :
       /\ p < n => t[p] = s[p]
       /\ p >= n => t[p] = s[p + 1]

\* They are what InsertAt() and RemoveAt() yield.
LEMMA InsertedElements ==
  ASSUME NEW S, NEW s \in Seq(S), NEW e \in S, NEW n \in 1 .. Len(s) + 1
  PROVE  InsertAt(s, n, e) \in Seq(S) /\ HasOneMore(s, InsertAt(s, n, e), n, e)
<1> DEFINE N == Len(s)
           u == InsertAt(s, n, e)
           a == SubSeq(s, 1, n - 1)
           b == SubSeq(s, n, N)
           c == a \o <<e>>
           x == <<e>>
<1>0. N \in Nat /\ N = Len(s) /\ n \in 1 .. N + 1
  BY LenProperties
<1> HIDE DEF N
<1>1. /\ a \in Seq(S) /\ Len(a) = n - 1
      /\ \A p \in 1 .. n - 1 : a[p] = s[p]
  <2>1. n - 1 \in 0 .. Len(s) /\ 1 <= (n - 1) + 1 /\ 1 \in Nat \ {0}
    BY <1>0
  <2> HIDE DEF a
  <2>2. /\ a \in Seq(S) /\ Len(a) = (n - 1) - 1 + 1
        /\ \A p \in 1 .. (n - 1) - 1 + 1 : a[p] = s[1 + p - 1]
    BY <1>0, <2>1, SubSeqElements DEF a
  <2>3. QED
    BY <1>0, <2>2
<1>2. /\ b \in Seq(S) /\ Len(b) = N - n + 1
      /\ \A p \in 1 .. N - n + 1 : b[p] = s[n + p - 1]
  <2>1. N \in 0 .. Len(s) /\ n <= N + 1 /\ n \in Nat \ {0}
    BY <1>0
  <2>2. QED
    BY <1>0, <2>1, SubSeqElements
<1>3. x \in Seq(S) /\ Len(x) = 1 /\ x[1] = e
  OBVIOUS
<1>4. u = c \o b /\ c = a \o x
  BY Zenon DEF InsertAt, N
<1> HIDE DEF u, a, b, c, x
<1>5. /\ c \in Seq(S) /\ Len(c) = (n - 1) + 1
      /\ \A p \in 1 .. (n - 1) + 1 : c[p] = IF p <= n - 1 THEN a[p] ELSE x[p - (n - 1)]
  <2>1. /\ c \in Seq(S) /\ Len(c) = Len(a) + Len(x)
        /\ \A p \in 1 .. Len(a) + Len(x) : c[p] = IF p <= Len(a) THEN a[p] ELSE x[p - Len(a)]
    <3>1. a \in Seq(S) /\ x \in Seq(S)
      BY <1>1, <1>3, Zenon
    <3>2. /\ a \o x \in Seq(S) /\ Len(a \o x) = Len(a) + Len(x)
          /\ \A p \in 1 .. Len(a) + Len(x) :
               (a \o x)[p] = IF p <= Len(a) THEN a[p] ELSE x[p - Len(a)]
      BY <3>1, ConcatProperties, Zenon
    <3>3. c = a \o x
      BY <1>4, Zenon
    <3>4. QED
      BY <3>2, <3>3, Zenon
  <2>2. QED
    BY <1>1, <1>3, <2>1, Zenon
<1>6. /\ u \in Seq(S) /\ Len(u) = n + (N - n + 1)
      /\ \A p \in 1 .. n + (N - n + 1) : u[p] = IF p <= n THEN c[p] ELSE b[p - n]
  <2>1. /\ u \in Seq(S) /\ Len(u) = Len(c) + Len(b)
        /\ \A p \in 1 .. Len(c) + Len(b) : u[p] = IF p <= Len(c) THEN c[p] ELSE b[p - Len(c)]
    <3>1. c \in Seq(S) /\ b \in Seq(S)
      BY <1>2, <1>5, Zenon
    <3>2. /\ c \o b \in Seq(S) /\ Len(c \o b) = Len(c) + Len(b)
          /\ \A p \in 1 .. Len(c) + Len(b) :
               (c \o b)[p] = IF p <= Len(c) THEN c[p] ELSE b[p - Len(c)]
      BY <3>1, ConcatProperties, Zenon
    <3>3. u = c \o b
      BY <1>4, Zenon
    <3>4. QED
      BY <3>2, <3>3, Zenon
  <2>2. Len(c) = n
    BY <1>0, <1>5
  <2>3. QED
    BY <1>2, <2>1, <2>2, Zenon
<1>7. ASSUME NEW p \in 1 .. N + 1
      PROVE  /\ p < n => u[p] = s[p]
             /\ p = n => u[p] = e
             /\ p > n => u[p] = s[p - 1]
  <2>1. ASSUME p < n PROVE u[p] = s[p]
    BY <1>0, <1>1, <1>5, <1>6, <2>1
  <2>2. ASSUME p = n PROVE u[p] = e
    BY <1>0, <1>3, <1>5, <1>6, <2>2
  <2>3. ASSUME p > n PROVE u[p] = s[p - 1]
    <3>1. u[p] = b[p - n] /\ p - n \in 1 .. N - n + 1 /\ n + (p - n) - 1 = p - 1
      BY <1>0, <1>6, <2>3
    <3>2. QED
      BY <1>2, <3>1
  <2>4. QED
    BY <2>1, <2>2, <2>3, Zenon
<1>8. n + (N - n + 1) = N + 1
  BY <1>0
<1>9. QED
  BY <1>6, <1>7, <1>8, Zenon DEF u, N, HasOneMore

LEMMA RemainingElements ==
  ASSUME NEW S, NEW s \in Seq(S), NEW n \in 1 .. Len(s)
  PROVE  RemoveAt(s, n) \in Seq(S) /\ HasOneLess(s, RemoveAt(s, n), n)
<1> DEFINE N == Len(s)
           u == RemoveAt(s, n)
           a == SubSeq(s, 1, n - 1)
           b == SubSeq(s, n + 1, N)
<1>0. N \in Nat /\ N = Len(s) /\ n \in 1 .. N
  BY LenProperties
<1> HIDE DEF N
<1>1. /\ a \in Seq(S) /\ Len(a) = n - 1
      /\ \A p \in 1 .. n - 1 : a[p] = s[p]
  <2>1. n - 1 \in 0 .. Len(s) /\ 1 <= (n - 1) + 1 /\ 1 \in Nat \ {0}
    BY <1>0
  <2> HIDE DEF a
  <2>2. /\ a \in Seq(S) /\ Len(a) = (n - 1) - 1 + 1
        /\ \A p \in 1 .. (n - 1) - 1 + 1 : a[p] = s[1 + p - 1]
    BY <1>0, <2>1, SubSeqElements DEF a
  <2>3. QED
    BY <1>0, <2>2
<1>2. /\ b \in Seq(S) /\ Len(b) = N - n
      /\ \A p \in 1 .. N - n : b[p] = s[n + p]
  <2>1. N \in 0 .. Len(s) /\ n + 1 <= N + 1 /\ n + 1 \in Nat \ {0}
    BY <1>0
  <2> HIDE DEF b
  <2>2. /\ b \in Seq(S) /\ Len(b) = N - (n + 1) + 1
        /\ \A p \in 1 .. N - (n + 1) + 1 : b[p] = s[(n + 1) + p - 1]
    BY <1>0, <2>1, SubSeqElements DEF b
  <2>3. QED
    BY <1>0, <2>2
<1>3. u = a \o b
  BY Zenon DEF RemoveAt, N
<1> HIDE DEF u, a, b
<1>4. /\ u \in Seq(S) /\ Len(u) = (n - 1) + (N - n)
      /\ \A p \in 1 .. (n - 1) + (N - n) : u[p] = IF p <= n - 1 THEN a[p] ELSE b[p - (n - 1)]
  <2>1. /\ u \in Seq(S) /\ Len(u) = Len(a) + Len(b)
        /\ \A p \in 1 .. Len(a) + Len(b) : u[p] = IF p <= Len(a) THEN a[p] ELSE b[p - Len(a)]
    <3>1. a \in Seq(S) /\ b \in Seq(S)
      BY <1>1, <1>2, Zenon
    <3>2. /\ a \o b \in Seq(S) /\ Len(a \o b) = Len(a) + Len(b)
          /\ \A p \in 1 .. Len(a) + Len(b) :
               (a \o b)[p] = IF p <= Len(a) THEN a[p] ELSE b[p - Len(a)]
      BY <3>1, ConcatProperties, Zenon
    <3>3. u = a \o b
      BY <1>3, Zenon
    <3>4. QED
      BY <3>2, <3>3, Zenon
  <2>2. QED
    BY <1>1, <1>2, <2>1, Zenon
<1>5. ASSUME NEW p \in 1 .. N - 1
      PROVE  /\ p < n => u[p] = s[p]
             /\ p >= n => u[p] = s[p + 1]
  <2>1. CASE p < n
    <3>1. p \in 1 .. (n - 1) + (N - n) /\ p <= n - 1 /\ p \in 1 .. n - 1 /\ ~(p >= n)
      BY <1>0, <2>1
    <3>2. QED
      BY <1>1, <1>4, <3>1, Zenon
  <2>2. CASE p >= n
    <3>1. u[p] = b[p - (n - 1)] /\ p - (n - 1) \in 1 .. N - n /\ n + (p - (n - 1)) = p + 1
      BY <1>0, <1>4, <2>2
    <3>2. QED
      BY <1>0, <1>2, <2>2, <3>1
  <2>3. QED
    BY <1>0, <2>1, <2>2
<1>6. (n - 1) + (N - n) = N - 1
  BY <1>0
<1>7. QED
  BY <1>4, <1>5, <1>6, Zenon DEF u, N, HasOneLess

-----------------------------------------------------------------------------
(* Keys and lookups *)

\* The fields of a uuid, which are as many in each.
LEMMA KeyFields ==
  ASSUME NEW j \in Keys, NEW k \in Keys
  PROVE  /\ j \in Seq(Nat) /\ Len(j) \in Nat /\ DOMAIN j = 1 .. Len(j)
         /\ Len(j) = Len(k) /\ DOMAIN j = DOMAIN k
         /\ \A f \in DOMAIN j : j[f] \in Nat
<1>1. j \in Seq(Nat) /\ k \in Seq(Nat) /\ Len(j) = Len(k)
  BY RegistrerAssumption
<1>2. DOMAIN j = 1 .. Len(j) /\ DOMAIN k = 1 .. Len(k) /\ Len(j) \in Nat
  BY <1>1, LenProperties
<1>3. \A f \in 1 .. Len(j) : j[f] \in Nat
  BY <1>1, ElementOfSeq
<1>4. QED
  BY <1>1, <1>2, <1>3, Zenon

\* What operator< of uuid_struct says of three keys, although it is no order.
LEMMA LessSplits ==
  ASSUME NEW j \in Keys, NEW k \in Keys, NEW K \in Keys, Less(j, k)
  PROVE  Less(j, K) \/ Less(K, k)
<1>1. /\ DOMAIN j = DOMAIN K /\ DOMAIN j = DOMAIN k
      /\ \A f \in DOMAIN j : j[f] \in Nat /\ k[f] \in Nat /\ K[f] \in Nat
  BY KeyFields, Zenon
<1>2. PICK f \in DOMAIN j : j[f] < k[f]
  BY DEF Less
<1>3. j[f] < K[f] \/ K[f] < k[f]
  BY <1>1, <1>2
<1>4. QED
  BY <1>1, <1>2, <1>3, Zenon DEF Less

\* Uuids neither of which is less are the same, but no uuid is less than
\* itself.
LEMMA NeitherIsLess ==
  ASSUME NEW j \in Keys, NEW k \in Keys, ~Less(j, k), ~Less(k, j)
  PROVE  j = k
<1>1. /\ j \in Seq(Nat) /\ k \in Seq(Nat) /\ Len(j) = Len(k)
      /\ DOMAIN j = 1 .. Len(j) /\ DOMAIN k = 1 .. Len(j)
      /\ \A f \in 1 .. Len(j) : j[f] \in Nat /\ k[f] \in Nat
  BY KeyFields, Zenon
<1>2. \A f \in 1 .. Len(j) : ~(j[f] < k[f]) /\ ~(k[f] < j[f])
  BY <1>1, Zenon DEF Less
<1>3. \A f \in 1 .. Len(j) : j[f] = k[f]
  BY <1>1, <1>2
<1>4. QED
  BY <1>1, <1>3, SeqEqual

LEMMA NotLessThanItself ==
  ASSUME NEW k \in Keys
  PROVE  ~Less(k, k)
<1>2. \A f \in DOMAIN k : k[f] \in Nat
  BY KeyFields, Zenon
<1>3. \A f \in DOMAIN k : ~(k[f] < k[f])
  BY <1>2
<1>4. QED
  BY <1>3, Zenon DEF Less

Entries == [key : Keys, record : Nat]

\* The map as a sequence of entries, and its root.
LEMMA MapEntries ==
  ASSUME TypeOK
  PROVE  /\ Len(serviceMap) \in 0 .. 3 /\ DOMAIN serviceMap = 1 .. Len(serviceMap)
         /\ serviceMap \in Seq(Entries)
         /\ \A p \in 1 .. Len(serviceMap) :
              /\ serviceMap[p] \in Entries
              /\ serviceMap[p].key \in Keys /\ serviceMap[p].record \in Nat
         /\ IF Len(serviceMap) = 0 THEN root = 0 ELSE root \in 1 .. Len(serviceMap)
         /\ lost = {} \/ Len(serviceMap) \in 0 .. 2
<1>1. serviceMap \in Seq(Entries)
  BY DEF TypeOK, Entries
<1>2. Len(serviceMap) \in Nat /\ DOMAIN serviceMap = 1 .. Len(serviceMap)
  BY <1>1, LenProperties
<1>3. serviceMap = <<>> <=> Len(serviceMap) = 0
  BY <1>1, EmptySeq
<1>4. \A p \in 1 .. Len(serviceMap) : serviceMap[p] \in Entries
  BY <1>1, ElementOfSeq
<1>5. IF Len(serviceMap) = 0 THEN root = 0 ELSE root \in 1 .. Len(serviceMap)
  BY <1>2, <1>3 DEF TypeOK
<1>6. \A p \in 1 .. Len(serviceMap) : serviceMap[p].key \in Keys /\ serviceMap[p].record \in Nat
  BY <1>4 DEF Entries
<1>7. Len(serviceMap) \in 0 .. 3 /\ (lost = {} \/ Len(serviceMap) \in 0 .. 2)
  <2>1. Size <= 3
    BY DEF TypeOK, MaxEntries
  <2>2. CASE lost = {}
    BY <1>2, <2>1, <2>2 DEF Size
  <2>3. CASE lost # {}
    BY <1>2, <2>1, <2>3 DEF Size
  <2>4. QED
    BY <2>2, <2>3
<1>8. QED
  BY <1>1, <1>2, <1>4, <1>5, <1>6, <1>7, Zenon

\* The walk ends between an entry that is less than the key and one that is
\* not, whatever the others are.
LEMMA LowerBoundFacts ==
  ASSUME TypeOK, Balanced, NEW k \in Keys
  PROVE  /\ LowerBound(k) \in 1 .. Len(serviceMap) + 1
         /\ LowerBound(k) <= Len(serviceMap) => ~Less(serviceMap[LowerBound(k)].key, k)
         /\ LowerBound(k) > 1 => Less(serviceMap[LowerBound(k) - 1].key, k)
<1> DEFINE n == Len(serviceMap)
           B(p) == p \in DOMAIN serviceMap /\ Less(serviceMap[p].key, k)
<1>1. n \in 0 .. 3 /\ DOMAIN serviceMap = 1 .. n /\ (IF n = 0 THEN root = 0 ELSE root \in 1 .. n)
      /\ (n = 3 => root = 2)
  BY MapEntries DEF Balanced, MaxEntries
<1>2. serviceMap = <<>> <=> n = 0
  BY EmptySeq, <1>1 DEF TypeOK
<1>3. LowerBound(k) =
        IF n = 0 THEN n + 1
        ELSE IF B(root)
             THEN IF root + 1 < n + 1 /\ ~B(root + 1) THEN root + 1 ELSE n + 1
             ELSE IF root > 1 /\ ~B(root - 1) THEN root - 1 ELSE root
  BY <1>2, Zenon DEF LowerBound
<1>4. \A p \in 1 .. n : B(p) <=> Less(serviceMap[p].key, k)
  BY <1>1
<1> HIDE DEF n, B
<1>5. /\ LowerBound(k) \in 1 .. n + 1
      /\ LowerBound(k) <= n => ~B(LowerBound(k))
      /\ LowerBound(k) > 1 => B(LowerBound(k) - 1)
  <2>1. CASE n = 0
    BY <1>1, <1>3, <2>1
  <2>2. CASE n # 0 /\ B(root)
    BY <1>1, <1>3, <2>2
  <2>3. CASE n # 0 /\ ~B(root)
    BY <1>1, <1>3, <2>3
  <2>4. QED
    BY <2>1, <2>2, <2>3
<1>6. QED
  BY <1>1, <1>4, <1>5 DEF n

\* What is found is what was looked for.
LEMMA FoundIsIt ==
  ASSUME TypeOK, Balanced, NEW k \in Keys, Found(k)
  PROVE  LowerBound(k) \in 1 .. Len(serviceMap) /\ serviceMap[LowerBound(k)].key = k
<1>1. /\ LowerBound(k) \in 1 .. Len(serviceMap)
      /\ ~Less(k, serviceMap[LowerBound(k)].key)
  BY MapEntries DEF Found
<1>2. ~Less(serviceMap[LowerBound(k)].key, k)
  BY <1>1, LowerBoundFacts, MapEntries
<1>3. serviceMap[LowerBound(k)].key \in Keys
  BY <1>1, MapEntries
<1>4. QED
  BY <1>1, <1>2, <1>3, NeitherIsLess

-----------------------------------------------------------------------------
(* The map changes *)

\* A node that overwrites another takes its place under the root, which is
\* the last entry, and with which it disagrees on their order.
LEMMA EntryIsOverwritten ==
  ASSUME TypeOK, Balanced, NEW k \in Keys, NEW r \in Nat, Insert(k, r), Overwrites(k)
  PROVE  /\ Len(serviceMap) = 2 /\ root' = 2
         /\ serviceMap' \in Seq(Entries) /\ Len(serviceMap') = 2 /\ DOMAIN serviceMap' = 1 .. 2
         /\ serviceMap'[1] = [key |-> k, record |-> r] /\ serviceMap'[2] = serviceMap[2]
         /\ lost = {} /\ lost' = {serviceMap[1]}
         /\ Less(k, serviceMap[2].key) /\ Less(serviceMap[2].key, k)
<1> DEFINE e == [key |-> k, record |-> r]
<1>1. /\ GoesLeft(k) /\ LowerBound(k) - 1 = root /\ root > 1
      /\ root \in 1 .. Len(serviceMap) /\ Len(serviceMap) \in 0 .. 3 /\ Size < 3
      /\ DOMAIN serviceMap = 1 .. Len(serviceMap)
  BY MapEntries DEF Overwrites, Insert, MaxEntries
<1>2. root = Len(serviceMap) /\ Less(k, serviceMap[root].key)
  BY <1>1, Zenon DEF GoesLeft
<1>3. Len(serviceMap) = 2 /\ root = 2 /\ lost = {} /\ LowerBound(k) = 3
  <2>1. Len(serviceMap) = 2 /\ lost = {}
    BY <1>1, <1>2 DEF Size
  <2>2. LowerBound(k) \in 1 .. Len(serviceMap) + 1
    BY LowerBoundFacts
  <2>3. QED
    BY <1>1, <1>2, <2>1, <2>2
<1>4. Less(k, serviceMap[2].key) /\ Less(serviceMap[2].key, k)
  BY <1>2, <1>3, LowerBoundFacts
<1>5. serviceMap' = [serviceMap EXCEPT ![1] = e] /\ lost' = {serviceMap[1]} /\ root' = 2
  BY <1>3 DEF Insert, Overwrite
<1>6. serviceMap \in Seq(Entries) /\ e \in Entries
  BY MapEntries DEF Entries
<1> HIDE DEF e
<1>7. serviceMap' \in Seq(Entries) /\ Len(serviceMap') = 2
  BY <1>3, <1>5, <1>6, ExceptSeq
<1>8. serviceMap'[1] = e /\ serviceMap'[2] = serviceMap[2]
  BY <1>1, <1>3, <1>5
<1>9. QED
  BY <1>3, <1>4, <1>5, <1>7, <1>8, LenProperties, Zenon DEF e

\* Otherwise the node is linked at the lower bound, or to the left of its
\* parent.
Place(k) == IF GoesLeft(k) THEN LowerBound(k) - 1 ELSE LowerBound(k)

LEMMA EntryIsLinked ==
  ASSUME TypeOK, Balanced, NEW k \in Keys, NEW r \in Nat, Insert(k, r), ~Overwrites(k)
  PROVE  /\ Len(serviceMap) \in 0 .. 2 /\ Place(k) \in 1 .. Len(serviceMap) + 1
         /\ serviceMap' \in Seq(Entries) /\ Len(serviceMap') = Len(serviceMap) + 1
         /\ DOMAIN serviceMap' = 1 .. Len(serviceMap) + 1
         /\ HasOneMore(serviceMap, serviceMap', Place(k), [key |-> k, record |-> r])
         /\ root' \in 1 .. Len(serviceMap) + 1 /\ (Len(serviceMap) + 1 = 3 => root' = 2)
         /\ lost' = lost /\ (lost = {} \/ Len(serviceMap) + 1 \in 1 .. 2)
<1> DEFINE N == Len(serviceMap)
           n == Place(k)
<1>1. N \in 0 .. 2 /\ n \in 1 .. N + 1 /\ serviceMap \in Seq(Entries)
  <2>1. N \in 0 .. 2 /\ serviceMap \in Seq(Entries) /\ DOMAIN serviceMap = 1 .. N
    BY MapEntries DEF Insert, MaxEntries, Size
  <2>2. LowerBound(k) \in 1 .. N + 1 /\ (GoesLeft(k) => LowerBound(k) - 1 \in DOMAIN serviceMap)
    BY LowerBoundFacts DEF GoesLeft
  <2>3. QED
    BY <2>1, <2>2 DEF Place
<1>2. [key |-> k, record |-> r] \in Entries
  BY DEF Entries
<1>3. /\ serviceMap' = InsertAt(serviceMap, n, [key |-> k, record |-> r])
      /\ root' = IF N = 0 \/ (N = 1 /\ n = 2) THEN 1 ELSE 2
      /\ lost' = lost
  BY Zenon DEF Insert, Link, Place
<1>4. serviceMap' \in Seq(Entries) /\ HasOneMore(serviceMap, serviceMap', n, [key |-> k, record |-> r])
  BY <1>1, <1>2, <1>3, InsertedElements, Zenon
<1>5. DOMAIN serviceMap' = 1 .. N + 1 /\ Len(serviceMap') = N + 1
  BY <1>4, LenProperties, Zenon DEF HasOneMore
<1>6. lost = {} \/ N + 1 \in 1 .. 2
  BY <1>1 DEF Insert, MaxEntries, Size
<1> HIDE DEF N, n
<1>7. root' \in 1 .. N + 1 /\ (N + 1 = 3 => root' = 2)
  BY <1>1, <1>3
<1>8. QED
  BY <1>1, <1>3, <1>4, <1>5, <1>6, <1>7, Zenon DEF N, n

\* serviceMap.erase(), likewise.
LEMMA EntryIsErased ==
  ASSUME TypeOK, Balanced, NEW n \in 1 .. Len(serviceMap), Erase(n)
  PROVE  /\ Len(serviceMap) \in 1 .. 3
         /\ serviceMap' \in Seq(Entries) /\ DOMAIN serviceMap' = 1 .. Len(serviceMap) - 1
         /\ HasOneLess(serviceMap, serviceMap', n)
         /\ IF Len(serviceMap) = 1 THEN root' = 0 ELSE root' \in 1 .. Len(serviceMap) - 1
<1> DEFINE N == Len(serviceMap)
<1>1. N \in 1 .. 3 /\ serviceMap \in Seq(Entries)
  BY MapEntries
<1>2. serviceMap' = RemoveAt(serviceMap, n)
  BY Zenon DEF Erase
<1>3. serviceMap' \in Seq(Entries) /\ HasOneLess(serviceMap, serviceMap', n)
  BY <1>1, <1>2, RemainingElements, Zenon
<1>4. DOMAIN serviceMap' = 1 .. N - 1
  BY <1>3, LenProperties, Zenon DEF HasOneLess
<1>5. root' = CASE N = 3 -> IF n = 1 THEN 1 ELSE 2 [] N = 2 -> 1 [] OTHER -> 0
  BY Zenon DEF Erase
<1> HIDE DEF N
<1>6. IF N = 1 THEN root' = 0 ELSE root' \in 1 .. N - 1
  BY <1>1, <1>5
<1>7. QED
  BY <1>1, <1>3, <1>4, <1>6, Zenon DEF N

\* What is said of the map and its tree.
MapInv ==
  /\ serviceMap \in Seq([key : Keys, record : Nat])
  /\ Size <= MaxEntries
  /\ root \in (IF serviceMap = <<>> THEN {0} ELSE DOMAIN serviceMap)
  /\ lost \subseteq [key : Keys, record : Nat]
  /\ orphan \in BOOLEAN
  /\ Balanced
  /\ \A k \in Keys : Orderly(k) => InOrderFor(k)
  /\ LostByContradiction

\* The map as a tree is well formed again.
LEMMA MapIsTree ==
  ASSUME NEW N \in 0 .. 3, serviceMap' \in Seq(Entries), Len(serviceMap') = N,
         IF N = 0 THEN root' = 0 ELSE root' \in 1 .. N,
         N = 3 => root' = 2,
         lost' = {} \/ N \in 0 .. 2
  PROVE  /\ serviceMap' \in Seq([key : Keys, record : Nat])
         /\ Size' <= MaxEntries
         /\ root' \in (IF serviceMap' = <<>> THEN {0} ELSE DOMAIN serviceMap')
         /\ Balanced'
<1>1. DOMAIN serviceMap' = 1 .. N
  BY LenProperties
<1>2. serviceMap' = <<>> <=> N = 0
  BY EmptySeq
<1>3. root' \in (IF serviceMap' = <<>> THEN {0} ELSE DOMAIN serviceMap')
  BY <1>1, <1>2
<1>4. Size' <= MaxEntries /\ Balanced'
  BY DEF MaxEntries, Balanced, Size
<1>5. QED
  BY <1>3, <1>4, Zenon DEF Entries

\* A key that goes to the left of its parent contradicts it, and is on the
\* same side of every orderly key K as its parent.
LEMMA ContradictingParent ==
  ASSUME TypeOK, Balanced, NEW k \in Keys, GoesLeft(k), NEW K \in Keys, Orderly(K)
  PROVE  LET p == serviceMap[LowerBound(k) - 1].key
         IN (Less(p, K) /\ Less(k, K)) \/ (Less(K, p) /\ Less(K, k))
<1> DEFINE p == serviceMap[LowerBound(k) - 1].key
<1>1. p \in Keys /\ Less(k, p) /\ Less(p, k)
  <2>1. LowerBound(k) - 1 \in 1 .. Len(serviceMap) /\ Less(k, p) /\ LowerBound(k) \in Int
    BY MapEntries, LowerBoundFacts DEF GoesLeft
  <2>2. QED
    BY <2>1, MapEntries, LowerBoundFacts
<1> HIDE DEF p
<1>2. (Less(k, K) \/ Less(K, p)) /\ (Less(p, K) \/ Less(K, k))
  BY <1>1, LessSplits
<1>3. ~(Less(k, K) /\ Less(K, k)) /\ ~(Less(p, K) /\ Less(K, p))
  BY <1>1, Zenon DEF Orderly, Contradicts
<1>4. QED
  BY <1>2, <1>3, Zenon DEF p

\* A key that was not found goes where it belongs for every orderly key K,
\* whatever has led the lookup there.
LEMMA LinkKeepsOrder ==
  ASSUME TypeOK, Balanced, NEW k \in Keys, NEW r \in Nat, Insert(k, r), ~Overwrites(k), ~Found(k),
         NEW K \in Keys, Orderly(K), InOrderFor(K)
  PROVE  InOrderFor(K)'
<1> DEFINE N == Len(serviceMap)
           n == Place(k)
           G(p) == serviceMap[p].key
           H(p) == serviceMap'[p].key
<1>1. /\ N \in 0 .. 2 /\ n \in 1 .. N + 1 /\ DOMAIN serviceMap = 1 .. N
      /\ \A p \in 1 .. N : G(p) \in Keys
  BY EntryIsLinked, MapEntries
<1>2. /\ DOMAIN serviceMap' = 1 .. N + 1
      /\ \A p \in 1 .. N + 1 : /\ p < n => H(p) = G(p)
                               /\ p = n => H(p) = k
                               /\ p > n => H(p) = G(p - 1)
  <2>1. DOMAIN serviceMap' = 1 .. N + 1 /\ HasOneMore(serviceMap, serviceMap', n, [key |-> k, record |-> r])
    BY EntryIsLinked, Zenon
  <2>2. [key |-> k, record |-> r].key = k
    OBVIOUS
  <2> HIDE DEF n
  <2>3. QED
    BY <2>1, <2>2, Zenon DEF HasOneMore
<1>3. \A p, q \in 1 .. N : p < q => Less(G(p), K) \/ Less(K, G(q))
  BY <1>1, Zenon DEF InOrderFor
<1>4. \A p \in 1 .. N : ~(Less(G(p), K) /\ Less(K, G(p)))
  BY <1>1, Zenon DEF Orderly, Contradicts
<1>5. GoesLeft(k) => n \in 1 .. N /\ ((Less(G(n), K) /\ Less(k, K)) \/ (Less(K, G(n)) /\ Less(K, k)))
  <2> SUFFICES ASSUME GoesLeft(k)
               PROVE  n \in 1 .. N /\ ((Less(G(n), K) /\ Less(k, K)) \/ (Less(K, G(n)) /\ Less(K, k)))
    OBVIOUS
  <2>1. n = LowerBound(k) - 1
    BY Zenon DEF Place
  <2>2. n \in 1 .. N
    BY <1>1, <2>1, Zenon DEF GoesLeft
  <2>3. (Less(G(n), K) /\ Less(k, K)) \/ (Less(K, G(n)) /\ Less(K, k))
    BY <2>1, ContradictingParent, Zenon
  <2>4. QED
    BY <2>2, <2>3
<1>6. ~GoesLeft(k) => /\ n <= N => Less(k, G(n))
                      /\ n > 1 => Less(G(n - 1), k)
  <2> SUFFICES ASSUME ~GoesLeft(k)
               PROVE  (n <= N => Less(k, G(n))) /\ (n > 1 => Less(G(n - 1), k))
    OBVIOUS
  <2>1. n = LowerBound(k)
    BY Zenon DEF Place
  <2>2. QED
    BY <1>1, <2>1, LowerBoundFacts DEF Found
<1> HIDE DEF N, n, G, H
<1>7. ASSUME NEW p \in 1 .. N, p < n PROVE Less(G(p), K) \/ Less(K, k)
  <2>1. CASE GoesLeft(k)
    BY <1>1, <1>3, <1>4, <1>5, <1>7, <2>1
  <2>2. CASE ~GoesLeft(k)
    <3>1. n - 1 \in 1 .. N /\ n > 1
      BY <1>1, <1>7
    <3>2. Less(G(n - 1), K) \/ Less(K, k)
      BY <1>1, <1>6, <2>2, <3>1, LessSplits
    <3>3. CASE p = n - 1
      BY <3>2, <3>3
    <3>4. CASE p < n - 1
      BY <1>3, <1>4, <3>1, <3>2, <3>4
    <3>5. QED
      BY <1>1, <1>7, <3>3, <3>4
  <2>3. QED
    BY <2>1, <2>2
<1>8. ASSUME NEW q \in 1 .. N, q >= n PROVE Less(k, K) \/ Less(K, G(q))
  <2>1. CASE GoesLeft(k)
    BY <1>1, <1>3, <1>4, <1>5, <1>8, <2>1
  <2>2. CASE ~GoesLeft(k)
    <3>1. n \in 1 .. N
      BY <1>1, <1>8
    <3>2. Less(k, K) \/ Less(K, G(n))
      BY <1>1, <1>6, <2>2, <3>1, LessSplits
    <3>3. CASE q = n
      BY <3>2, <3>3
    <3>4. CASE q > n
      BY <1>3, <1>4, <3>1, <3>2, <3>4
    <3>5. QED
      BY <1>1, <1>8, <3>3, <3>4
  <2>3. QED
    BY <2>1, <2>2
<1>9. ASSUME NEW p \in 1 .. N + 1, NEW q \in 1 .. N + 1, p < q
      PROVE  Less(H(p), K) \/ Less(K, H(q))
  <2>1. CASE q < n
    BY <1>1, <1>2, <1>3, <1>9, <2>1
  <2>2. CASE q = n
    BY <1>1, <1>2, <1>7, <1>9, <2>2
  <2>3. CASE p = n
    <3>1. q - 1 \in 1 .. N /\ q - 1 >= n /\ q > n
      BY <1>1, <1>9, <2>3
    <3>2. QED
      BY <1>2, <1>8, <2>3, <3>1
  <2>4. CASE p < n /\ q > n
    <3>1. q - 1 \in 1 .. N /\ p \in 1 .. N /\ p < q - 1
      BY <1>1, <1>9, <2>4
    <3>2. QED
      BY <1>2, <1>3, <2>4, <3>1
  <2>5. CASE p > n
    <3>1. q - 1 \in 1 .. N /\ p - 1 \in 1 .. N /\ p - 1 < q - 1 /\ q > n
      BY <1>1, <1>9, <2>5
    <3>2. QED
      BY <1>2, <1>3, <2>5, <3>1
  <2>6. QED
    BY <1>1, <1>9, <2>1, <2>2, <2>3, <2>4, <2>5
<1>10. QED
  BY <1>2, <1>9, Zenon DEF InOrderFor, N, H

\* Two entries are left of which one overwrites the third.
LEMMA OverwriteKeepsOrder ==
  ASSUME TypeOK, Balanced, NEW k \in Keys, NEW r \in Nat, Insert(k, r), Overwrites(k), NEW K \in Keys
  PROVE  InOrderFor(K)'
<1>1. /\ DOMAIN serviceMap' = 1 .. 2
      /\ serviceMap'[1] = [key |-> k, record |-> r] /\ serviceMap'[2] = serviceMap[2]
      /\ Less(k, serviceMap[2].key) /\ Len(serviceMap) = 2
  BY EntryIsOverwritten, Zenon
<1>2. serviceMap[2].key \in Keys
  BY <1>1, MapEntries
<1>3. Less(k, K) \/ Less(K, serviceMap[2].key)
  BY <1>1, <1>2, LessSplits
<1>4. serviceMap'[1].key = k /\ serviceMap'[2].key = serviceMap[2].key
  BY <1>1
<1>5. \A p, q \in 1 .. 2 : p < q => p = 1 /\ q = 2
  OBVIOUS
<1>6. QED
  BY <1>1, <1>3, <1>4, <1>5, Zenon DEF InOrderFor

\* What is left after an erasure is still in order.
LEMMA EraseKeepsOrder ==
  ASSUME TypeOK, Balanced, NEW n \in 1 .. Len(serviceMap), Erase(n),
         NEW K \in Keys, InOrderFor(K)
  PROVE  InOrderFor(K)'
<1> DEFINE N == Len(serviceMap)
           G(p) == serviceMap[p].key
           H(p) == serviceMap'[p].key
<1>1. N \in 1 .. 3 /\ DOMAIN serviceMap = 1 .. N
  BY EntryIsErased, MapEntries
<1>2. /\ DOMAIN serviceMap' = 1 .. N - 1
      /\ \A p \in 1 .. N - 1 : (p < n => H(p) = G(p)) /\ (p >= n => H(p) = G(p + 1))
  <2>1. DOMAIN serviceMap' = 1 .. N - 1 /\ HasOneLess(serviceMap, serviceMap', n)
    BY EntryIsErased, Zenon
  <2>2. QED
    BY <2>1, Zenon DEF HasOneLess
<1>3. \A p, q \in 1 .. N : p < q => Less(G(p), K) \/ Less(K, G(q))
  BY <1>1, Zenon DEF InOrderFor
<1>4. n \in 1 .. N
  OBVIOUS
<1> HIDE DEF N, G, H
<1>5. ASSUME NEW p \in 1 .. N - 1, NEW q \in 1 .. N - 1, p < q
      PROVE  Less(H(p), K) \/ Less(K, H(q))
  <2>1. PICK a \in 1 .. N : H(p) = G(a) /\ (p < n => a = p) /\ (p >= n => a = p + 1)
    BY <1>1, <1>2, <1>4
  <2>2. PICK b \in 1 .. N : H(q) = G(b) /\ (q < n => b = q) /\ (q >= n => b = q + 1)
    BY <1>1, <1>2, <1>4
  <2>3. a < b
    BY <1>1, <1>4, <1>5, <2>1, <2>2
  <2>4. QED
    BY <1>3, <2>1, <2>2, <2>3
<1>6. QED
  BY <1>2, <1>5, Zenon DEF InOrderFor, N, H

\* Hence the three things that happen to the map keep all that is said of it.
LEMMA InsertKeepsMap ==
  ASSUME TypeOK, MapInv, NEW k \in Keys, NEW r \in Nat, Insert(k, r), ~Found(k)
  PROVE  MapInv'
<1>1. Balanced /\ LostByContradiction /\ orphan' = orphan /\ orphan \in BOOLEAN
      /\ lost \subseteq [key : Keys, record : Nat]
  BY DEF MapInv, Insert
<1>2. CASE Overwrites(k)
  <2>1. /\ Len(serviceMap) = 2 /\ root' = 2
        /\ serviceMap' \in Seq(Entries) /\ Len(serviceMap') = 2
        /\ lost' = {serviceMap[1]}
        /\ Less(k, serviceMap[2].key) /\ Less(serviceMap[2].key, k)
    BY <1>1, <1>2, EntryIsOverwritten, Zenon
  <2>2. serviceMap[1] \in Entries /\ serviceMap[2].key \in Keys
    BY <2>1, MapEntries
  <2>3. /\ serviceMap' \in Seq([key : Keys, record : Nat])
        /\ Size' <= MaxEntries
        /\ root' \in (IF serviceMap' = <<>> THEN {0} ELSE DOMAIN serviceMap')
        /\ Balanced'
    BY <2>1, MapIsTree
  <2>4. LostByContradiction'
    BY <2>1, <2>2, Zenon DEF LostByContradiction, Contradicts
  <2>5. \A K \in Keys : InOrderFor(K)'
    BY <1>1, <1>2, OverwriteKeepsOrder, Zenon
  <2>6. lost' \subseteq [key : Keys, record : Nat]
    BY <2>1, <2>2, Zenon DEF Entries
  <2>7. QED
    BY <1>1, <2>3, <2>4, <2>5, <2>6, Zenon DEF MapInv
<1>3. CASE ~Overwrites(k)
  <2> DEFINE N == Len(serviceMap) + 1
  <2>1. /\ Len(serviceMap) \in 0 .. 2 /\ serviceMap' \in Seq(Entries) /\ Len(serviceMap') = N
        /\ root' \in 1 .. N /\ (N = 3 => root' = 2)
        /\ lost' = lost /\ (lost = {} \/ N \in 1 .. 2)
    BY <1>1, <1>3, EntryIsLinked, Zenon
  <2>2. \A K \in Keys : Orderly(K) => InOrderFor(K)'
    BY <1>1, <1>3, LinkKeepsOrder, Zenon DEF MapInv
  <2>3. N \in 0 .. 3 /\ N # 0 /\ (lost' = {} \/ N \in 0 .. 2)
    <3>1. \A n \in 0 .. 2 : n + 1 \in 0 .. 3 /\ n + 1 # 0 /\ (n + 1 \in 1 .. 2 => n + 1 \in 0 .. 2)
      OBVIOUS
    <3>2. QED
      BY <2>1, <3>1, Zenon
  <2> HIDE DEF N
  <2>4. /\ serviceMap' \in Seq([key : Keys, record : Nat])
        /\ Size' <= MaxEntries
        /\ root' \in (IF serviceMap' = <<>> THEN {0} ELSE DOMAIN serviceMap')
        /\ Balanced'
    BY <2>1, <2>3, MapIsTree
  <2>5. LostByContradiction'
    BY <1>1, <2>1, Zenon DEF LostByContradiction, Contradicts
  <2>6. QED
    BY <1>1, <2>1, <2>2, <2>4, <2>5, Zenon DEF MapInv, Orderly, Contradicts
<1>4. QED
  BY <1>2, <1>3

LEMMA EraseKeepsMap ==
  ASSUME TypeOK, MapInv, NEW n \in 1 .. Len(serviceMap), Erase(n)
  PROVE  MapInv'
<1> DEFINE N == Len(serviceMap) - 1
<1>1. /\ Balanced /\ LostByContradiction /\ lost' = lost
      /\ orphan' \in BOOLEAN /\ (orphan' => orphan \/ lost # {})
      /\ lost \subseteq [key : Keys, record : Nat]
  BY DEF MapInv, Erase
<1>2. /\ N \in 0 .. 2
      /\ serviceMap' \in Seq(Entries) /\ Len(serviceMap') = N
      /\ IF N = 0 THEN root' = 0 ELSE root' \in 1 .. N
  <2>1. /\ Len(serviceMap) \in 1 .. 3 /\ serviceMap' \in Seq(Entries) /\ Len(serviceMap') = N
        /\ IF Len(serviceMap) = 1 THEN root' = 0 ELSE root' \in 1 .. N
    BY <1>1, EntryIsErased, Zenon DEF HasOneLess
  <2>2. N \in 0 .. 2 /\ (N = 0 <=> Len(serviceMap) = 1)
    BY <2>1
  <2>3. QED
    BY <2>1, <2>2, Zenon
<1>3. \A K \in Keys : Orderly(K) => InOrderFor(K)'
  BY <1>1, EraseKeepsOrder DEF MapInv
<1> HIDE DEF N
<1>4. N \in 0 .. 3 /\ N # 3
  BY <1>2
<1>5. /\ serviceMap' \in Seq([key : Keys, record : Nat])
      /\ Size' <= MaxEntries
      /\ root' \in (IF serviceMap' = <<>> THEN {0} ELSE DOMAIN serviceMap')
      /\ Balanced'
  BY <1>2, <1>4, MapIsTree
<1>6. LostByContradiction'
  BY <1>1, Zenon DEF LostByContradiction, Contradicts
<1>7. QED
  BY <1>1, <1>3, <1>5, <1>6, Zenon DEF MapInv, Orderly, Contradicts

LEMMA SameMap ==
  ASSUME MapInv, UNCHANGED mapVars
  PROVE  MapInv'
  BY DEF MapInv, Balanced, InOrderFor, Orderly, Contradicts, Size, LostByContradiction, mapVars

\* What is in the map after an entry was linked, and after one was erased: the
\* entries at two places were at two places before, or one of them is new.
LEMMA LinkedEntries ==
  ASSUME TypeOK, Balanced, NEW k \in Keys, NEW r \in Nat, Insert(k, r), ~Overwrites(k)
  PROVE  /\ Range(serviceMap') = Range(serviceMap) \cup {[key |-> k, record |-> r]}
         /\ \A p, q \in DOMAIN serviceMap' : p # q =>
              \/ serviceMap'[p] = [key |-> k, record |-> r] /\ serviceMap'[q] \in Range(serviceMap)
              \/ serviceMap'[q] = [key |-> k, record |-> r] /\ serviceMap'[p] \in Range(serviceMap)
              \/ \E a, b \in DOMAIN serviceMap :
                   a # b /\ serviceMap'[p] = serviceMap[a] /\ serviceMap'[q] = serviceMap[b]
<1> DEFINE s == serviceMap
           t == serviceMap'
           N == Len(s)
           n == Place(k)
           e == [key |-> k, record |-> r]
<1>0. N \in Nat /\ DOMAIN s = 1 .. N /\ DOMAIN t = 1 .. N + 1 /\ n \in 1 .. N + 1
  <2>1. N \in 0 .. 2 /\ DOMAIN t = 1 .. N + 1 /\ n \in 1 .. N + 1
    BY EntryIsLinked, Zenon
  <2>2. DOMAIN s = 1 .. N
    BY MapEntries, Zenon
  <2>3. N \in Nat
    BY <2>1
  <2>4. QED
    BY <2>1, <2>2, <2>3, Zenon
<1>1. \A p \in 1 .. N + 1 : /\ p < n => t[p] = s[p]
                            /\ p = n => t[p] = e
                            /\ p > n => t[p] = s[p - 1]
  <2>1. HasOneMore(s, t, n, e)
    BY EntryIsLinked, Zenon
  <2> HIDE DEF s, t, n, e
  <2>2. QED
    BY <2>1, Zenon DEF HasOneMore
<1> HIDE DEF s, t, N, n, e
<1>2. \A p \in 1 .. N + 1 : \/ p = n /\ t[p] = e
                            \/ p < n /\ p \in 1 .. N /\ t[p] = s[p]
                            \/ p > n /\ p - 1 \in 1 .. N /\ t[p] = s[p - 1]
  BY <1>0, <1>1
<1>3. \A p \in 1 .. N + 1 : t[p] = e \/ \E q \in 1 .. N : t[p] = s[q]
  BY <1>2, Zenon
<1>4. \A q \in 1 .. N : \E p \in 1 .. N + 1 : t[p] = s[q]
  <2> SUFFICES ASSUME NEW q \in 1 .. N PROVE \E p \in 1 .. N + 1 : t[p] = s[q]
    OBVIOUS
  <2>1. CASE q < n
    BY <1>0, <1>1, <2>1
  <2>2. CASE q >= n
    <3>1. q + 1 \in 1 .. N + 1 /\ q + 1 > n /\ (q + 1) - 1 = q
      BY <1>0, <2>2
    <3>2. t[q + 1] = s[(q + 1) - 1]
      BY <1>1, <3>1, Zenon
    <3>3. QED
      BY <3>1, <3>2, Zenon
  <2>3. QED
    BY <1>0, <2>1, <2>2
<1>5. Range(t) = Range(s) \cup {e}
  <2>1. Range(t) \subseteq Range(s) \cup {e}
    BY <1>0, <1>3, Zenon DEF Range
  <2>2. e \in Range(t)
    BY <1>0, <1>1, Zenon DEF Range
  <2>3. Range(s) \subseteq Range(t)
    <3> SUFFICES ASSUME NEW x \in Range(s) PROVE x \in Range(t)
      OBVIOUS
    <3>1. PICK q \in 1 .. N : s[q] = x
      BY <1>0, Zenon DEF Range
    <3>2. PICK p \in 1 .. N + 1 : t[p] = x
      BY <1>4, <3>1, Zenon
    <3>3. QED
      BY <3>2, <1>0, Zenon DEF Range
  <2>4. QED
    BY <2>1, <2>2, <2>3, Zenon
<1>6. ASSUME NEW p \in DOMAIN t, NEW q \in DOMAIN t, p # q
      PROVE  \/ t[p] = e /\ t[q] \in Range(s)
             \/ t[q] = e /\ t[p] \in Range(s)
             \/ \E a, b \in DOMAIN s : a # b /\ t[p] = s[a] /\ t[q] = s[b]
  <2>1. CASE p = n
    <3>1. t[p] = e /\ \E b \in 1 .. N : t[q] = s[b]
      BY <1>0, <1>2, <1>6, <2>1
    <3>2. QED
      BY <3>1, <1>0, Zenon DEF Range
  <2>2. CASE q = n
    <3>1. t[q] = e /\ \E a \in 1 .. N : t[p] = s[a]
      BY <1>0, <1>2, <1>6, <2>2
    <3>2. QED
      BY <3>1, <1>0, Zenon DEF Range
  <2>3. CASE p # n /\ q # n
    <3>1. PICK a \in 1 .. N : t[p] = s[a] /\ (p < n => a = p) /\ (p > n => a = p - 1)
      BY <1>0, <1>2, <2>3
    <3>2. PICK b \in 1 .. N : t[q] = s[b] /\ (q < n => b = q) /\ (q > n => b = q - 1)
      BY <1>0, <1>2, <2>3
    <3>3. a # b
      BY <1>0, <1>6, <2>3, <3>1, <3>2
    <3>4. QED
      BY <1>0, <3>1, <3>2, <3>3
  <2>4. QED
    BY <2>1, <2>2, <2>3
<1>7. QED
  BY <1>5, <1>6, Zenon DEF s, t, e

LEMMA RemainingEntries ==
  ASSUME TypeOK, Balanced, NEW n \in 1 .. Len(serviceMap), Erase(n)
  PROVE  /\ \A p \in DOMAIN serviceMap' : \E a \in DOMAIN serviceMap :
              a # n /\ serviceMap'[p] = serviceMap[a]
         /\ \A a \in DOMAIN serviceMap : a # n => serviceMap[a] \in Range(serviceMap')
         /\ \A p, q \in DOMAIN serviceMap' : p # q => \E a, b \in DOMAIN serviceMap :
              a # b /\ serviceMap'[p] = serviceMap[a] /\ serviceMap'[q] = serviceMap[b]
<1> DEFINE s == serviceMap
           t == serviceMap'
           N == Len(s)
<1>0. N \in Nat /\ DOMAIN s = 1 .. N /\ DOMAIN t = 1 .. N - 1 /\ n \in 1 .. N
  BY EntryIsErased, MapEntries
<1>1. \A p \in 1 .. N - 1 : (p < n => t[p] = s[p]) /\ (p >= n => t[p] = s[p + 1])
  BY EntryIsErased, Zenon DEF HasOneLess
<1> HIDE DEF s, t, N
<1>2. \A p \in 1 .. N - 1 : \/ p < n /\ p \in 1 .. N /\ t[p] = s[p]
                            \/ p + 1 > n /\ p + 1 \in 1 .. N /\ t[p] = s[p + 1]
  BY <1>0, <1>1
<1>3. \A p \in DOMAIN t : \E a \in DOMAIN s : a # n /\ t[p] = s[a]
  BY <1>0, <1>2
<1>4. \A a \in DOMAIN s : a # n => s[a] \in Range(t)
  <2> SUFFICES ASSUME NEW a \in DOMAIN s, a # n PROVE \E p \in 1 .. N - 1 : t[p] = s[a]
    BY <1>0, Zenon DEF Range
  <2>1. CASE a < n
    BY <1>0, <1>1, <2>1
  <2>2. CASE a > n
    <3>1. a - 1 \in 1 .. N - 1 /\ a - 1 >= n /\ a - 1 + 1 = a
      BY <1>0, <2>2
    <3>2. QED
      BY <1>1, <3>1
  <2>3. QED
    BY <1>0, <2>1, <2>2
<1>5. ASSUME NEW p \in DOMAIN t, NEW q \in DOMAIN t, p # q
      PROVE  \E a, b \in DOMAIN s : a # b /\ t[p] = s[a] /\ t[q] = s[b]
  <2>1. PICK a \in 1 .. N : t[p] = s[a] /\ (p < n => a = p) /\ (p >= n => a = p + 1)
    BY <1>0, <1>1, <1>2
  <2>2. PICK b \in 1 .. N : t[q] = s[b] /\ (q < n => b = q) /\ (q >= n => b = q + 1)
    BY <1>0, <1>1, <1>2
  <2>3. a # b
    BY <1>0, <1>5, <2>1, <2>2
  <2>4. QED
    BY <1>0, <2>1, <2>2, <2>3
<1>6. QED
  BY <1>3, <1>4, <1>5, Zenon DEF s, t

\* The entries that are in the map, or lost, and each record once.
LEMMA InsertedRange ==
  ASSUME TypeOK, Balanced, NEW k \in Keys, NEW r \in Nat, Insert(k, r), EachOnce,
         UNCHANGED abandoned,
         r = NULL \/ \A x \in Range(serviceMap) \cup lost \cup abandoned : x.record # r
  PROVE  /\ Range(serviceMap') \cup lost' = Range(serviceMap) \cup lost \cup {[key |-> k, record |-> r]}
         /\ EachOnce'
<1> DEFINE e == [key |-> k, record |-> r]
           s == serviceMap
           t == serviceMap'
<1>1. /\ Range(t) \cup lost' = Range(s) \cup lost \cup {e}
      /\ \A p \in DOMAIN t : t[p] = e \/ t[p] \in Range(s)
      /\ \A p, q \in DOMAIN t : p # q =>
              \/ t[p] = e /\ t[q] \in Range(s)
              \/ t[q] = e /\ t[p] \in Range(s)
              \/ \E a, b \in DOMAIN s : a # b /\ t[p] = s[a] /\ t[q] = s[b]
      /\ \A x \in lost' : \/ x \in lost
                          \/ \A p \in DOMAIN t :
                               \/ t[p] = e /\ x \in Range(s)
                               \/ \E a, b \in DOMAIN s : a # b /\ x = s[a] /\ t[p] = s[b]
  <2>1. CASE Overwrites(k)
    <3>1. /\ DOMAIN t = 1 .. 2 /\ t[1] = e /\ t[2] = s[2] /\ Len(s) = 2
          /\ lost = {} /\ lost' = {s[1]}
      BY <2>1, EntryIsOverwritten, Zenon
    <3>2. DOMAIN s = 1 .. 2
      BY <3>1, MapEntries
    <3>3. 1 \in 1 .. 2 /\ 2 \in 1 .. 2 /\ 1 # 2 /\ \A p \in 1 .. 2 : p = 1 \/ p = 2
      OBVIOUS
    <3> HIDE DEF e, s, t
    <3>4. Range(t) = {e, s[2]} /\ Range(s) = {s[1], s[2]}
      BY <3>1, <3>2, <3>3, Zenon DEF Range
    <3>5. Range(t) \cup lost' = Range(s) \cup lost \cup {e}
      BY <3>1, <3>4, Zenon
    <3>6. \A x \in lost' : \A p \in DOMAIN t :
             \/ t[p] = e /\ x \in Range(s)
             \/ \E a, b \in DOMAIN s : a # b /\ x = s[a] /\ t[p] = s[b]
      BY <3>1, <3>2, <3>3, <3>4, Zenon
    <3>7. \A p, q \in DOMAIN t : p # q =>
             (t[p] = e /\ t[q] \in Range(s)) \/ (t[q] = e /\ t[p] \in Range(s))
      BY <3>1, <3>3, <3>4, Zenon
    <3>8. \A p \in DOMAIN t : t[p] = e \/ t[p] \in Range(s)
      BY <3>1, <3>3, <3>4, Zenon
    <3>9. QED
      BY <3>5, <3>6, <3>7, <3>8, Zenon
  <2>2. CASE ~Overwrites(k)
    <3>1. lost' = lost
      BY <2>2, EntryIsLinked, Zenon
    <3>2. /\ Range(t) = Range(s) \cup {e}
          /\ \A p, q \in DOMAIN t : p # q =>
               \/ t[p] = e /\ t[q] \in Range(s)
               \/ t[q] = e /\ t[p] \in Range(s)
               \/ \E a, b \in DOMAIN s : a # b /\ t[p] = s[a] /\ t[q] = s[b]
      BY <2>2, LinkedEntries, Zenon
    <3> HIDE DEF e, s, t
    <3>3. \A p \in DOMAIN t : t[p] \in Range(t)
      BY Zenon DEF Range
    <3>4. Range(t) \cup lost' = Range(s) \cup lost \cup {e}
      BY <3>1, <3>2, Zenon
    <3>5. QED
      BY <3>1, <3>2, <3>3, <3>4, Zenon
  <2>3. QED
    BY <2>1, <2>2
<1>2. e.record = r
  OBVIOUS
<1>3. \A p \in DOMAIN s : s[p] \in Range(s)
  BY Zenon DEF Range
<1>4. /\ \A p, q \in DOMAIN s : s[p].record # NULL /\ s[p].record = s[q].record => p = q
      /\ \A p \in DOMAIN s : s[p].record # NULL => \A x \in lost \cup abandoned : x.record # s[p].record
  BY Zenon DEF EachOnce
<1> HIDE DEF e, s, t
<1>5. \A y \in Range(s) : \E p \in DOMAIN s : y = s[p]
  BY Zenon DEF Range
<1>6. r # NULL => \A x \in Range(s) \cup lost \cup abandoned : x.record # r
  BY Zenon DEF s
<1>7. ASSUME NEW p \in DOMAIN t, t[p].record # NULL, NEW q \in DOMAIN t, t[p].record = t[q].record
      PROVE  p = q
  <2> SUFFICES ASSUME p # q PROVE FALSE
    OBVIOUS
  <2>1. ~(t[p] = e /\ t[q] \in Range(s)) /\ ~(t[q] = e /\ t[p] \in Range(s))
    BY <1>2, <1>6, <1>7, Zenon
  <2>2. PICK a \in DOMAIN s, b \in DOMAIN s : a # b /\ t[p] = s[a] /\ t[q] = s[b]
    BY <1>1, <2>1, Zenon
  <2>3. QED
    BY <1>4, <1>7, <2>2, Zenon
<1>8. ASSUME NEW p \in DOMAIN t, t[p].record # NULL, NEW x \in lost' \cup abandoned
      PROVE  x.record # t[p].record
  <2>1. CASE x \in lost \cup abandoned
    <3>1. CASE t[p] = e
      BY <1>2, <1>6, <1>8, <2>1, <3>1, Zenon
    <3>2. CASE t[p] # e
      <4>1. t[p] \in Range(s)
        BY <1>1, <3>2, Zenon
      <4>2. PICK a \in DOMAIN s : t[p] = s[a]
        BY <1>5, <4>1, Zenon
      <4>3. QED
        BY <1>4, <1>8, <2>1, <4>2, Zenon
    <3>3. QED
      BY <3>1, <3>2
  <2>2. CASE x \notin lost \cup abandoned
    <3>1. \/ t[p] = e /\ x \in Range(s)
          \/ \E a, b \in DOMAIN s : a # b /\ x = s[a] /\ t[p] = s[b]
      BY <1>1, <2>2, Zenon
    <3>2. QED
      BY <1>2, <1>4, <1>6, <1>8, <3>1, Zenon
  <2>3. QED
    BY <2>1, <2>2
<1>9. EachOnce'
  BY <1>7, <1>8, Zenon DEF EachOnce, t
<1>10. QED
  BY <1>1, <1>9, Zenon DEF s, t, e

LEMMA ErasedRange ==
  ASSUME TypeOK, Balanced, EachOnce, NEW n \in 1 .. Len(serviceMap), Erase(n),
         serviceMap[n].record # NULL,
         UNCHANGED abandoned \/ abandoned' = abandoned \cup {serviceMap[n]}
  PROVE  /\ Held' = {x \in Held : x.record # serviceMap[n].record}
         /\ Range(serviceMap') \cup lost' \subseteq Range(serviceMap) \cup lost
         /\ serviceMap[n] \in Held
         /\ EachOnce'
<1> DEFINE s == serviceMap
           t == serviceMap'
<1>1. n \in DOMAIN s /\ lost' = lost
  BY MapEntries, Zenon DEF Erase
<1>2. /\ \A p, q \in DOMAIN s : s[p].record # NULL /\ s[p].record = s[q].record => p = q
      /\ \A p \in DOMAIN s : s[p].record # NULL => \A x \in lost \cup abandoned : x.record # s[p].record
  BY Zenon DEF EachOnce
<1>3. /\ \A p \in DOMAIN t : \E a \in DOMAIN s : a # n /\ t[p] = s[a]
      /\ \A a \in DOMAIN s : a # n => s[a] \in Range(t)
      /\ \A p, q \in DOMAIN t : p # q =>
           \E a, b \in DOMAIN s : a # b /\ t[p] = s[a] /\ t[q] = s[b]
  BY RemainingEntries, Zenon
<1> HIDE DEF s, t
<1>4. n \in DOMAIN s /\ s[n].record # NULL /\ s[n] \in Range(s)
  BY <1>1, Zenon DEF s, Range
<1>5. ASSUME NEW x \in Range(t)
      PROVE  x \in Range(s) /\ (x.record # NULL => x.record # s[n].record)
  <2>1. PICK p \in DOMAIN t : x = t[p]
    BY Zenon DEF Range
  <2>2. PICK a \in DOMAIN s : a # n /\ x = s[a]
    BY <1>3, <2>1, Zenon
  <2>3. QED
    BY <1>2, <1>4, <2>2, Zenon DEF Range
<1>6. \A x \in Range(s) : x.record # s[n].record => x \in Range(t)
  BY <1>3, Zenon DEF Range
<1>7. \A x \in lost : x.record # s[n].record
  BY <1>2, <1>4, Zenon
<1>8. {x \in Range(t) \cup lost : x.record # NULL}
        = {x \in {y \in Range(s) \cup lost : y.record # NULL} : x.record # s[n].record}
  BY <1>5, <1>6, <1>7, Zenon
<1>9. EachOnce'
  <2>1. ASSUME NEW p \in DOMAIN t, t[p].record # NULL, NEW q \in DOMAIN t, t[p].record = t[q].record
        PROVE  p = q
    <3> SUFFICES ASSUME p # q PROVE FALSE
      OBVIOUS
    <3>1. PICK a \in DOMAIN s, b \in DOMAIN s : a # b /\ t[p] = s[a] /\ t[q] = s[b]
      BY <1>3, Zenon
    <3>2. QED
      BY <1>2, <2>1, <3>1, Zenon
  <2>2. ASSUME NEW p \in DOMAIN t, t[p].record # NULL, NEW x \in lost' \cup abandoned'
        PROVE  x.record # t[p].record
    <3>1. x \in lost \cup abandoned \/ x = s[n]
      BY <1>1, Zenon DEF s
    <3>2. PICK a \in DOMAIN s : a # n /\ t[p] = s[a]
      BY <1>3, Zenon
    <3>3. QED
      BY <1>2, <1>4, <2>2, <3>1, <3>2, Zenon
  <2>3. QED
    BY <2>1, <2>2, Zenon DEF EachOnce, t
<1>10. QED
  BY <1>1, <1>4, <1>5, <1>8, <1>9, Zenon DEF Held, s, t

-----------------------------------------------------------------------------
(* The steps of the registrer *)

OtherTypes ==
  /\ session \in {"none", "open", "closed"}
  /\ registered \in Nat
  /\ daemon \subseteq [key : Keys, record : 1 .. registered]
  /\ abandoned \subseteq [key : Keys, record : Nat]
  /\ process \in {"running", "exited", "crashed"}

RecordsBounded ==
  \A x \in Range(serviceMap) \cup lost \cup abandoned : x.record <= registered

\* The parts of the invariant; the map is looked after above.
LEMMA RegistrerParts ==
  /\ RegistrerInv <=> /\ MapInv /\ OtherTypes /\ RecordsBounded
                      /\ EachOnce /\ DaemonHasMap /\ CrashHasCause
  /\ RegistrerInv => TypeOK /\ Balanced
  BY DEF RegistrerInv, MapInv, TypeOK, OtherTypes, RecordsBounded

LEMMA RegistrerPartsPrimed ==
  ASSUME MapInv', OtherTypes', RecordsBounded', EachOnce', DaemonHasMap', CrashHasCause'
  PROVE  RegistrerInv'
  BY DEF RegistrerInv, MapInv, TypeOK, OtherTypes, RecordsBounded

\* The records are those that have been made so far, or NULL.
LEMMA RecordNumbers ==
  ASSUME RegistrerInv
  PROVE  /\ registered \in Nat
         /\ \A x \in Range(serviceMap) \cup lost \cup abandoned :
              x.record \in Nat /\ x.record <= registered
         /\ \A x \in daemon : x.key \in Keys /\ x.record \in 1 .. registered
<1>1. MapInv /\ OtherTypes /\ RecordsBounded /\ TypeOK
  BY RegistrerParts
<1>2. \A x \in Range(serviceMap) : x.record \in Nat
  BY <1>1, MapEntries, Zenon DEF Range
<1>3. \A x \in lost \cup abandoned : x.record \in Nat
  BY <1>1 DEF MapInv, OtherTypes
<1>4. QED
  BY <1>1, <1>2, <1>3 DEF OtherTypes, RecordsBounded

\* registerRecord() succeeds: its record is newer than any other.
LEMMA RegisterStep ==
  ASSUME RegistrerInv, process = "running", NEW k \in Keys, Register(k)
  PROVE  RegistrerInv'
<1> DEFINE r == registered + 1
           e == [key |-> k, record |-> r]
<1>1. /\ MapInv /\ OtherTypes /\ RecordsBounded /\ EachOnce /\ DaemonHasMap /\ CrashHasCause
      /\ TypeOK /\ Balanced
  BY RegistrerParts
<1>2. /\ registered \in Nat /\ r \in Nat /\ registered' = r
      /\ daemon' = daemon \cup {e} /\ Insert(k, r) /\ ~Found(k)
      /\ session' = "open" /\ session # "closed" /\ UNCHANGED <<abandoned, process>>
  BY <1>1 DEF Register, OtherTypes
<1>3. MapInv'
  BY <1>1, <1>2, InsertKeepsMap, Zenon
<1>4. \A x \in Range(serviceMap) \cup lost \cup abandoned : x.record # r /\ x.record <= r
  BY RecordNumbers
<1>5. Range(serviceMap') \cup lost' = Range(serviceMap) \cup lost \cup {e} /\ EachOnce'
  BY <1>1, <1>2, <1>4, InsertedRange, Zenon
<1>6. e.record = r /\ e.record # NULL /\ r <= r /\ e \in [key : Keys, record : 1 .. r]
  BY <1>2 DEF NULL
<1>7. daemon \subseteq [key : Keys, record : 1 .. r]
  BY <1>1 DEF OtherTypes
<1> HIDE DEF r, e
<1>8. OtherTypes'
  BY <1>1, <1>2, <1>6, <1>7 DEF OtherTypes
<1>9. RecordsBounded'
  <2>1. \A x \in Range(serviceMap') \cup lost' \cup abandoned : x.record <= r
    BY <1>4, <1>5, <1>6, Zenon
  <2>2. QED
    BY <1>2, <2>1, Zenon DEF RecordsBounded
<1>10. DaemonHasMap'
  <2>1. daemon = Held \cup abandoned
    BY <1>1, <1>2, Zenon DEF DaemonHasMap
  <2>2. Held' = Held \cup {e}
    BY <1>5, <1>6, Zenon DEF Held
  <2>3. daemon' = Held' \cup abandoned'
    BY <1>2, <2>1, <2>2, Zenon
  <2>4. QED
    BY <1>2, <2>3 DEF DaemonHasMap
<1>11. CrashHasCause'
  BY <1>2 DEF CrashHasCause
<1>12. QED
  BY <1>3, <1>5, <1>8, <1>9, <1>10, <1>11, RegistrerPartsPrimed, Zenon

\* A registration that fails may leave an entry without a record.
LEMMA FailingStep ==
  ASSUME RegistrerInv, process = "running", NEW k \in Keys, ConnectFails(k) \/ RegisterFails(k)
  PROVE  RegistrerInv'
<1> DEFINE e == [key |-> k, record |-> NULL]
<1>1. /\ MapInv /\ OtherTypes /\ RecordsBounded /\ EachOnce /\ DaemonHasMap
      /\ TypeOK /\ Balanced
  BY RegistrerParts
<1>2. /\ UNCHANGED <<registered, process, abandoned>> /\ ~Found(k)
      /\ Insert(k, NULL) \/ UNCHANGED mapVars
  BY DEF ConnectFails, RegisterFails, Throws
<1>3. \/ session = "none" /\ UNCHANGED <<session, daemon>>
      \/ session' = "closed" /\ daemon' = {}
  BY DEF ConnectFails, RegisterFails
<1>4. registered \in Nat /\ NULL \in Nat /\ e.record = NULL /\ NULL <= registered
  BY RecordNumbers DEF NULL
<1>5. /\ MapInv' /\ EachOnce'
      /\ \/ Range(serviceMap') \cup lost' = Range(serviceMap) \cup lost \cup {e}
         \/ Range(serviceMap') \cup lost' = Range(serviceMap) \cup lost
  <2>1. CASE Insert(k, NULL)
    <3>1. MapInv'
      BY <1>1, <1>2, <1>4, <2>1, InsertKeepsMap, Zenon
    <3>2. Range(serviceMap') \cup lost' = Range(serviceMap) \cup lost \cup {e} /\ EachOnce'
      BY <1>1, <1>2, <1>4, <2>1, InsertedRange, Zenon
    <3>3. QED
      BY <3>1, <3>2
  <2>2. CASE UNCHANGED mapVars
    <3>1. MapInv'
      BY <1>1, <2>2, SameMap
    <3>2. UNCHANGED <<serviceMap, lost, abandoned>>
      BY <1>2, <2>2 DEF mapVars
    <3>3. EachOnce'
      BY <1>1, <3>2 DEF EachOnce
    <3>4. QED
      BY <3>1, <3>2, <3>3
  <2>3. QED
    BY <1>2, <2>1, <2>2
<1> HIDE DEF e
<1>6. Held' = Held
  BY <1>4, <1>5, Zenon DEF Held
<1>7. OtherTypes'
  BY <1>1, <1>2, <1>3 DEF OtherTypes
<1>8. RecordsBounded'
  BY <1>1, <1>2, <1>4, <1>5, Zenon DEF RecordsBounded
<1>9. DaemonHasMap'
  BY <1>1, <1>2, <1>3, <1>6 DEF DaemonHasMap
<1>10. CrashHasCause'
  BY <1>2 DEF CrashHasCause
<1>11. QED
  BY <1>5, <1>7, <1>8, <1>9, <1>10, RegistrerPartsPrimed, Zenon

\* What is erased is what was found: the daemon gives up its record, or it is
\* abandoned.
LEMMA UnregisterStep ==
  ASSUME RegistrerInv, process = "running", NEW k \in Keys, Unregister(k) \/ UnregisterFails(k)
  PROVE  RegistrerInv'
<1> DEFINE n == LowerBound(k)
           e == serviceMap[n]
<1>1. /\ MapInv /\ OtherTypes /\ RecordsBounded /\ EachOnce /\ DaemonHasMap
      /\ TypeOK /\ Balanced
  BY RegistrerParts
<1>2. /\ UNCHANGED <<registered, process, session>> /\ Found(k) /\ Erase(n)
      /\ \/ /\ e.record # NULL
            /\ daemon' = {x \in daemon : x.record # e.record} /\ abandoned' = abandoned
         \/ /\ \E x \in daemon : x.record = e.record
            /\ session = "open"
            /\ daemon' = daemon /\ abandoned' = abandoned \cup {e}
  BY Zenon DEF Unregister, UnregisterFails, Entry, HasRecord
<1>3. n \in 1 .. Len(serviceMap)
  BY <1>1, <1>2, FoundIsIt
<1>4. e.record # NULL
  BY <1>2, RecordNumbers DEF NULL
<1>5. MapInv'
  BY <1>1, <1>2, <1>3, EraseKeepsMap, Zenon
<1>6. /\ Held' = {x \in Held : x.record # e.record} /\ e \in Held
      /\ Range(serviceMap') \cup lost' \subseteq Range(serviceMap) \cup lost
      /\ EachOnce'
  BY <1>1, <1>2, <1>3, <1>4, ErasedRange, Zenon
<1>7. e \in Range(serviceMap) /\ e \in Entries
  BY <1>1, <1>3, MapEntries, Zenon DEF Range
<1>8. \A x \in abandoned : x.record # e.record
  BY <1>1, <1>3, <1>4, MapEntries, Zenon DEF EachOnce
<1>9. \A x \in Held : x.record = e.record => x = e
  <2> SUFFICES ASSUME NEW x \in Range(serviceMap) \cup lost, x.record = e.record PROVE x = e
    BY Zenon DEF Held
  <2>1. n \in DOMAIN serviceMap
    BY <1>1, <1>3, MapEntries, Zenon
  <2>2. x \notin lost
    BY <1>1, <1>4, <2>1, Zenon DEF EachOnce
  <2>3. PICK p \in DOMAIN serviceMap : x = serviceMap[p]
    BY <2>2, Zenon DEF Range
  <2>4. QED
    BY <1>1, <1>4, <2>1, <2>3, Zenon DEF EachOnce
<1> HIDE DEF e, n
<1>10. OtherTypes'
  BY <1>1, <1>2, <1>7 DEF OtherTypes, Entries
<1>11. RecordsBounded'
  BY <1>1, <1>2, <1>6, <1>7, Zenon DEF RecordsBounded
<1>12. DaemonHasMap'
  <2>1. CASE session = "closed"
    <3>1. daemon = {}
      BY <1>1, <2>1 DEF DaemonHasMap
    <3>2. daemon' = {} /\ session' = "closed"
      BY <1>2, <2>1, <3>1
    <3>3. QED
      BY <3>2 DEF DaemonHasMap
  <2>2. CASE session # "closed"
    <3>1. daemon = Held \cup abandoned
      BY <1>1, <2>2 DEF DaemonHasMap
    <3>2. daemon' = Held' \cup abandoned'
      BY <1>2, <1>6, <1>8, <1>9, <3>1, Zenon
    <3>3. QED
      BY <1>2, <2>2, <3>2 DEF DaemonHasMap
  <2>3. QED
    BY <2>1, <2>2
<1>13. CrashHasCause'
  BY <1>2 DEF CrashHasCause
<1>14. QED
  BY <1>5, <1>6, <1>10, <1>11, <1>12, <1>13, RegistrerPartsPrimed, Zenon

\* While the session is open, no entry is NULL and none is lost, whatever is
\* looked up or comes by in the destructor has a record of the daemon's.
LEMMA NothingUndefined ==
  ASSUME RegistrerInv, process = "running", session # "closed", lost = {},
         \A x \in Range(serviceMap) : x.record # NULL
  PROVE  ~Undefined
<1>1. MapInv /\ DaemonHasMap /\ TypeOK
  BY RegistrerParts
<1>2. \A x \in Range(serviceMap) : x \in daemon
  BY <1>1, Zenon DEF DaemonHasMap, Held
<1>3. \A x \in Range(serviceMap) : HasRecord(x)
  BY <1>2, Zenon DEF HasRecord
<1>4. \A k \in Keys : Found(k) => HasRecord(Entry(k))
  BY <1>3, Zenon DEF Found, Entry, Range
<1>5. ~orphan
  BY <1>1, Zenon DEF MapInv, LostByContradiction
<1>6. \A k \in Keys : ~ReadsHeader(k)
  BY Zenon DEF ReadsHeader
<1>7. Visited = Range(serviceMap)
  BY Zenon DEF Visited
<1>8. QED
  BY <1>3, <1>4, <1>5, <1>6, <1>7, Zenon DEF Undefined

\* The process ends, and with it what it has registered.
LEMMA EndingStep ==
  ASSUME RegistrerInv, process = "running", Crash \/ Exit
  PROVE  RegistrerInv'
<1>1. MapInv /\ OtherTypes /\ RecordsBounded /\ EachOnce
  BY RegistrerParts
<1>2. /\ UNCHANGED <<mapVars, registered, abandoned>> /\ daemon' = {}
      /\ session' \in {"none", "open", "closed"} /\ process' \in {"exited", "crashed"}
  BY <1>1 DEF Crash, Exit, OtherTypes
<1>3. UNCHANGED <<serviceMap, lost>>
  BY <1>2 DEF mapVars
<1>4. CrashHasCause'
  <2>1. CASE Crash
    <3>1. session = "closed" \/ lost # {} \/ \E x \in Range(serviceMap) : x.record = NULL
      BY <2>1, NothingUndefined, Zenon DEF Crash
    <3>2. session' = session
      BY <2>1, Zenon DEF Crash
    <3>3. QED
      BY <1>3, <3>1, <3>2, Zenon DEF CrashHasCause
  <2>2. CASE Exit
    BY <2>2 DEF Exit, CrashHasCause
  <2>3. QED
    BY <2>1, <2>2
<1>5. MapInv'
  BY <1>1, <1>2, SameMap
<1>6. OtherTypes' /\ DaemonHasMap'
  BY <1>1, <1>2 DEF OtherTypes, DaemonHasMap
<1>7. RecordsBounded' /\ EachOnce'
  BY <1>1, <1>2, <1>3 DEF RecordsBounded, EachOnce
<1>8. QED
  BY <1>4, <1>5, <1>6, <1>7, RegistrerPartsPrimed, Zenon

\* Nothing happens.
LEMMA NoStep ==
  ASSUME RegistrerInv, UNCHANGED vars
  PROVE  RegistrerInv'
<1>1. /\ MapInv /\ OtherTypes /\ RecordsBounded /\ EachOnce /\ DaemonHasMap /\ CrashHasCause
  BY RegistrerParts
<1>2. MapInv'
  BY <1>1, SameMap DEF vars, mapVars
<1>3. OtherTypes' /\ RecordsBounded' /\ EachOnce'
  BY <1>1 DEF vars, OtherTypes, RecordsBounded, EachOnce
<1>4. DaemonHasMap' /\ CrashHasCause'
  BY <1>1 DEF vars, DaemonHasMap, CrashHasCause, Held
<1>5. QED
  BY <1>2, <1>3, <1>4, RegistrerPartsPrimed, Zenon

(***************************************************************************)
(* For any set of uuids, however they contradict one another: as long as   *)
(* the session of ServiceRegistrer (src/ServiceRegistrer.cpp) is not       *)
(* closed, the daemon has the records of the map's entries and those it    *)
(* has refused to give up, whatever else has failed; entries are lost only *)
(* by contradictory uuids; the map stays in order for every uuid that      *)
(* operator< (include/ServiceRegistrer.h) can order; and undefined         *)
(* behaviour takes a closed session, a NULL or a lost entry.               *)
(***************************************************************************)
THEOREM RegistrerCorrect == SafeSpec => []RegistrerInv
<1>1. Init => RegistrerInv
  <2> SUFFICES ASSUME Init PROVE RegistrerInv
    OBVIOUS
  <2>1. /\ serviceMap = <<>> /\ Len(serviceMap) = 0 /\ DOMAIN serviceMap = {}
        /\ serviceMap \in Seq([key : Keys, record : Nat]) /\ Range(serviceMap) = {}
    <3>1. serviceMap = <<>> /\ Len(serviceMap) = 0 /\ serviceMap \in Seq([key : Keys, record : Nat])
      BY EmptySeq DEF Init
    <3>2. DOMAIN serviceMap = {}
      BY <3>1
    <3>3. QED
      BY <3>1, <3>2, Zenon DEF Range
  <2>2. MapInv
    <3>1. Size <= MaxEntries /\ Balanced
      BY <2>1 DEF Size, MaxEntries, Balanced
    <3>2. LostByContradiction /\ lost \subseteq [key : Keys, record : Nat] /\ orphan \in BOOLEAN
      BY Zenon DEF Init, LostByContradiction
    <3>3. root \in (IF serviceMap = <<>> THEN {0} ELSE DOMAIN serviceMap)
      BY DEF Init
    <3>4. \A k \in Keys : InOrderFor(k)
      BY <2>1, Zenon DEF InOrderFor
    <3>5. QED
      BY <2>1, <3>1, <3>2, <3>3, <3>4, Zenon DEF MapInv
  <2>3. OtherTypes /\ RecordsBounded /\ EachOnce /\ CrashHasCause
    BY <2>1 DEF Init, OtherTypes, RecordsBounded, EachOnce, CrashHasCause
  <2>4. DaemonHasMap
    BY <2>1 DEF Init, DaemonHasMap, Held
  <2>5. QED
    BY <2>2, <2>3, <2>4, RegistrerParts
<1>2. RegistrerInv /\ [Next]_vars => RegistrerInv'
  BY RegisterStep, FailingStep, UnregisterStep, EndingStep, NoStep DEF Next
<1>3. QED
  BY <1>1, <1>2, PTL DEF SafeSpec

(***************************************************************************)
(* registerService() (src/ServiceRegistrer.cpp) registers a uuid that      *)
(* operator< can order only once, unless the daemon has refused to         *)
(* unregister it or an insertion of contradictory uuids has overwritten    *)
(* its entry.                                                              *)
(***************************************************************************)
THEOREM OrderlyKeysOnce == SafeSpec => []TwiceOnlyIfContradictory
<1>1. RegistrerInv => TwiceOnlyIfContradictory
  <2> SUFFICES ASSUME RegistrerInv, NEW x \in daemon, NEW y \in daemon, x.key = y.key, x # y,
                      Orderly(x.key), \A z \in lost \cup abandoned : z.key # x.key
               PROVE  FALSE
    BY Zenon DEF TwiceOnlyIfContradictory
  <2>1. DaemonHasMap /\ x.key \in Keys /\ InOrderFor(x.key) /\ TypeOK
    BY Zenon DEF RegistrerInv, Orderly
  <2>2. x \in Range(serviceMap) /\ y \in Range(serviceMap)
    BY <2>1, Zenon DEF DaemonHasMap, Held
  <2>3. PICK p \in DOMAIN serviceMap : serviceMap[p] = x
    BY <2>2, Zenon DEF Range
  <2>4. PICK q \in DOMAIN serviceMap : serviceMap[q] = y
    BY <2>2, Zenon DEF Range
  <2>5. ~Less(x.key, x.key)
    BY <2>1, NotLessThanItself
  <2>6. ~(p < q) /\ ~(q < p)
    BY <2>1, <2>3, <2>4, <2>5, Zenon DEF InOrderFor
  <2>7. p \in Nat /\ q \in Nat
    BY <2>1, MapEntries
  <2>8. QED
    BY <2>3, <2>4, <2>6, <2>7
<1>2. QED
  BY <1>1, RegistrerCorrect, PTL

(***************************************************************************)
(* unregisterService() (src/ServiceRegistrer.cpp) takes no other service   *)
(* off the daemon than the one it was asked to, for any set of uuids.      *)
(***************************************************************************)
THEOREM UnregistersNoOther == SafeSpec => UnregistersOnlyItself
<1>1. RegistrerInv => [\A k \in Keys : Unregister(k) => \A x \in daemon \ daemon' : x.key = k]_vars
  <2> SUFFICES ASSUME RegistrerInv, NEW k \in Keys, Unregister(k), NEW x \in daemon \ daemon'
               PROVE  x.key = k
    BY Zenon
  <2> DEFINE n == LowerBound(k)
  <2>1. n \in 1 .. Len(serviceMap) /\ serviceMap[n].key = k
    BY RegistrerParts, FoundIsIt DEF Unregister
  <2>2. n \in DOMAIN serviceMap
    BY <2>1, RegistrerParts, MapEntries
  <2>3. x \in daemon /\ x.record = serviceMap[n].record /\ serviceMap[n].record # NULL
    BY Zenon DEF Unregister, Entry
  <2>4. EachOnce /\ DaemonHasMap
    BY RegistrerParts
  <2> HIDE DEF n
  <2>5. x \in Range(serviceMap) \cup lost \cup abandoned
    BY <2>3, <2>4, Zenon DEF DaemonHasMap, Held
  <2>6. x \in Range(serviceMap)
    BY <2>2, <2>3, <2>4, <2>5, Zenon DEF EachOnce
  <2>7. PICK p \in DOMAIN serviceMap : serviceMap[p] = x
    BY <2>6, Zenon DEF Range
  <2>8. p = n
    BY <2>2, <2>3, <2>4, <2>7, Zenon DEF EachOnce
  <2>9. QED
    BY <2>1, <2>7, <2>8
<1>2. QED
  BY <1>1, RegistrerCorrect, PTL DEF UnregistersOnlyItself

-----------------------------------------------------------------------------
(* The timed sleep *)

\* Seconds and fractions are those of the time.
LEMMA SecondsAndFraction ==
  ASSUME NEW t \in Nat
  PROVE  /\ t \div Second \in Nat /\ t % Second \in Nat
         /\ (t \div Second) * Second + (t % Second) = t
  BY UncalledAssumption, SMTT(30)

\* Seconds are milliseconds, also of a sum.
LEMMA Distributes ==
  ASSUME NEW a \in Nat, NEW b \in Nat, NEW c \in Nat
  PROVE  (a + b) * c = a * c + b * c
  OBVIOUS

\* The deadline of a call is its time and that it waits for, carried or not.
LEMMA DeadlineIsSum ==
  ASSUME NEW t \in Nat, NEW ms \in Nat
  PROVE  /\ Sleep!Deadline(t, ms) \in [sec : Nat, frac : Nat]
         /\ Sleep!Deadline(t, ms).sec * Second + Sleep!Deadline(t, ms).frac = t + ms
         /\ Sleep!Deadline(t, ms).frac = (t % Second) + (ms % Second)
<1> DEFINE a == t \div Second
           b == ms \div Second
           p == t % Second
           q == ms % Second
<1>1. a \in Nat /\ b \in Nat /\ p \in Nat /\ q \in Nat /\ a * Second + p = t /\ b * Second + q = ms
  BY SecondsAndFraction
<1>2. Second \in Nat
  BY UncalledAssumption
<1>3. /\ Sleep!Deadline(t, ms).sec = a + b /\ Sleep!Deadline(t, ms).frac = p + q
      /\ Sleep!Deadline(t, ms) = [sec |-> a + b, frac |-> p + q]
  BY DEF Sleep!Deadline
<1> HIDE DEF a, b, p, q
<1>4. (a + b) * Second = a * Second + b * Second /\ a * Second \in Nat /\ b * Second \in Nat
  BY <1>1, <1>2, Distributes
<1>5. (a + b) * Second + (p + q) = t + ms
  BY <1>1, <1>4
<1>6. QED
  BY <1>1, <1>3, <1>5 DEF p, q

\* The call: the deadline is valid unless the fractions carry.
LEMMA SleepStep ==
  ASSUME Sleep!SleepInv, NEW ms \in Millis, Sleep!Sleep(ms)
  PROVE  Sleep!SleepInv'
<1> USE DEF Sleep!SleepInv, Sleep!TypeOK
<1>1. /\ now \in Nat /\ ms \in Nat
      /\ UNCHANGED now /\ start' = now /\ millis' = ms /\ signalled' = FALSE
      /\ timewait' = Sleep!Deadline(now, ms)
      /\ IF timewait'.frac < Second THEN sleeper' = "waiting" /\ locked' = FALSE
                                    ELSE sleeper' = "thrown" /\ locked' = TRUE
  BY UncalledAssumption DEF Sleep!Sleep, Sleep!Wait
<1>2. /\ timewait' \in [sec : Nat, frac : Nat]
      /\ timewait'.frac = (now % Second) + (ms % Second)
      /\ timewait' = Sleep!Deadline(start, millis)'
  BY <1>1, DeadlineIsSum DEF Sleep!Deadline
<1>3. Sleep!Carries' <=> ~(timewait'.frac < Second)
  BY <1>1, <1>2, UncalledAssumption DEF Sleep!Carries
<1>4. QED
  BY <1>1, <1>2, <1>3 DEF Sleep!NotTooShort

\* A deadline that has passed is the end of the time asked for.
LEMMA TimesOutStep ==
  ASSUME Sleep!SleepInv, Sleep!TimesOut
  PROVE  Sleep!SleepInv'
<1> USE DEF Sleep!SleepInv, Sleep!TypeOK
<1>1. /\ start \in Nat /\ millis \in Nat /\ timewait = Sleep!Deadline(start, millis)
      /\ now >= timewait.sec * Second + timewait.frac /\ ~Sleep!Carries
      /\ sleeper' = "woken" /\ UNCHANGED <<now, timewait, start, millis, locked, signalled>>
      /\ sleeper = "waiting"
  BY DEF Sleep!TimesOut
<1>2. now >= start + millis
  BY <1>1, DeadlineIsSum
<1>3. Sleep!Carries' = Sleep!Carries /\ Sleep!Deadline(start, millis)' = Sleep!Deadline(start, millis)
  BY <1>1 DEF Sleep!Carries, Sleep!Deadline
<1>4. QED
  BY <1>1, <1>2, <1>3 DEF Sleep!NotTooShort

\* The other steps leave the deadline and the call alone.
LEMMA OtherSleepSteps ==
  ASSUME Sleep!SleepInv,
         \/ Sleep!Tick \/ Sleep!SpuriousWakeup \/ Sleep!Return \/ Sleep!CallWakeUp
         \/ Sleep!WakeUp \/ UNCHANGED Sleep!vars
  PROVE  Sleep!SleepInv'
<1> USE DEF Sleep!SleepInv, Sleep!TypeOK
<1>1. UNCHANGED <<timewait, start, millis, locked>>
  BY DEF Sleep!Tick, Sleep!SpuriousWakeup, Sleep!Return, Sleep!CallWakeUp, Sleep!WakeUp, Sleep!vars
<1>2. Sleep!Carries' = Sleep!Carries /\ Sleep!Deadline(start, millis)' = Sleep!Deadline(start, millis)
  BY <1>1 DEF Sleep!Carries, Sleep!Deadline
<1>3. CASE Sleep!Tick
  <2>1. now' = now + 1 /\ now' \in Nat /\ UNCHANGED <<sleeper, signalled>>
    BY <1>3 DEF Sleep!Tick
  <2>2. Sleep!NotTooShort'
    BY <1>1, <2>1 DEF Sleep!NotTooShort
  <2>3. QED
    BY <1>1, <1>2, <2>1, <2>2
<1>4. CASE Sleep!SpuriousWakeup
  BY <1>1, <1>2, <1>4 DEF Sleep!SpuriousWakeup, Sleep!NotTooShort
<1>5. CASE Sleep!Return
  BY <1>1, <1>2, <1>5 DEF Sleep!Return, Sleep!NotTooShort
<1>6. CASE Sleep!WakeUp
  BY <1>1, <1>2, <1>6 DEF Sleep!WakeUp, Sleep!NotTooShort
<1>7. CASE Sleep!CallWakeUp \/ UNCHANGED Sleep!vars
  BY <1>1, <1>2, <1>7 DEF Sleep!CallWakeUp, Sleep!vars, Sleep!NotTooShort
<1>8. QED
  BY <1>3, <1>4, <1>5, <1>6, <1>7

(***************************************************************************)
(* Wakeable::sleep(millis) (include/RdClientHandler.h) on                  *)
(* Conditional::wait(milliseconds) (src/Conditional.cpp) never ends before *)
(* its time by itself, for any time of the clock and any time to wait.     *)
(***************************************************************************)
THEOREM SleepLastsLongEnough == Sleep!SafeSpec => []NotTooShort
<1>1. Sleep!Init => Sleep!SleepInv
  <2> SUFFICES ASSUME Sleep!Init PROVE Sleep!SleepInv
    OBVIOUS
  <2>1. now \in Nat /\ start \in Nat /\ millis \in Nat /\ timewait \in [sec : Nat, frac : Nat]
    BY UncalledAssumption DEF Sleep!Init
  <2>2. QED
    BY <2>1 DEF Sleep!Init, Sleep!SleepInv, Sleep!TypeOK, Sleep!NotTooShort
<1>2. Sleep!SleepInv /\ [Sleep!Next]_(Sleep!vars) => Sleep!SleepInv'
  BY SleepStep, TimesOutStep, OtherSleepSteps DEF Sleep!Next
<1>3. Sleep!SleepInv => NotTooShort
  BY DEF Sleep!SleepInv, NotTooShort
<1>4. QED
  BY <1>1, <1>2, <1>3, PTL DEF Sleep!SafeSpec

-----------------------------------------------------------------------------
(* The key combination: what is inductive of ComboInv is how the two loops *)
(* agree; the rest of it follows.                                          *)

ComboLoops == Combo!TypeOK /\ Combo!LoopsAgree /\ Combo!OthersUntouched

\* The keys of one argument more.
LEMMA OneMoreKey ==
  ASSUME NEW n \in Nat \ {0}
  PROVE  Combo!FirstKeys(n) = Combo!FirstKeys(n - 1) \cup {keyCodes[n]}
<1>1. 1 .. n = (1 .. n - 1) \cup {n}
  OBVIOUS
<1>2. QED
  BY <1>1, Zenon DEF Combo!FirstKeys

\* The keys of all arguments, and of none.
LEMMA AllKeys ==
  ASSUME Combo!TypeOK
  PROVE  Combo!FirstKeys(Len(keyCodes)) = Combo!Range(keyCodes)
<1>1. DOMAIN keyCodes = 1 .. Len(keyCodes)
  BY DEF Combo!TypeOK
<1>2. QED
  BY <1>1, Zenon DEF Combo!FirstKeys, Combo!Range

LEMMA NoKeys == Combo!FirstKeys(0) = {}
<1>1. 1 .. 0 = {}
  OBVIOUS
<1>2. QED
  BY <1>1, Zenon DEF Combo!FirstKeys

\* The parts of ComboInv about the end of the call.
LEMMA ComboFollows == ComboLoops => Combo!ComboInv
<1> SUFFICES ASSUME ComboLoops PROVE Combo!ComboInv
  OBVIOUS
<1>1. Combo!NoKeyLeftPressed
  BY NoKeys DEF ComboLoops, Combo!LoopsAgree, Combo!NoKeyLeftPressed
<1>2. Combo!SuccessIsComplete
  BY NoKeys DEF ComboLoops, Combo!LoopsAgree, Combo!OthersUntouched, Combo!SuccessIsComplete
<1>3. QED
  BY <1>1, <1>2 DEF ComboLoops, Combo!ComboInv

\* The first loop: a press that succeeds, or fails and ends it.
LEMMA PressStep ==
  ASSUME ComboLoops, Combo!Press
  PROVE  ComboLoops'
<1> USE DEF ComboLoops, Combo!TypeOK, Combo!LoopsAgree, Combo!OthersUntouched
<1>1. /\ i \in Nat /\ i + 1 \in 1 .. Len(keyCodes) /\ keyCodes[i + 1] \in Codes
      /\ UNCHANGED <<keyCodes, before, stuck>>
      /\ pc = "press" /\ pressed = Combo!FirstKeys(i) /\ stuck = {}
  BY DEF Combo!Press, Combo!len
<1>2. CASE /\ Combo!Emit(keyCodes[i + 1], 1)
           /\ i' = i + 1
           /\ pressed' = pressed \cup {keyCodes[i']}
           /\ UNCHANGED <<retval, pc>>
  <2>1. pressed' = Combo!FirstKeys(i) \cup {keyCodes[i + 1]} /\ held' = held \cup {keyCodes[i + 1]}
    BY <1>1, <1>2 DEF Combo!Emit
  <2>2. Combo!FirstKeys(i + 1) = Combo!FirstKeys(i) \cup {keyCodes[i + 1]}
    BY <1>1, OneMoreKey
  <2>3. (Combo!FirstKeys(i))' = Combo!FirstKeys(i + 1)
    BY <1>1, <1>2 DEF Combo!FirstKeys
  <2>4. Combo!TypeOK'
    BY <1>1, <1>2, <2>1 DEF Combo!len
  <2>5. Combo!LoopsAgree'
    BY <1>1, <1>2, <2>1, <2>2, <2>3
  <2>6. Combo!OthersUntouched'
    BY <1>1, <1>2, <2>1
  <2>7. QED
    BY <2>4, <2>5, <2>6
<1>3. CASE Combo!EmitFails /\ pc' = "release" /\ UNCHANGED <<i, pressed>>
  <2>1. held' = held /\ retval' = -1 /\ (Combo!FirstKeys(i))' = Combo!FirstKeys(i)
    BY <1>1, <1>3 DEF Combo!EmitFails, Combo!FirstKeys
  <2>2. QED
    BY <1>1, <1>3, <2>1 DEF Combo!len
<1>4. QED
  BY <1>2, <1>3 DEF Combo!Press

\* The second loop goes on in either case.
LEMMA ReleaseStep ==
  ASSUME ComboLoops, Combo!Release
  PROVE  ComboLoops'
<1> USE DEF ComboLoops, Combo!TypeOK, Combo!LoopsAgree, Combo!OthersUntouched
<1>1. /\ i \in Nat \ {0} /\ i <= Len(keyCodes) /\ i' = i - 1 /\ pc = "release"
      /\ UNCHANGED <<keyCodes, before, pc, pressed>>
  BY DEF Combo!Release, Combo!len
<1>2. /\ Combo!FirstKeys(i) = Combo!FirstKeys(i - 1) \cup {keyCodes[i]}
      /\ (Combo!FirstKeys(i))' = Combo!FirstKeys(i - 1)
  BY <1>1, OneMoreKey DEF Combo!FirstKeys
<1>3. CASE Combo!Emit(keyCodes[i], 0) /\ UNCHANGED <<retval, stuck>>
  <2>1. held' = held \ {keyCodes[i]}
    BY <1>3 DEF Combo!Emit
  <2>2. Combo!TypeOK'
    BY <1>1, <1>3, <2>1 DEF Combo!len
  <2>3. Combo!LoopsAgree'
    BY <1>1, <1>2, <1>3, <2>1
  <2>4. Combo!OthersUntouched'
    BY <1>1, <1>2, <2>1
  <2>5. QED
    BY <2>2, <2>3, <2>4
<1>4. CASE Combo!EmitFails /\ stuck' = stuck \cup {keyCodes[i]}
  <2>1. held' = held /\ retval' = -1
    BY <1>4 DEF Combo!EmitFails
  <2>2. QED
    BY <1>1, <1>2, <1>4, <2>1 DEF Combo!len
<1>5. QED
  BY <1>3, <1>4 DEF Combo!Release

\* From the first loop to the second, and back to the caller.
LEMMA OtherComboSteps ==
  ASSUME ComboLoops, Combo!PressesDone \/ Combo!Return \/ UNCHANGED Combo!vars
  PROVE  ComboLoops'
<1> USE DEF ComboLoops, Combo!TypeOK, Combo!LoopsAgree, Combo!OthersUntouched, Combo!len
<1>1. UNCHANGED <<keyCodes, before, held, i, retval, pressed, stuck>>
  BY DEF Combo!PressesDone, Combo!Return, Combo!vars
<1>2. (Combo!FirstKeys(i))' = Combo!FirstKeys(i)
  BY <1>1 DEF Combo!FirstKeys
<1>3. CASE Combo!PressesDone
  <2>1. Combo!FirstKeys(i) = Combo!Range(keyCodes) /\ pc' = "release"
    BY <1>3, AllKeys DEF Combo!PressesDone
  <2>2. QED
    <3>1. Combo!Range(keyCodes)' = Combo!Range(keyCodes)
      BY <1>1 DEF Combo!Range
    <3>2. Combo!TypeOK'
      BY <1>1, <2>1
    <3>3. Combo!OthersUntouched'
      BY <1>1
    <3>4. pressed = Combo!FirstKeys(i) /\ stuck = {} /\ pressed' = Combo!Range(keyCodes)'
      BY <1>1, <1>3, <2>1, <3>1 DEF Combo!PressesDone
    <3>5. Combo!LoopsAgree'
      BY <1>1, <1>2, <2>1, <3>4
    <3>6. QED
      BY <3>2, <3>3, <3>5
<1>4. CASE Combo!Return
  BY <1>1, <1>2, <1>4 DEF Combo!Return
<1>5. CASE UNCHANGED Combo!vars
  BY <1>1, <1>2, <1>5 DEF Combo!vars
<1>6. QED
  BY <1>3, <1>4, <1>5

(***************************************************************************)
(* suinput_emit_combo() (src/suinput.c:62-89) releases every key it has    *)
(* pressed, no matter what, and no other, for combinations of any length,  *)
(* with keys that occur twice or were held before.                         *)
(***************************************************************************)
THEOREM ComboReleases == Combo!SafeSpec => []ComboInv
<1>1. Combo!Init => ComboLoops
  <2> SUFFICES ASSUME Combo!Init PROVE ComboLoops
    OBVIOUS
  <2>1. keyCodes \in Seq(Codes)
    <3>1. PICK m \in 0 .. MaxLen : keyCodes \in [1 .. m -> Codes]
      BY DEF Combo!Init, Combo!BoundedSeq, Combo!SeqOf
    <3>2. m \in Nat
      BY <3>1, UncalledAssumption
    <3>3. QED
      BY <3>1, <3>2, SeqDef
  <2>2. QED
    BY <2>1, NoKeys DEF Combo!Init, ComboLoops, Combo!TypeOK, Combo!LoopsAgree,
       Combo!OthersUntouched, Combo!len
<1>2. ComboLoops /\ [Combo!Next]_(Combo!vars) => ComboLoops'
  BY PressStep, ReleaseStep, OtherComboSteps DEF Combo!Next
<1>3. ComboInv <=> Combo!ComboInv
  BY DEF ComboInv
<1>4. QED
  BY <1>1, <1>2, <1>3, ComboFollows, PTL DEF Combo!SafeSpec

-----------------------------------------------------------------------------
(* The frame encoder *)

\* What clean() frees, and what the constructor allocates.
LEMMA EncoderFrees ==
  ASSUME Encoder!TypeOK, Encoder!Clean
  PROVE  /\ Encoder!Live' = Encoder!Live \ {"codecContext", "picture", "frame"}
         /\ memory' \in [Encoder!Resources -> {"none", "live", "freed"}]
  BY DEF Encoder!TypeOK, Encoder!Clean, Encoder!Live, Encoder!Resources

LEMMA EncoderHolds ==
  ASSUME NEW S \in SUBSET Encoder!Resources, memory' = Encoder!Holding(S)
  PROVE  /\ Encoder!Live' = S
         /\ memory' \in [Encoder!Resources -> {"none", "live", "freed"}]
  BY DEF Encoder!Holding, Encoder!Live

\* A call of the codec: the frame that went in comes out later.
LEMMA EncodeStep ==
  ASSUME Encoder!EncoderInv, Encoder!Encode
  PROVE  Encoder!EncoderInv'
<1> USE DEF Encoder!EncoderInv, Encoder!TypeOK
<1>1. Encoder!Live' = Encoder!Live
  BY DEF Encoder!Encode, Encoder!Encoded, Encoder!Live
<1>2. ~broken /\ stage = "encoding"
  BY DEF Encoder!Encode, Encoder!CodecUsable
<1>3. /\ inside \in 0 .. Delay /\ currentFrame \in 0 .. MaxFrames /\ delivered \in 0 .. MaxFrames
      /\ inside = (IF currentFrame > Delay THEN Delay ELSE currentFrame)
      /\ delivered + inside = currentFrame /\ currentFrame < MaxFrames
      /\ currentFrame' = currentFrame + 1 /\ UNCHANGED <<broken, stage, memory, encoder, image>>
      /\ out' \in {"none", "live"}
      /\ inside' = (IF inside = Delay THEN inside + 1 - 1 ELSE inside + 1)
      /\ delivered' = (IF inside = Delay THEN delivered + 1 ELSE delivered)
  BY <1>2 DEF Encoder!Encode, Encoder!Encoded, Encoder!FramesCounted
<1>4. gotOutput' \in BOOLEAN /\ (gotOutput' <=> inside = Delay)
  BY Zenon DEF Encoder!Encode, Encoder!Encoded
<1>5. /\ inside' \in 0 .. Delay /\ delivered' \in 0 .. MaxFrames /\ currentFrame' \in 0 .. MaxFrames
      /\ inside' = (IF currentFrame' > Delay THEN Delay ELSE currentFrame')
      /\ gotOutput' \in BOOLEAN /\ (gotOutput' <=> currentFrame' > Delay)
      /\ delivered' + inside' = currentFrame'
  <2> HIDE DEF Encoder!EncoderInv, Encoder!TypeOK
  <2>1. CASE inside = Delay
    BY <1>3, <1>4, <2>1, UncalledAssumption
  <2>2. CASE inside # Delay
    BY <1>3, <1>4, <2>2, UncalledAssumption
  <2>3. QED
    BY <2>1, <2>2
<1>6. QED
  BY <1>1, <1>2, <1>3, <1>5 DEF Encoder!FramesCounted

\* Asking for the frames kept, until there are none.
LEMMA DrainStep ==
  ASSUME Encoder!EncoderInv, Encoder!Drain
  PROVE  Encoder!EncoderInv'
<1> USE DEF Encoder!EncoderInv, Encoder!TypeOK
<1>1. /\ UNCHANGED <<image, currentFrame, memory, encoder, broken>>
      /\ Encoder!Live' = Encoder!Live
  BY DEF Encoder!Drain, Encoder!Encoded, Encoder!Live
<1>2. /\ inside \in 0 .. Delay /\ currentFrame \in 0 .. MaxFrames /\ delivered \in 0 .. MaxFrames
      /\ gotOutput \in BOOLEAN
  OBVIOUS
<1>3. CASE gotOutput
  <2>1. /\ ~broken
        /\ out' \in {"none", "live"}
        /\ inside' = (IF inside > 0 THEN inside - 1 ELSE inside)
        /\ delivered' = (IF inside > 0 THEN delivered + 1 ELSE delivered)
        /\ stage' = (IF inside > 0 THEN "draining" ELSE "drained")
    BY <1>3 DEF Encoder!Drain, Encoder!Encoded, Encoder!CodecUsable
  <2>2. gotOutput' \in BOOLEAN /\ (gotOutput' <=> inside > 0)
    <3>1. Encoder!Encoded(inside, inside > 0)
      BY <1>3 DEF Encoder!Drain
    <3>2. gotOutput' = (inside > 0)
      BY <3>1, Zenon DEF Encoder!Encoded
    <3>3. (inside > 0) \in BOOLEAN
      BY <1>2, SMT
    <3>4. gotOutput' \in BOOLEAN
      BY <3>2, <3>3, Zenon
    <3>5. gotOutput' <=> inside > 0
      BY <3>2, Zenon
    <3>6. QED
      BY <3>4, <3>5, Zenon
  <2>3. delivered + inside = currentFrame /\ currentFrame > Delay
    BY <1>3, <2>1 DEF Encoder!FramesCounted
  <2>4. /\ inside' \in 0 .. Delay /\ delivered' \in 0 .. MaxFrames
        /\ delivered' + inside' = currentFrame
        /\ stage' = "draining" => gotOutput'
        /\ stage' = "drained" => ~gotOutput' /\ inside' = 0
        /\ stage' \in {"draining", "drained"} /\ gotOutput' \in BOOLEAN
    <3> HIDE DEF Encoder!EncoderInv, Encoder!TypeOK
    <3>1. CASE inside > 0
      BY <1>2, <2>1, <2>2, <2>3, <3>1, UncalledAssumption
    <3>2. CASE ~(inside > 0)
      BY <1>2, <2>1, <2>2, <2>3, <3>2, UncalledAssumption
    <3>3. QED
      BY <3>1, <3>2
  <2>5. QED
    BY <1>1, <1>2, <2>1, <2>3, <2>4 DEF Encoder!FramesCounted
<1>4. CASE ~gotOutput
  <2>1. stage' = "drained" /\ UNCHANGED <<out, gotOutput, inside, delivered>>
    BY <1>4 DEF Encoder!Drain
  <2>2. ~broken => inside = (IF currentFrame > Delay THEN 0 ELSE currentFrame)
    BY <1>2, <1>4, UncalledAssumption DEF Encoder!FramesCounted
  <2>3. QED
    BY <1>1, <1>2, <1>4, <2>1, <2>2 DEF Encoder!FramesCounted
<1>5. QED
  BY <1>3, <1>4

\* The codec fails: the frames in it are lost, the rest is freed.
LEMMA CodecFailsStep ==
  ASSUME Encoder!EncoderInv, Encoder!CodecFails
  PROVE  Encoder!EncoderInv'
<1> USE DEF Encoder!EncoderInv, Encoder!TypeOK
<1>1. /\ Encoder!Live' = Encoder!Live \ {"codecContext", "picture", "frame"}
      /\ memory' \in [Encoder!Resources -> {"none", "live", "freed"}]
  BY EncoderFrees DEF Encoder!CodecFails
<1>2. /\ encoder = "live" /\ broken' /\ gotOutput' \in BOOLEAN
      /\ UNCHANGED <<encoder, image, out, inside, delivered, stage>>
      /\ currentFrame' \in {currentFrame, currentFrame + 1} /\ currentFrame' \in 0 .. MaxFrames
  BY UncalledAssumption DEF Encoder!CodecFails, Encoder!CodecUsable
<1>3. delivered + inside <= currentFrame'
  BY <1>2, UncalledAssumption DEF Encoder!FramesCounted
<1>4. QED
  BY <1>1, <1>2, <1>3 DEF Encoder!FramesCounted

\* What allocates and frees leaves the frames alone.
LEMMA OtherEncoderSteps ==
  ASSUME Encoder!EncoderInv,
         \/ Encoder!Construct \/ Encoder!ConstructFails \/ Encoder!Capture
         \/ Encoder!RecycleScreen \/ Encoder!RecycleFrame \/ Encoder!Destroy
         \/ Encoder!Crash \/ UNCHANGED Encoder!vars
  PROVE  Encoder!EncoderInv'
<1> USE DEF Encoder!EncoderInv, Encoder!TypeOK
<1>1. /\ UNCHANGED <<gotOutput, currentFrame, inside, delivered, stage, broken>>
      /\ out' \in {"none", "live"} /\ image' \in {"none", "live", "null"}
  BY DEF Encoder!Construct, Encoder!ConstructFails, Encoder!Capture, Encoder!RecycleScreen,
     Encoder!RecycleFrame, Encoder!Destroy, Encoder!Crash, Encoder!vars, Encoder!progress
<1>2. Encoder!FramesCounted'
  BY <1>1 DEF Encoder!FramesCounted
<1>3. ASSUME UNCHANGED <<encoder, memory>> PROVE Encoder!EncoderInv'
  BY <1>1, <1>2, <1>3 DEF Encoder!Live
<1>4. CASE Encoder!Construct
  <2>1. PICK scaler \in {{}, {"ctx"}} :
          memory' = Encoder!Holding({"codecContext", "frame", "picture"} \cup scaler)
    BY <1>4 DEF Encoder!Construct
  <2>2. Encoder!Live' = {"codecContext", "frame", "picture"} \cup scaler
        /\ memory' \in [Encoder!Resources -> {"none", "live", "freed"}]
    BY <2>1, EncoderHolds DEF Encoder!Resources
  <2>3. encoder' = "live" /\ ~broken
    BY <1>4 DEF Encoder!Construct
  <2>4. QED
    BY <1>1, <1>2, <2>2, <2>3
<1>5. CASE Encoder!ConstructFails
  <2>1. PICK left \in {{}, {"frame"}} : memory' = Encoder!Holding(left)
    BY <1>5 DEF Encoder!ConstructFails
  <2>2. Encoder!Live' = left /\ memory' \in [Encoder!Resources -> {"none", "live", "freed"}]
    BY <2>1, EncoderHolds DEF Encoder!Resources
  <2>3. encoder' = "failed" /\ ~broken
    BY <1>5 DEF Encoder!ConstructFails
  <2>4. QED
    BY <1>1, <1>2, <2>2, <2>3
<1>6. CASE Encoder!Destroy
  <2>1. /\ Encoder!Live' = Encoder!Live \ {"codecContext", "picture", "frame"}
        /\ memory' \in [Encoder!Resources -> {"none", "live", "freed"}]
    BY <1>6, EncoderFrees DEF Encoder!Destroy
  <2>2. encoder' = "destroyed" /\ ~broken /\ Encoder!Live \subseteq Encoder!Resources
    BY <1>6 DEF Encoder!Destroy, Encoder!Clean, Encoder!Live
  <2>3. QED
    BY <1>1, <1>2, <2>1, <2>2 DEF Encoder!Resources
<1>7. CASE Encoder!Crash
  <2>1. encoder' = "crashed" /\ memory' = memory /\ Encoder!Live' = Encoder!Live
    BY <1>7 DEF Encoder!Crash, Encoder!Live
  <2>2. QED
    BY <1>1, <1>2, <2>1
<1>8. QED
  BY <1>3, <1>4, <1>5, <1>6, <1>7 DEF Encoder!Capture, Encoder!RecycleScreen,
     Encoder!RecycleFrame, Encoder!vars

(***************************************************************************)
(* What a FrameEncoder allocates is freed once, whenever it is destroyed   *)
(* and whatever call of the codec has failed (src/FrameEncoder.cpp), but   *)
(* for its scaler, and the frame of a constructor that failed.             *)
(***************************************************************************)
THEOREM EncoderCorrect == Encoder!SafeSpec => []EncoderInv
<1>1. Encoder!Init => Encoder!EncoderInv
  <2> SUFFICES ASSUME Encoder!Init PROVE Encoder!EncoderInv
    OBVIOUS
  <2>1. Encoder!TypeOK
    <3>1. gotOutput \in BOOLEAN /\ broken \in BOOLEAN
      BY Zenon DEF Encoder!Init
    <3>2. currentFrame \in 0 .. MaxFrames /\ delivered \in 0 .. MaxFrames /\ inside \in 0 .. Delay
      BY UncalledAssumption DEF Encoder!Init
    <3>3. memory \in [Encoder!Resources -> {"none", "live", "freed"}]
      BY DEF Encoder!Init
    <3>4. QED
      BY <3>1, <3>2, <3>3, Zenon DEF Encoder!Init, Encoder!TypeOK
  <2>2. /\ currentFrame = 0 /\ inside = 0 /\ delivered = 0 /\ ~(0 > Delay)
        /\ ~gotOutput /\ ~broken /\ stage = "encoding"
    <3>1. ~(0 > Delay)
      BY UncalledAssumption
    <3>2. QED
      BY <3>1, Zenon DEF Encoder!Init
  <2>3. Encoder!FramesCounted
    BY <2>2 DEF Encoder!FramesCounted
  <2>4. QED
    BY <2>1, <2>3 DEF Encoder!Init, Encoder!EncoderInv
<1>2. Encoder!EncoderInv /\ [Encoder!Next]_(Encoder!vars) => Encoder!EncoderInv'
  BY EncodeStep, DrainStep, CodecFailsStep, OtherEncoderSteps DEF Encoder!Next
<1>3. EncoderInv <=> Encoder!EncoderInv
  BY DEF EncoderInv
<1>4. QED
  BY <1>1, <1>2, <1>3, PTL DEF Encoder!SafeSpec

(***************************************************************************)
(* getDelayedFrames() gives back every frame the codec has kept, whatever  *)
(* it keeps and whenever the caller asks, unless the codec has never been  *)
(* full (src/FrameEncoder.cpp).                                            *)
(***************************************************************************)
THEOREM EncoderDelivers == Encoder!SafeSpec => []AllDelivered
<1>1. EncoderInv => AllDelivered
  BY UncalledAssumption DEF EncoderInv, AllDelivered, Encoder!EncoderInv, Encoder!TypeOK,
     Encoder!FramesCounted, Encoder!AllDelivered
<1>2. QED
  BY <1>1, EncoderCorrect, PTL
=============================================================================
