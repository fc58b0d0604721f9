-------------------------- MODULE FrameWriter_proof --------------------------
(***************************************************************************)
(* The writer keeps to the stream of frames.  The inductive invariant is   *)
(* WriterInv: up to a write that failed, what is on the wire and what the  *)
(* socket still has to take is, to the byte, what write() was called with. *)
(*                                                                         *)
(* Images and frames are flattened sequences, which FlattenSeq defines by  *)
(* recursion.  FlattenAppend is what the proofs use of it; it follows by   *)
(* induction over a set of numbers (Induct), which, unlike the theorems of *)
(* NaturalsInduction, has no operator for a parameter.                     *)
(***************************************************************************)
EXTENDS FrameWriter, SequenceTheorems, WellFoundedInduction, TLAPS

-----------------------------------------------------------------------------
(* Prefixes *)

LEMMA PrefixPointwise ==
  ASSUME NEW S, NEW s \in Seq(S), NEW t \in Seq(S)
  PROVE  IsPrefix(s, t) <=> /\ Len(s) <= Len(t)
                            /\ \A i \in 1 .. Len(s) : s[i] = t[i]
<1>1. Len(s) \in Nat /\ Len(t) \in Nat
  BY LenProperties
<1>2. /\ \A i \in 1 .. Len(s) : s[i] \in S
      /\ \A i \in 1 .. Len(t) : t[i] \in S
  BY ElementOfSeq
<1> DEFINE a == SubSeq(s, 1, Len(s))
           b == SubSeq(t, 1, Len(s))
<1>3. ASSUME Len(s) <= Len(t)
      PROVE  /\ a \in Seq(S) /\ Len(a) = Len(s) /\ \A i \in 1 .. Len(s) : a[i] = s[i]
             /\ b \in Seq(S) /\ Len(b) = Len(s) /\ \A i \in 1 .. Len(s) : b[i] = t[i]
  <2>1. \A i \in 1 .. Len(s) : t[i] \in S
    BY <1>1, <1>2, <1>3
  <2>2. a \in Seq(S) /\ Len(a) = Len(s) /\ \A i \in 1 .. Len(s) - 1 + 1 : a[i] = s[1 + i - 1]
    BY <1>1, <1>2, SubSeqProperties
  <2>3. b \in Seq(S) /\ Len(b) = Len(s) /\ \A i \in 1 .. Len(s) - 1 + 1 : b[i] = t[1 + i - 1]
    BY <1>1, <2>1, SubSeqProperties
  <2>4. \A i \in 1 .. Len(s) : 1 + i - 1 = i /\ i \in 1 .. Len(s) - 1 + 1
    BY <1>1
  <2> HIDE DEF a, b
  <2>5. QED
    BY <2>2, <2>3, <2>4
<1>4. ASSUME Len(s) <= Len(t)
      PROVE  a = b <=> \A i \in 1 .. Len(s) : s[i] = t[i]
  <2>1. /\ a \in Seq(S) /\ Len(a) = Len(s) /\ \A i \in 1 .. Len(s) : a[i] = s[i]
        /\ b \in Seq(S) /\ Len(b) = Len(s) /\ \A i \in 1 .. Len(s) : b[i] = t[i]
    BY <1>3, <1>4
  <2> HIDE DEF a, b
  <2>2. (\A i \in 1 .. Len(s) : s[i] = t[i]) => a = b
    BY <2>1, SeqEqual
  <2>3. QED
    BY <2>1, <2>2
<1>5. QED
  BY <1>4 DEF IsPrefix

LEMMA Associative ==
  \A r, s, t \in Seq(Nat) : (r \o s) \o t = r \o (s \o t)
<1>1. ASSUME NEW r \in Seq(Nat), NEW s \in Seq(Nat), NEW t \in Seq(Nat)
      PROVE  (r \o s) \o t = r \o (s \o t)
  BY ConcatAssociative, Z3
<1>2. QED
  BY <1>1

LEMMA PrefixOfConcat ==
  ASSUME NEW S, NEW s \in Seq(S), NEW t \in Seq(S)
  PROVE  s \o t \in Seq(S) /\ IsPrefix(s, s \o t)
<1>1. /\ s \o t \in Seq(S) /\ Len(s \o t) = Len(s) + Len(t)
      /\ \A i \in 1 .. Len(s) + Len(t) :
           (s \o t)[i] = IF i <= Len(s) THEN s[i] ELSE t[i - Len(s)]
      /\ Len(s) \in Nat /\ Len(t) \in Nat
  BY ConcatProperties, LenProperties
<1> DEFINE u == s \o t
<1> HIDE DEF u
<1>2. u \in Seq(S) /\ Len(s) <= Len(u)
  BY <1>1 DEF u
<1>3. \A i \in 1 .. Len(s) : i \in 1 .. Len(s) + Len(t) /\ i <= Len(s)
  BY <1>1
<1>4. \A i \in 1 .. Len(s) : s[i] = u[i]
  BY <1>1, <1>3 DEF u
<1>5. QED
  BY <1>2, <1>4, PrefixPointwise DEF u

LEMMA PrefixTransitive ==
  ASSUME NEW S, NEW s \in Seq(S), NEW t \in Seq(S), NEW u \in Seq(S),
         IsPrefix(s, t), IsPrefix(t, u)
  PROVE  IsPrefix(s, u)
<1>1. /\ Len(s) <= Len(t) /\ \A i \in 1 .. Len(s) : s[i] = t[i]
      /\ Len(t) <= Len(u) /\ \A i \in 1 .. Len(t) : t[i] = u[i]
  BY PrefixPointwise
<1>2. Len(s) \in Nat /\ Len(t) \in Nat /\ Len(u) \in Nat
  BY LenProperties
<1>3. Len(s) <= Len(u) /\ \A i \in 1 .. Len(s) : i \in 1 .. Len(t)
  BY <1>1, <1>2
<1>4. \A i \in 1 .. Len(s) : s[i] = u[i]
  BY <1>1, <1>3
<1>5. QED
  BY <1>3, <1>4, PrefixPointwise

\* Both sequences may be preceded by the same one.
LEMMA PrefixAfter ==
  ASSUME NEW S, NEW r \in Seq(S), NEW s \in Seq(S), NEW t \in Seq(S), IsPrefix(s, t)
  PROVE  IsPrefix(r \o s, r \o t)
<1> DEFINE a == r \o s
           b == r \o t
<1>1. Len(s) <= Len(t) /\ \A i \in 1 .. Len(s) : s[i] = t[i]
  BY PrefixPointwise
<1>2. Len(r) \in Nat /\ Len(s) \in Nat /\ Len(t) \in Nat
  BY LenProperties
<1>3. /\ a \in Seq(S) /\ Len(a) = Len(r) + Len(s)
      /\ \A i \in 1 .. Len(r) + Len(s) : a[i] = IF i <= Len(r) THEN r[i] ELSE s[i - Len(r)]
  BY ConcatProperties
<1>4. /\ b \in Seq(S) /\ Len(b) = Len(r) + Len(t)
      /\ \A i \in 1 .. Len(r) + Len(t) : b[i] = IF i <= Len(r) THEN r[i] ELSE t[i - Len(r)]
  BY ConcatProperties
<1> HIDE DEF a, b
<1>5. Len(a) <= Len(b)
  BY <1>1, <1>2, <1>3, <1>4
<1>6. ASSUME NEW i \in 1 .. Len(a) PROVE a[i] = b[i]
  <2>1. i \in 1 .. Len(r) + Len(s) /\ i \in 1 .. Len(r) + Len(t)
    BY <1>1, <1>2, <1>3
  <2>2. i <= Len(r) \/ (~(i <= Len(r)) /\ i - Len(r) \in 1 .. Len(s))
    BY <1>2, <2>1
  <2>3. QED
    BY <1>1, <1>3, <1>4, <2>1, <2>2
<1>7. QED
  BY <1>3, <1>4, <1>5, <1>6, PrefixPointwise DEF a, b

-----------------------------------------------------------------------------
(* FlattenSeq *)

LEMMA Induct ==
  ASSUME NEW T, 0 \in T, \A n \in Nat : n \in T => n + 1 \in T
  PROVE  Nat \subseteq T
<1> DEFINE F == Nat \ T
           less == {ss \in Nat \X Nat : ss[1] < ss[2]}
<1>1. SUFFICES ASSUME F # {} PROVE FALSE
  OBVIOUS
<1>2. IsWellFoundedOn(less, Nat)
  BY NatLessThanWellFounded DEF OpToRel
<1>3. F \subseteq Nat
  OBVIOUS
<1>4. PICK x \in F : \A y \in F : ~(<<y, x>> \in less)
  <2> HIDE DEF less, F
  <2>1. QED
    BY <1>1, <1>2, <1>3, WFMin, Zenon
<1>5. x \in Nat /\ x # 0 /\ x - 1 \in Nat /\ (x - 1) + 1 = x
  OBVIOUS
<1>6. x - 1 \in F
  BY <1>5
<1>7. <<x - 1, x>> \in less
  BY <1>5
<1>8. QED
  BY <1>4, <1>6, <1>7

\* The function that FlattenSeq(q) computes.
Flattens(f, q) ==
  f = [i \in 1 .. Len(q) |-> IF i = 1 THEN q[i] ELSE f[i - 1] \o q[i]]

LEMMA FlattenUnfolds ==
  ASSUME NEW q, Len(q) # 0, NEW g, Flattens(g, q)
  PROVE  \E f : Flattens(f, q) /\ FlattenSeq(q) = f[Len(q)]
<1> DEFINE f == CHOOSE h : Flattens(h, q)
<1>1. Flattens(f, q)
  OBVIOUS
<1>2. FlattenSeq(q) = f[Len(q)]
  BY DEF FlattenSeq, Flattens
<1>3. QED
  BY <1>1, <1>2

LEMMA FlattenExists ==
  ASSUME NEW S, NEW q \in Seq(Seq(S))
  PROVE  \E g \in [1 .. Len(q) -> Seq(S)] : Flattens(g, q)
<1>0. Len(q) \in Nat /\ \A i \in 1 .. Len(q) : q[i] \in Seq(S)
  BY LenProperties, ElementOfSeq
<1> DEFINE Step(g, i) == IF i = 1 THEN q[i] ELSE g[i - 1] \o q[i]
           Upto(n) == n <= Len(q) =>
                        \E g \in [1 .. n -> Seq(S)] : \A i \in 1 .. n : g[i] = Step(g, i)
           T == {n \in Nat : Upto(n)}
<1>1. Upto(0)
  <2> DEFINE g == [i \in 1 .. 0 |-> <<>>]
  <2>1. g \in [1 .. 0 -> Seq(S)] /\ \A i \in 1 .. 0 : g[i] = Step(g, i)
    OBVIOUS
  <2> HIDE DEF g, Step
  <2>2. QED
    BY <2>1
<1>2. ASSUME NEW n \in Nat, Upto(n) PROVE Upto(n + 1)
  <2>1. SUFFICES ASSUME n + 1 <= Len(q)
                 PROVE  \E g \in [1 .. n + 1 -> Seq(S)] : \A i \in 1 .. n + 1 : g[i] = Step(g, i)
    <3> HIDE DEF Step
    <3>1. QED
      OBVIOUS
  <2>2. PICK g \in [1 .. n -> Seq(S)] : \A i \in 1 .. n : g[i] = Step(g, i)
    <3> HIDE DEF Step
    <3>1. n <= Len(q)
      BY <1>0, <2>1
    <3>2. QED
      BY <1>2, <3>1
  <2>3. n + 1 \in 1 .. Len(q) /\ q[n + 1] \in Seq(S) /\ (n # 0 => n \in 1 .. n)
    BY <1>0, <2>1
  <2>4. Step(g, n + 1) \in Seq(S)
    <3>1. CASE n = 0
      BY <2>3, <3>1
    <3>2. CASE n # 0
      <4>1. (n + 1) - 1 = n /\ n + 1 # 1 /\ g[n] \in Seq(S)
        BY <2>3, <3>2
      <4>2. g[n] \o q[n + 1] \in Seq(S)
        BY <2>3, <4>1, ConcatProperties
      <4>3. QED
        BY <4>1, <4>2
    <3>3. QED
      BY <3>1, <3>2
  <2> DEFINE h == [i \in 1 .. n + 1 |-> IF i = n + 1 THEN Step(g, n + 1) ELSE g[i]]
  <2>5. h \in [1 .. n + 1 -> Seq(S)]
    <3> HIDE DEF Step
    <3>1. \A i \in 1 .. n + 1 : i = n + 1 \/ i \in 1 .. n
      OBVIOUS
    <3>2. QED
      BY <2>4, <3>1
  <2>6. \A i \in 1 .. n : h[i] = g[i]
    <3> HIDE DEF Step
    <3>1. \A i \in 1 .. n : i # n + 1 /\ i \in 1 .. n + 1
      OBVIOUS
    <3>2. QED
      BY <3>1
  <2>7. ASSUME NEW i \in 1 .. n + 1 PROVE h[i] = Step(h, i)
    <3>1. i = 1 \/ (i # 1 /\ i - 1 \in 1 .. n)
      OBVIOUS
    <3>2. Step(h, i) = Step(g, i)
      <4> HIDE DEF h
      <4>1. QED
        BY <2>6, <3>1
    <3>3. h[i] = Step(g, i)
      <4>1. i = n + 1 \/ (i \in 1 .. n /\ i # n + 1)
        OBVIOUS
      <4> HIDE DEF Step
      <4>2. QED
        BY <2>2, <4>1
    <3>4. QED
      BY <3>2, <3>3
  <2> HIDE DEF h, Step
  <2>8. QED
    BY <2>5, <2>7
<1>3. Len(q) \in T
  <2> HIDE DEF Upto
  <2>1. 0 \in T /\ \A n \in Nat : n \in T => n + 1 \in T
    BY <1>1, <1>2
  <2> HIDE DEF T
  <2>2. QED
    BY <1>0, <2>1, Induct
<1>4. PICK g \in [1 .. Len(q) -> Seq(S)] : \A i \in 1 .. Len(q) : g[i] = Step(g, i)
  <2> HIDE DEF Step
  <2>1. Len(q) <= Len(q)
    BY <1>0
  <2>2. QED
    BY <1>3, <2>1
<1>5. Flattens(g, q)
  BY <1>4 DEF Flattens
<1>6. QED
  BY <1>5

LEMMA FlattenUnique ==
  ASSUME NEW S, NEW q \in Seq(S), NEW e \in S, NEW f, NEW g,
         Flattens(f, q), Flattens(g, Append(q, e)), NEW k \in 1 .. Len(q)
  PROVE  f[k] = g[k]
<1>1. /\ Len(q) \in Nat /\ Len(Append(q, e)) = Len(q) + 1
      /\ \A i \in 1 .. Len(q) : Append(q, e)[i] = q[i]
  BY AppendProperties, LenProperties
<1>2. \A i \in 1 .. Len(q) :
        /\ f[i] = IF i = 1 THEN q[i] ELSE f[i - 1] \o q[i]
        /\ g[i] = IF i = 1 THEN q[i] ELSE g[i - 1] \o q[i]
  <2>1. ASSUME NEW i \in 1 .. Len(q)
        PROVE  f[i] = IF i = 1 THEN q[i] ELSE f[i - 1] \o q[i]
    BY DEF Flattens
  <2>2. ASSUME NEW i \in 1 .. Len(q)
        PROVE  g[i] = IF i = 1 THEN q[i] ELSE g[i - 1] \o q[i]
    <3>1. i \in 1 .. Len(Append(q, e))
      BY <1>1
    <3>2. g[i] = IF i = 1 THEN Append(q, e)[i] ELSE g[i - 1] \o Append(q, e)[i]
      BY <3>1 DEF Flattens
    <3>3. QED
      BY <1>1, <3>2
  <2>3. QED
    BY <2>1, <2>2
<1> DEFINE T == {n \in Nat : n \in 1 .. Len(q) => f[n] = g[n]}
<1>3. 0 \in T
  OBVIOUS
<1>4. ASSUME NEW n \in Nat, n \in T PROVE n + 1 \in T
  <2>1. SUFFICES ASSUME n + 1 \in 1 .. Len(q) PROVE f[n + 1] = g[n + 1]
    OBVIOUS
  <2>2. CASE n = 0
    BY <1>2, <2>1, <2>2
  <2>3. CASE n # 0
    <3>1. n \in 1 .. Len(q) /\ n + 1 # 1 /\ (n + 1) - 1 = n
      BY <1>1, <2>1, <2>3
    <3>2. f[n] = g[n]
      BY <1>4, <3>1
    <3>3. QED
      BY <1>2, <2>1, <3>1, <3>2
  <2>4. QED
    BY <2>2, <2>3
<1>5. k \in T
  <2> HIDE DEF T
  <2>1. k \in Nat
    OBVIOUS
  <2>2. QED
    BY <1>3, <1>4, <2>1, Induct
<1>6. QED
  BY <1>5

LEMMA FlattenAppend ==
  ASSUME NEW S, NEW q \in Seq(Seq(S)), NEW e \in Seq(S)
  PROVE  /\ FlattenSeq(q) \in Seq(S)
         /\ FlattenSeq(Append(q, e)) = FlattenSeq(q) \o e
<1> DEFINE r == Append(q, e)
<1>1. /\ Len(q) \in Nat /\ r \in Seq(Seq(S)) /\ Len(r) = Len(q) + 1 /\ r[Len(q) + 1] = e
      /\ Len(q) = 0 => q = <<>>
  BY AppendProperties, LenProperties, EmptySeq
<1> HIDE DEF r
<1>2. PICK g : Flattens(g, r) /\ FlattenSeq(r) = g[Len(r)]
  <2>1. PICK g \in [1 .. Len(r) -> Seq(S)] : Flattens(g, r)
    BY <1>1, FlattenExists
  <2>2. Len(r) # 0
    BY <1>1
  <2>3. QED
    BY <2>1, <2>2, FlattenUnfolds
<1>3. g[Len(q) + 1] = IF Len(q) = 0 THEN e ELSE g[Len(q)] \o e
  <2>1. Len(q) + 1 \in 1 .. Len(r) /\ (Len(q) + 1 = 1 <=> Len(q) = 0) /\ (Len(q) + 1) - 1 = Len(q)
    BY <1>1
  <2>2. g[Len(q) + 1] = IF Len(q) + 1 = 1 THEN r[Len(q) + 1]
                        ELSE g[(Len(q) + 1) - 1] \o r[Len(q) + 1]
    BY <1>2, <2>1 DEF Flattens
  <2>3. QED
    BY <1>1, <2>1, <2>2
<1>4. CASE Len(q) = 0
  <2>1. FlattenSeq(q) = <<>>
    BY <1>1, <1>4 DEF FlattenSeq
  <2>2. <<>> \o e = e
    BY ConcatEmptySeq
  <2>3. QED
    BY <1>1, <1>2, <1>3, <1>4, <2>1, <2>2 DEF r
<1>5. CASE Len(q) # 0
  <2>1. PICK f0 \in [1 .. Len(q) -> Seq(S)] : Flattens(f0, q)
    BY FlattenExists
  <2>2. PICK f : Flattens(f, q) /\ FlattenSeq(q) = f[Len(q)]
    BY <1>5, <2>1, FlattenUnfolds
  <2>3. Len(q) \in 1 .. Len(q)
    BY <1>1, <1>5
  <2>4. f[Len(q)] = g[Len(q)]
    BY <1>2, <2>2, <2>3, FlattenUnique DEF r
  <2>5. f0[Len(q)] = g[Len(q)] /\ f0[Len(q)] \in Seq(S)
    BY <1>2, <2>1, <2>3, FlattenUnique DEF r
  <2>6. QED
    BY <1>1, <1>2, <1>3, <1>5, <2>2, <2>4, <2>5 DEF r
<1>6. QED
  BY <1>4, <1>5

-----------------------------------------------------------------------------
(* Images and frames *)

LEMMA Bytes ==
  ASSUME WriterAssumption
  PROVE  /\ Png \in Seq(Seq(Nat)) /\ Len(Png) \in Nat
         /\ \A i \in 1 .. Len(Png) : Png[i] \in Seq(Nat)
         /\ <<ACK>> \in Seq(Nat) /\ <<SCREE_FRAME>> \in Seq(Nat)
<1>1. Png \in Seq(Seq(Nat) \ {<<>>})
  BY DEF WriterAssumption
<1>2. Len(Png) \in Nat /\ \A i \in 1 .. Len(Png) : Png[i] \in Seq(Nat)
  BY <1>1, LenProperties, ElementOfSeq
<1>3. Png = [i \in 1 .. Len(Png) |-> Png[i]]
  BY <1>1, LenProperties
<1>4. Png \in Seq(Seq(Nat))
  BY <1>2, <1>3
<1>5. QED
  BY <1>2, <1>4 DEF ACK, SCREE_FRAME

LEMMA ChunksFacts ==
  ASSUME WriterAssumption
  PROVE  /\ Chunks(0) = <<>>
         /\ Chunks(Len(Png)) = Image
         /\ \A n \in 0 .. Len(Png) : Chunks(n) \in Seq(Nat)
         /\ \A n \in 0 .. Len(Png) - 1 : Chunks(n + 1) = Chunks(n) \o Png[n + 1]
<1>1. /\ Png \in Seq(Seq(Nat)) /\ Len(Png) \in Nat
      /\ \A i \in 1 .. Len(Png) : Png[i] \in Seq(Nat)
  BY Bytes
<1>2. Chunks(0) = <<>>
  <2>1. SubSeq(Png, 1, 0) = <<>>
    BY SubSeqEmpty
  <2>2. QED
    BY <2>1 DEF Chunks, FlattenSeq
<1>3. Chunks(Len(Png)) = Image
  <2>1. SubSeq(Png, 1, Len(Png)) = Png
    BY <1>1, SubSeqFull
  <2>2. QED
    BY <2>1 DEF Chunks, Image
<1>4. ASSUME NEW n \in 0 .. Len(Png)
      PROVE  SubSeq(Png, 1, n) \in Seq(Seq(Nat))
  <2>1. \A i \in 1 .. n : Png[i] \in Seq(Nat)
    BY <1>1
  <2>2. QED
    BY <2>1, SubSeqProperties
<1>5. ASSUME NEW n \in 0 .. Len(Png)
      PROVE  Chunks(n) \in Seq(Nat)
  <2>1. <<>> \in Seq(Nat)
    OBVIOUS
  <2>2. QED
    BY <1>4, <2>1, FlattenAppend DEF Chunks
<1>6. ASSUME NEW n \in 0 .. Len(Png) - 1
      PROVE  Chunks(n + 1) = Chunks(n) \o Png[n + 1]
  <2>1. n \in 0 .. Len(Png) /\ n + 1 \in 1 .. Len(Png)
    BY <1>1
  <2>2. SubSeq(Png, 1, n + 1) = Append(SubSeq(Png, 1, n), Png[n + 1])
    <3>1. 1 \in 1 .. Len(Png) /\ n + 1 \in 1 .. Len(Png) /\ (n + 1) - 1 = n
      BY <1>1, <2>1
    <3>2. SubSeq(Png, 1, n + 1) = SubSeq(Png, 1, (n + 1) - 1) \o <<Png[n + 1]>>
      BY <1>1, <3>1, SubSeqRecursiveSecond
    <3>3. SubSeq(Png, 1, n) \in Seq(Seq(Nat)) /\ Png[n + 1] \in Seq(Nat)
      BY <1>1, <1>4, <2>1
    <3>4. Append(SubSeq(Png, 1, n), Png[n + 1]) = SubSeq(Png, 1, n) \o <<Png[n + 1]>>
      BY <3>3, AppendIsConcat
    <3>5. QED
      BY <3>1, <3>2, <3>4
  <2>3. SubSeq(Png, 1, n) \in Seq(Seq(Nat)) /\ Png[n + 1] \in Seq(Nat)
    BY <1>1, <1>4, <2>1
  <2>4. QED
    BY <2>2, <2>3, FlattenAppend DEF Chunks
<1>7. QED
  BY <1>2, <1>3, <1>5, <1>6

LEMMA ChunksArePrefixes ==
  ASSUME WriterAssumption, NEW k \in 0 .. Len(Png)
  PROVE  IsPrefix(Chunks(k), Image)
<1>1. Len(Png) \in Nat
  BY Bytes
<1> DEFINE T == {n \in Nat : k + n <= Len(Png) => IsPrefix(Chunks(k), Chunks(k + n))}
<1>2. 0 \in T
  <2>1. Chunks(k) \in Seq(Nat) /\ k + 0 = k
    BY ChunksFacts
  <2>2. IsPrefix(Chunks(k), Chunks(k))
    BY <2>1, PrefixPointwise, LenProperties
  <2>3. QED
    BY <2>1, <2>2
<1>3. ASSUME NEW n \in Nat, n \in T PROVE n + 1 \in T
  <2>1. SUFFICES ASSUME k + (n + 1) <= Len(Png)
                 PROVE  IsPrefix(Chunks(k), Chunks(k + (n + 1)))
    OBVIOUS
  <2>2. k + n \in 0 .. Len(Png) - 1 /\ k + n \in 0 .. Len(Png) /\ (k + n) + 1 = k + (n + 1)
        /\ (k + n) + 1 \in 1 .. Len(Png) /\ k + n <= Len(Png)
    BY <1>1, <2>1
  <2>3. IsPrefix(Chunks(k), Chunks(k + n))
    BY <1>3, <2>2
  <2>4. /\ Chunks((k + n) + 1) = Chunks(k + n) \o Png[(k + n) + 1]
        /\ Chunks(k) \in Seq(Nat) /\ Chunks(k + n) \in Seq(Nat) /\ Png[(k + n) + 1] \in Seq(Nat)
    BY <2>2, ChunksFacts, Bytes
  <2>5. /\ Chunks((k + n) + 1) \in Seq(Nat)
        /\ IsPrefix(Chunks(k + n), Chunks((k + n) + 1))
    BY <2>4, PrefixOfConcat
  <2>6. IsPrefix(Chunks(k), Chunks((k + n) + 1))
    BY <2>3, <2>4, <2>5, PrefixTransitive
  <2>7. QED
    BY <2>2, <2>6
<1>4. Nat \subseteq T
  <2> HIDE DEF T
  <2>1. QED
    BY <1>2, <1>3, Induct
<1>5. Len(Png) - k \in Nat /\ k + (Len(Png) - k) = Len(Png)
  BY <1>1
<1>6. IsPrefix(Chunks(k), Chunks(Len(Png)))
  <2>1. Len(Png) - k \in T
    BY <1>4, <1>5
  <2>2. Len(Png) <= Len(Png)
    BY <1>1
  <2>3. QED
    BY <1>5, <2>1, <2>2
<1>7. QED
  BY <1>6, ChunksFacts

LEMMA FramesFacts ==
  ASSUME WriterAssumption
  PROVE  /\ Frame \in Seq(Nat) /\ Image \in Seq(Nat)
         /\ Frames(0) = <<>>
         /\ \A n \in Nat : Frames(n) \in Seq(Nat) /\ Frames(n + 1) = Frames(n) \o Frame
<1>1. Frame \in Seq(Nat) /\ Image \in Seq(Nat)
  <2>1. Image \in Seq(Nat)
    <3>1. Len(Png) \in 0 .. Len(Png)
      BY Bytes
    <3>2. QED
      BY <3>1, ChunksFacts
  <2>2. <<SCREE_FRAME>> \in Seq(Nat)
    BY Bytes
  <2>3. QED
    BY <2>1, <2>2, PrefixOfConcat DEF Frame
<1> DEFINE rep(n) == [i \in 1 .. n |-> Frame]
<1>2. ASSUME NEW n \in Nat PROVE rep(n) \in Seq(Seq(Nat)) /\ Len(rep(n)) = n
  BY <1>1
<1>3. ASSUME NEW n \in Nat PROVE rep(n + 1) = Append(rep(n), Frame)
  <2>1. /\ rep(n) \in Seq(Seq(Nat)) /\ Len(rep(n)) = n
        /\ rep(n + 1) \in Seq(Seq(Nat)) /\ Len(rep(n + 1)) = n + 1
    <3>1. n + 1 \in Nat
      OBVIOUS
    <3> HIDE DEF rep
    <3>2. QED
      BY <1>2, <3>1
  <2>2. /\ Append(rep(n), Frame) \in Seq(Seq(Nat)) /\ Len(Append(rep(n), Frame)) = n + 1
        /\ \A i \in 1 .. n : Append(rep(n), Frame)[i] = rep(n)[i]
        /\ Append(rep(n), Frame)[n + 1] = Frame
    <3> HIDE DEF rep
    <3>1. QED
      BY <1>1, <2>1, AppendProperties
  <2>3. \A i \in 1 .. n : rep(n)[i] = Frame
    OBVIOUS
  <2>4. \A i \in 1 .. n + 1 : rep(n + 1)[i] = Frame /\ (i \in 1 .. n \/ i = n + 1)
    OBVIOUS
  <2> DEFINE app == Append(rep(n), Frame)
  <2>5. \A i \in 1 .. n + 1 : rep(n + 1)[i] = app[i]
    BY <2>2, <2>3, <2>4
  <2> HIDE DEF rep
  <2>6. QED
    BY <2>1, <2>2, <2>5, SeqEqual
<1>4. Frames(0) = <<>>
  <2>1. rep(0) = <<>>
    BY <1>2, EmptySeq
  <2>2. FlattenSeq(<<>>) = <<>>
    BY DEF FlattenSeq
  <2>3. QED
    BY <2>1, <2>2 DEF Frames
<1>5. ASSUME NEW n \in Nat PROVE Frames(n) \in Seq(Nat) /\ Frames(n + 1) = Frames(n) \o Frame
  <2> DEFINE s == rep(n)
             t == rep(n + 1)
  <2>1. s \in Seq(Seq(Nat)) /\ t = Append(s, Frame) /\ Frames(n) = FlattenSeq(s)
        /\ Frames(n + 1) = FlattenSeq(t)
    BY <1>2, <1>3 DEF Frames
  <2> HIDE DEF s, t
  <2>2. QED
    BY <1>1, <2>1, FlattenAppend
<1>6. QED
  BY <1>1, <1>4, <1>5

\* All the writer ever writes is frames, one after the other.
LEMMA WrittenFacts ==
  ASSUME WriterAssumption, TypeOK, WritesInOrder
  PROVE  /\ Written \in Seq(Nat) /\ <<ACK>> \o Frames(frames) \in Seq(Nat)
         /\ IsPrefix(Written, <<ACK>> \o Frames(frames))
         /\ frames > 0 =>
              LastType \in Seq(Nat) /\ <<ACK>> \o Frames(frames) = LastType \o Image
<1> DEFINE all == <<ACK>> \o Frames(frames)
<1>1. /\ frames \in Nat /\ chunks \in 0 .. Len(Png) /\ Len(Png) \in Nat
      /\ <<ACK>> \in Seq(Nat) /\ <<SCREE_FRAME>> \in Seq(Nat)
      /\ Image \in Seq(Nat)
  BY Bytes, FramesFacts DEF TypeOK, WriterAssumption
<1>2. Frames(frames) \in Seq(Nat) /\ all \in Seq(Nat) /\ IsPrefix(<<ACK>>, all)
  BY <1>1, FramesFacts, PrefixOfConcat
<1>3. ASSUME frames > 0
      PROVE  LastType \in Seq(Nat) /\ all = LastType \o Image
  <2> DEFINE n == frames - 1
             a == <<ACK>>
             f == Frames(n)
             t == <<SCREE_FRAME>>
  <2>1. n \in Nat /\ n + 1 = frames
    BY <1>1, <1>3
  <2>2. f \in Seq(Nat) /\ Frames(frames) = f \o (t \o Image)
    BY <2>1, FramesFacts DEF Frame
  <2>3. all = a \o (f \o (t \o Image)) /\ LastType = (a \o f) \o t
    BY <2>2 DEF LastType
  <2>4. a \in Seq(Nat) /\ t \in Seq(Nat)
    BY <1>1
  <2> HIDE DEF a, f, t, all, n
  <2>5. a \o f \in Seq(Nat) /\ t \o Image \in Seq(Nat) /\ (a \o f) \o t \in Seq(Nat)
    BY <1>1, <2>2, <2>4, PrefixOfConcat
  <2>6. a \o (f \o (t \o Image)) = (a \o f) \o (t \o Image)
    <3>1. a \in Seq(Nat) /\ f \in Seq(Nat) /\ t \o Image \in Seq(Nat)
      BY <2>2, <2>4, <2>5
    <3>2. QED
      BY <3>1, Associative
  <2>7. (a \o f) \o (t \o Image) = ((a \o f) \o t) \o Image
    <3>1. a \o f \in Seq(Nat) /\ t \in Seq(Nat) /\ Image \in Seq(Nat)
      BY <1>1, <2>4, <2>5
    <3>2. QED
      BY <3>1, Associative
  <2>8. QED
    BY <2>3, <2>5, <2>6, <2>7
<1> HIDE DEF all
<1>4. ASSUME frames > 0, NEW k \in 0 .. Len(Png)
      PROVE  LastType \o Chunks(k) \in Seq(Nat) /\ IsPrefix(LastType \o Chunks(k), all)
  <2>1. Chunks(k) \in Seq(Nat) /\ IsPrefix(Chunks(k), Image)
    BY ChunksFacts, ChunksArePrefixes
  <2>2. LastType \in Seq(Nat) /\ all = LastType \o Image
    BY <1>3, <1>4
  <2>3. LastType \o Chunks(k) \in Seq(Nat)
    BY <2>1, <2>2, PrefixOfConcat
  <2>4. IsPrefix(LastType \o Chunks(k), LastType \o Image)
    BY <1>1, <2>1, <2>2, PrefixAfter
  <2>5. QED
    BY <2>2, <2>3, <2>4
<1>5. CASE pc = "handshake"
  <2>1. Written = <<>> /\ <<>> \in Seq(Nat) /\ Len(<<>>) = 0
    BY <1>5 DEF Written
  <2>2. IsPrefix(<<>>, all)
    <3>1. Len(all) \in Nat
      BY <1>2, LenProperties
    <3>2. Len(<<>>) <= Len(all) /\ \A i \in 1 .. Len(<<>>) : <<>>[i] = all[i]
      BY <2>1, <3>1
    <3>3. QED
      BY <1>2, <2>1, <3>2, PrefixPointwise
  <2>3. QED
    BY <1>2, <1>3, <2>1, <2>2 DEF all
<1>6. CASE pc = "ack"
  BY <1>1, <1>2, <1>3, <1>6 DEF Written, all
<1>7. CASE pc = "type"
  <2>1. frames > 0 /\ Written = LastType
    BY <1>7 DEF Written, WritesInOrder
  <2>2. IsPrefix(LastType, LastType \o Image)
    BY <1>1, <1>3, <2>1, PrefixOfConcat
  <2>3. QED
    BY <1>2, <1>3, <2>1, <2>2 DEF all
<1>8. CASE pc = "encode"
  <2>1. frames > 0 /\ Written = LastType \o Chunks(chunks)
    BY <1>8 DEF Written, WritesInOrder
  <2>2. QED
    BY <1>1, <1>2, <1>3, <1>4, <2>1 DEF all
<1>9. CASE pc = "chunk"
  <2>1. frames > 0 /\ Written = LastType \o Chunks(chunks + 1) /\ chunks < Len(Png)
    BY <1>9 DEF Written, WritesInOrder
  <2>2. chunks + 1 \in 0 .. Len(Png)
    BY <1>1, <2>1
  <2>3. QED
    BY <1>2, <1>3, <1>4, <2>1, <2>2 DEF all
<1>10. CASE pc \in {"check", "done"}
  <2>1. Written = all
    BY <1>10 DEF Written, all
  <2>2. IsPrefix(all, all)
    BY <1>2, PrefixPointwise, LenProperties
  <2>3. QED
    BY <1>2, <1>3, <2>1, <2>2 DEF all
<1>11. QED
  BY <1>5, <1>6, <1>7, <1>8, <1>9, <1>10 DEF TypeOK

\* In either case the wire holds the beginning of what was written.
LEMMA WireIsPrefix ==
  ASSUME WriterAssumption, TypeOK, WritesInOrder, NothingElseWritten
  PROVE  /\ Wire \in Seq(Nat) /\ IsPrefix(Wire, Written)
         /\ IsPrefix(Wire, <<ACK>> \o Frames(frames))
<1>1. received \in Seq(Nat) /\ taken \in Seq(Nat) /\ todo \in Seq(Nat)
  BY DEF TypeOK
<1>2. Wire \in Seq(Nat)
  BY <1>1, PrefixOfConcat DEF Wire
<1>3. IsPrefix(Wire, Written)
  <2>1. IsPrefix(Wire, Wire \o todo)
    BY <1>1, <1>2, PrefixOfConcat
  <2>2. QED
    BY <2>1 DEF NothingElseWritten
<1>4. /\ Written \in Seq(Nat) /\ <<ACK>> \o Frames(frames) \in Seq(Nat)
      /\ IsPrefix(Written, <<ACK>> \o Frames(frames))
  BY WrittenFacts
<1>5. QED
  BY <1>2, <1>3, <1>4, PrefixTransitive

-----------------------------------------------------------------------------
(* The steps of the client, the link, the socket and the handler *)

LEMMA ClientReceivesStep ==
  ASSUME WriterAssumption, WriterInv, ClientReceives
  PROVE  WriterInv'
<1>1. /\ taken # <<>> /\ taken' = Tail(taken) /\ received' = Append(received, Head(taken))
      /\ UNCHANGED <<link, todo, wrote, pc, chunks, frames, surfaces, cut, interrupted>>
  BY DEF ClientReceives, Stream!Received, Stream!Peer
<1>2. /\ received \in Seq(Nat) /\ taken \in Seq(Nat)
      /\ Head(taken) \in Nat /\ Tail(taken) \in Seq(Nat) /\ taken = <<Head(taken)>> \o Tail(taken)
  <2>1. received \in Seq(Nat) /\ taken \in Seq(Nat)
    BY DEF WriterInv, TypeOK
  <2>2. QED
    BY <1>1, <2>1, HeadTailProperties
<1>3. /\ received' \in Seq(Nat) /\ received' = received \o <<Head(taken)>>
      /\ <<Head(taken)>> \in Seq(Nat)
  BY <1>1, <1>2, AppendProperties, AppendIsConcat
<1>4. Wire' = Wire
  <2>1. (received \o <<Head(taken)>>) \o Tail(taken) = received \o (<<Head(taken)>> \o Tail(taken))
    <3>1. /\ received \in Seq(Nat) /\ <<Head(taken)>> \in Seq(Nat)
          /\ Tail(taken) \in Seq(Nat)
      BY <1>2, <1>3
    <3>2. QED
      BY <3>1, Associative
  <2>2. QED
    BY <1>1, <1>2, <1>3, <2>1, Zenon DEF Wire
<1>5. TypeOK' /\ WritesInOrder' /\ Surfaces'
  BY <1>1, <1>2, <1>3 DEF WriterInv, TypeOK, WritesInOrder, Surfaces
<1>6. Written' = Written
  BY <1>1 DEF Written, LastType
<1>7. QED
  BY <1>1, <1>4, <1>5, <1>6 DEF WriterInv, NothingElseWritten

\* Steps of others that leave the two ends of the stream as they are.
LEMMA OthersKeep ==
  ASSUME WriterInv, link' \in {"up", "eof", "reset"}, interrupted' \in BOOLEAN,
         UNCHANGED <<taken, todo, wrote, received, pc, chunks, frames, surfaces, cut>>
  PROVE  WriterInv'
<1>1. Wire' = Wire /\ Written' = Written
  BY DEF Wire, Written, LastType
<1>2. QED
  BY <1>1 DEF WriterInv, TypeOK, WritesInOrder, Surfaces, NothingElseWritten

LEMMA LinkLostStep ==
  ASSUME WriterInv, LinkLost
  PROVE  WriterInv'
<1>1. /\ link' \in {"eof", "reset"}
      /\ UNCHANGED <<taken, todo, wrote, received, pc, chunks, frames, surfaces, cut, interrupted>>
  BY DEF LinkLost, Stream!Lost, Stream!Peer
<1>2. QED
  BY <1>1, OthersKeep DEF WriterInv, TypeOK

LEMMA HandlerInterruptsStep ==
  ASSUME WriterInv, HandlerInterrupts
  PROVE  WriterInv'
<1>1. /\ interrupted' = TRUE
      /\ UNCHANGED <<link, taken, todo, wrote, received, pc, chunks, frames, surfaces, cut>>
  BY DEF HandlerInterrupts, streamVars
<1>2. QED
  BY <1>1, OthersKeep DEF WriterInv, TypeOK

LEMMA SocketTakesStep ==
  ASSUME WriterAssumption, WriterInv, SocketTakes
  PROVE  WriterInv'
<1>1. /\ wrote = "busy"
      /\ UNCHANGED <<link, wrote, received, pc, chunks, frames, surfaces, cut, interrupted>>
  BY DEF SocketTakes, Stream!Take, Stream!Reader
<1>2. PICK k \in 1 .. Len(todo) : /\ taken' = taken \o SubSeq(todo, 1, k)
                                  /\ todo' = SubSeq(todo, k + 1, Len(todo))
  BY DEF SocketTakes, Stream!Take
<1> DEFINE front == SubSeq(todo, 1, k)
           back == SubSeq(todo, k + 1, Len(todo))
<1>3. received \in Seq(Nat) /\ taken \in Seq(Nat) /\ todo \in Seq(Nat) /\ Len(todo) \in Nat
  BY LenProperties DEF WriterInv, TypeOK
<1>4. front \in Seq(Nat) /\ back \in Seq(Nat)
  <2>1. /\ \A i \in 1 .. k : todo[i] \in Nat
        /\ \A i \in k + 1 .. Len(todo) : todo[i] \in Nat
    <3>1. /\ \A i \in 1 .. k : i \in 1 .. Len(todo)
          /\ \A i \in k + 1 .. Len(todo) : i \in 1 .. Len(todo)
      BY <1>3
    <3>2. \A i \in 1 .. Len(todo) : todo[i] \in Nat
      BY <1>3, ElementOfSeq
    <3>3. QED
      BY <3>1, <3>2
  <2>2. QED
    BY <1>3, <2>1, SubSeqProperties
<1>5. front \o back = todo
  <2>1. 1 \in 1 .. Len(todo) + 1 /\ k \in 1 - 1 .. Len(todo) /\ Len(todo) \in k .. Len(todo)
    BY <1>3
  <2>2. front \o back = SubSeq(todo, 1, Len(todo))
    BY <1>3, <2>1, ConcatAdjacentSubSeq
  <2>3. QED
    BY <1>3, <2>2, SubSeqFull
<1> HIDE DEF front, back
<1>6. taken' \in Seq(Nat) /\ todo' \in Seq(Nat) /\ taken' = taken \o front /\ todo' = back
  BY <1>2, <1>3, <1>4, PrefixOfConcat DEF front, back
<1>7. (Wire \o todo)' = Wire \o todo
  <2>1. Wire' = received \o (taken \o front) /\ Wire = received \o taken
    BY <1>1, <1>6 DEF Wire
  <2>2. received \o (taken \o front) = (received \o taken) \o front
    <3>1. received \in Seq(Nat) /\ taken \in Seq(Nat) /\ front \in Seq(Nat)
      BY <1>3, <1>4
    <3>2. QED
      BY <3>1, Associative
  <2>3. received \o taken \in Seq(Nat)
    BY <1>3, PrefixOfConcat
  <2>4. ((received \o taken) \o front) \o back = (received \o taken) \o (front \o back)
    <3>1. /\ received \o taken \in Seq(Nat) /\ front \in Seq(Nat)
          /\ back \in Seq(Nat)
      BY <1>4, <2>3
    <3>2. QED
      BY <3>1, Associative
  <2>5. QED
    BY <1>5, <1>6, <2>1, <2>2, <2>4, Zenon
<1>8. TypeOK' /\ WritesInOrder' /\ Surfaces'
  BY <1>1, <1>6 DEF WriterInv, TypeOK, WritesInOrder, Surfaces
<1>9. Written' = Written
  BY <1>1 DEF Written, LastType
<1>10. pc # "done"
  BY <1>1 DEF WriterInv, WritesInOrder
<1>11. QED
  BY <1>1, <1>7, <1>8, <1>9, <1>10 DEF WriterInv, NothingElseWritten

LEMMA SocketReturnsStep ==
  ASSUME WriterAssumption, WriterInv, SocketReturns
  PROVE  WriterInv'
<1>1. /\ wrote = "busy" /\ wrote' \in {"ok", "error"} /\ todo' = <<>>
      /\ wrote' = "ok" => todo = <<>>
      /\ UNCHANGED <<link, taken, received, pc, chunks, frames, surfaces, cut, interrupted>>
  BY DEF SocketReturns, Stream!Written, Stream!WriteError, Stream!Reader
<1>2. pc \in {"ack", "type", "chunk"}
  BY <1>1 DEF WriterInv, WritesInOrder
<1>3. <<>> \in Seq(Nat)
  OBVIOUS
<1>4. TypeOK' /\ WritesInOrder' /\ Surfaces'
  BY <1>1, <1>2, <1>3 DEF WriterInv, TypeOK, WritesInOrder, Surfaces
<1>5. Written' = Written /\ Wire' = Wire
  BY <1>1 DEF Written, LastType, Wire
<1>6. cut \/ NothingElseWritten'
  <2>1. SUFFICES ASSUME NothingElseWritten PROVE NothingElseWritten'
    BY DEF WriterInv
  <2>2. IsPrefix(Wire, Written)
    BY <2>1, WireIsPrefix DEF WriterInv
  <2>3. wrote' = "ok" => (Wire \o todo)' = Written'
    BY <1>1, <1>2, <1>5, <2>1 DEF NothingElseWritten
  <2>4. QED
    BY <1>1, <1>5, <2>2, <2>3 DEF NothingElseWritten
<1>7. QED
  BY <1>1, <1>4, <1>6 DEF WriterInv

-----------------------------------------------------------------------------
(* The steps of the writer *)

\* When no write is in progress and the last one has not failed, all that was
\* written is on the wire.
LEMMA AllOnTheWire ==
  ASSUME WriterAssumption, WriterInv, NothingElseWritten,
         wrote \in {"idle", "ok"}, pc # "done"
  PROVE  Wire = Written
<1>1. Wire \o todo = Written /\ todo = <<>>
  BY DEF WriterInv, WritesInOrder, NothingElseWritten
<1>2. Wire \in Seq(Nat)
  BY WireIsPrefix DEF WriterInv
<1>3. Wire \o <<>> = Wire
  BY <1>2, ConcatEmptySeq
<1>4. QED
  BY <1>1, <1>3

LEMMA WriteBegins ==
  ASSUME WriterAssumption, WriterInv, NothingElseWritten,
         wrote \in {"idle", "ok"}, pc # "done", pc' # "done",
         NEW m, Stream!Write(m), received' = received, Written' = Written \o m
  PROVE  NothingElseWritten'
<1>1. wrote' = "busy" /\ todo' = m /\ taken' = taken
  BY DEF Stream!Write
<1>2. Wire' = Wire
  BY <1>1 DEF Wire
<1>3. Wire = Written
  BY AllOnTheWire
<1>4. (Wire \o todo)' = Written'
  BY <1>1, <1>2, <1>3
<1>5. QED
  BY <1>1, <1>4 DEF NothingElseWritten

\* A step that writes nothing and after which as much is written.
LEMMA NothingWritten ==
  ASSUME WriterAssumption, WriterInv, NothingElseWritten,
         wrote \in {"idle", "ok"}, pc # "done",
         UNCHANGED <<taken, todo, wrote, received>>, Written' = Written
  PROVE  NothingElseWritten'
<1>1. Wire' = Wire
  BY DEF Wire
<1>2. Wire \o todo = Written /\ IsPrefix(Wire, Written)
  BY WireIsPrefix DEF WriterInv, NothingElseWritten
<1>3. QED
  BY <1>1, <1>2 DEF NothingElseWritten

\* The writer ends: what is on the wire is the beginning of whole frames.
LEMMA EndsInAFrame ==
  ASSUME WriterAssumption, WriterInv, NothingElseWritten, pc' = "done",
         UNCHANGED <<taken, received, frames>>
  PROVE  NothingElseWritten'
<1>1. Wire' = Wire
  BY DEF Wire
<1>2. Written' = <<ACK>> \o Frames(frames)
  BY DEF Written
<1>3. QED
  BY <1>1, <1>2, WireIsPrefix DEF WriterInv, NothingElseWritten

LEMMA AcknowledgeStep ==
  ASSUME WriterAssumption, WriterInv, Acknowledge
  PROVE  WriterInv'
<1>1. /\ pc = "handshake" /\ pc' = "ack" /\ Stream!Write(<<ACK>>)
      /\ UNCHANGED <<received, chunks, frames, surfaces, cut, interrupted>>
  BY DEF Acknowledge
<1>2. wrote' = "busy" /\ todo' = <<ACK>> /\ link' = link /\ taken' = taken /\ <<ACK>> \in Seq(Nat)
  BY <1>1, Bytes DEF Stream!Write, Stream!Reader
<1>3. wrote = "idle"
  BY <1>1 DEF WriterInv, WritesInOrder
<1>4. TypeOK' /\ WritesInOrder' /\ Surfaces'
  BY <1>1, <1>2 DEF WriterInv, TypeOK, WritesInOrder, Surfaces
<1>5. Written' = Written \o <<ACK>>
  <2>1. Written = <<>> /\ Written' = <<ACK>>
    BY <1>1 DEF Written
  <2>2. <<>> \o <<ACK>> = <<ACK>>
    BY <1>2, ConcatEmptySeq
  <2>3. QED
    BY <2>1, <2>2
<1>6. cut \/ NothingElseWritten'
  BY <1>1, <1>3, <1>5, WriteBegins DEF WriterInv
<1>7. QED
  BY <1>1, <1>4, <1>6 DEF WriterInv

LEMMA AcknowledgedStep ==
  ASSUME WriterAssumption, WriterInv, Acknowledged
  PROVE  WriterInv'
<1>1. /\ pc = "ack"
      /\ (wrote = "ok" /\ pc' = "check") \/ (wrote = "error" /\ pc' = "done")
      /\ UNCHANGED <<link, taken, todo, wrote, received, chunks, frames, surfaces, cut, interrupted>>
  BY DEF Acknowledged, streamVars
<1>2. frames = 0
  BY <1>1 DEF WriterInv, WritesInOrder
<1>3. TypeOK' /\ WritesInOrder' /\ Surfaces'
  BY <1>1, <1>2 DEF WriterInv, TypeOK, WritesInOrder, Surfaces
<1>4. pc' = "check" => Written' = Written
  <2>1. Written = <<ACK>>
    BY <1>1 DEF Written
  <2>2. pc' = "check" => Written' = <<ACK>> \o Frames(0)
    BY <1>1, <1>2 DEF Written
  <2>3. <<ACK>> \o Frames(0) = <<ACK>>
    BY Bytes, FramesFacts, ConcatEmptySeq
  <2>4. QED
    BY <2>1, <2>2, <2>3
<1>5. cut \/ NothingElseWritten'
  BY <1>1, <1>4, NothingWritten, EndsInAFrame DEF WriterInv
<1>6. QED
  BY <1>1, <1>3, <1>5 DEF WriterInv

LEMMA BeginStep ==
  ASSUME WriterAssumption, WriterInv, Begin
  PROVE  WriterInv'
<1>1. /\ pc = "check" /\ wrote = "ok"
      /\ UNCHANGED <<received, chunks, surfaces, cut, interrupted>>
  BY DEF Begin, WriterInv, WritesInOrder
<1>2. CASE pc' = "done" /\ UNCHANGED <<streamVars, frames>>
  <2>1. UNCHANGED <<link, taken, todo, wrote>>
    BY <1>2 DEF streamVars
  <2>2. TypeOK' /\ WritesInOrder' /\ Surfaces'
    BY <1>1, <1>2, <2>1 DEF WriterInv, TypeOK, WritesInOrder, Surfaces
  <2>3. QED
    BY <1>1, <1>2, <2>1, <2>2, EndsInAFrame DEF WriterInv
<1>3. CASE /\ frames # MaxFrames /\ frames' = frames + 1
           /\ Stream!Write(<<SCREE_FRAME>>) /\ pc' = "type"
  <2>1. /\ wrote' = "busy" /\ todo' = <<SCREE_FRAME>> /\ link' = link /\ taken' = taken
        /\ <<SCREE_FRAME>> \in Seq(Nat)
    BY <1>3, Bytes DEF Stream!Write, Stream!Reader
  <2>2. frames \in Nat /\ frames' \in 0 .. MaxFrames /\ frames' > 0 /\ frames' - 1 = frames
    BY <1>3 DEF WriterInv, TypeOK, WriterAssumption
  <2>3. TypeOK' /\ WritesInOrder' /\ Surfaces'
    BY <1>1, <1>3, <2>1, <2>2 DEF WriterInv, TypeOK, WritesInOrder, Surfaces
  <2>4. Written' = Written \o <<SCREE_FRAME>>
    <3>1. Written' = (<<ACK>> \o Frames(frames' - 1)) \o <<SCREE_FRAME>>
      BY <1>3 DEF Written, LastType, Frames
    <3>2. Written = <<ACK>> \o Frames(frames)
      BY <1>1 DEF Written
    <3>3. QED
      BY <2>2, <3>1, <3>2
  <2>5. cut \/ NothingElseWritten'
    BY <1>1, <1>3, <2>4, WriteBegins DEF WriterInv
  <2>6. QED
    BY <1>1, <2>3, <2>5 DEF WriterInv
<1>4. QED
  BY <1>2, <1>3 DEF Begin

LEMMA TypeWrittenStep ==
  ASSUME WriterAssumption, WriterInv, TypeWritten
  PROVE  WriterInv'
<1>1. /\ pc = "type" /\ wrote = "ok" /\ pc' = "encode" /\ surfaces' = surfaces + 1 /\ chunks' = 0
      /\ UNCHANGED <<link, taken, todo, wrote, received, frames, cut, interrupted>>
  BY DEF TypeWritten, streamVars
<1>2. Len(Png) \in Nat
  BY Bytes
<1>3. TypeOK' /\ WritesInOrder' /\ Surfaces'
  BY <1>1, <1>2 DEF WriterInv, TypeOK, WritesInOrder, Surfaces
<1>4. Written' = Written
  <2>1. LastType \in Seq(Nat)
    BY <1>1, WrittenFacts DEF WriterInv, WritesInOrder
  <2>2. LastType \o Chunks(0) = LastType
    BY <2>1, ChunksFacts, ConcatEmptySeq
  <2>3. Written = LastType /\ Written' = LastType \o Chunks(0)
    BY <1>1 DEF Written, LastType
  <2>4. QED
    BY <2>2, <2>3
<1>5. cut \/ NothingElseWritten'
  BY <1>1, <1>4, NothingWritten DEF WriterInv
<1>6. QED
  BY <1>1, <1>3, <1>5 DEF WriterInv

LEMMA FailsStep ==
  ASSUME WriterAssumption, WriterInv, TypeFails \/ ChunkFails
  PROVE  WriterInv'
<1>1. /\ pc' = "done" /\ interrupted' = TRUE /\ wrote # "busy"
      /\ UNCHANGED <<link, taken, todo, wrote, received, chunks, frames, surfaces, cut>>
      /\ pc = "type" \/ (pc = "chunk" /\ wrote = "error")
  BY DEF TypeFails, ChunkFails, GiveUp, streamVars
<1>2. TypeOK' /\ WritesInOrder' /\ Surfaces'
  BY <1>1 DEF WriterInv, TypeOK, WritesInOrder, Surfaces
<1>3. cut \/ NothingElseWritten'
  BY <1>1, EndsInAFrame DEF WriterInv
<1>4. QED
  BY <1>1, <1>2, <1>3 DEF WriterInv

LEMMA WriteChunkStep ==
  ASSUME WriterAssumption, WriterInv, WriteChunk
  PROVE  WriterInv'
<1> DEFINE m == Png[chunks + 1]
<1>1. /\ pc = "encode" /\ chunks < Len(Png) /\ Stream!Write(m) /\ pc' = "chunk"
      /\ UNCHANGED <<received, chunks, frames, surfaces, cut, interrupted>>
  BY DEF WriteChunk
<1>2. /\ wrote = "ok" /\ frames > 0 /\ Len(Png) \in Nat
      /\ chunks \in 0 .. Len(Png) /\ chunks \in 0 .. Len(Png) - 1 /\ chunks + 1 \in 1 .. Len(Png)
  BY <1>1, Bytes DEF WriterInv, WritesInOrder, TypeOK
<1>3. m \in Seq(Nat)
  BY <1>2, Bytes
<1> HIDE DEF m
<1>4. wrote' = "busy" /\ todo' = m /\ link' = link /\ taken' = taken
  BY <1>1 DEF Stream!Write, Stream!Reader
<1>5. TypeOK' /\ WritesInOrder' /\ Surfaces'
  BY <1>1, <1>2, <1>3, <1>4 DEF WriterInv, TypeOK, WritesInOrder, Surfaces
<1>6. Written' = Written \o m
  <2>1. Written = LastType \o Chunks(chunks) /\ Written' = LastType \o Chunks(chunks + 1)
    BY <1>1 DEF Written, LastType
  <2>2. Chunks(chunks + 1) = Chunks(chunks) \o m /\ Chunks(chunks) \in Seq(Nat)
    BY <1>2, ChunksFacts DEF m
  <2>3. LastType \in Seq(Nat)
    BY <1>2, WrittenFacts DEF WriterInv
  <2>4. (LastType \o Chunks(chunks)) \o m = LastType \o (Chunks(chunks) \o m)
    BY <1>3, <2>2, <2>3, Associative
  <2>5. QED
    BY <2>1, <2>2, <2>4
<1>7. cut \/ NothingElseWritten'
  BY <1>1, <1>2, <1>6, WriteBegins DEF WriterInv
<1>8. QED
  BY <1>1, <1>5, <1>7 DEF WriterInv

LEMMA ChunkWrittenStep ==
  ASSUME WriterAssumption, WriterInv, ChunkWritten
  PROVE  WriterInv'
<1>1. /\ pc = "chunk" /\ wrote = "ok" /\ chunks' = chunks + 1 /\ pc' = "encode"
      /\ UNCHANGED <<link, taken, todo, wrote, received, frames, surfaces, cut, interrupted>>
  BY DEF ChunkWritten, streamVars
<1>2. chunks + 1 \in 0 .. Len(Png) /\ Len(Png) \in Nat
  BY <1>1, Bytes DEF WriterInv, TypeOK, WritesInOrder
<1>3. TypeOK' /\ WritesInOrder' /\ Surfaces'
  BY <1>1, <1>2 DEF WriterInv, TypeOK, WritesInOrder, Surfaces
<1>4. Written' = Written
  BY <1>1 DEF Written, LastType
<1>5. cut \/ NothingElseWritten'
  BY <1>1, <1>4, NothingWritten DEF WriterInv
<1>6. QED
  BY <1>1, <1>3, <1>5 DEF WriterInv

LEMMA FrameOverStep ==
  ASSUME WriterAssumption, WriterInv, FrameOver
  PROVE  WriterInv'
<1>1. /\ pc = "encode" /\ pc' = "check" /\ surfaces' = surfaces - 1
      /\ cut' = (cut \/ chunks < Len(Png))
      /\ UNCHANGED <<link, taken, todo, wrote, received, chunks, frames, interrupted>>
  BY DEF FrameOver, streamVars
<1>2. /\ wrote = "ok" /\ frames > 0 /\ surfaces = 1
      /\ chunks \in 0 .. Len(Png) /\ Len(Png) \in Nat
  BY <1>1, Bytes DEF WriterInv, WritesInOrder, TypeOK, Surfaces
<1>3. cut \in BOOLEAN /\ cut' \in BOOLEAN
  BY <1>1, Zenon DEF WriterInv, TypeOK
<1>4. TypeOK' /\ WritesInOrder' /\ Surfaces'
  BY <1>1, <1>2, <1>3 DEF WriterInv, TypeOK, WritesInOrder, Surfaces
<1>5. ASSUME ~cut, chunks = Len(Png) PROVE NothingElseWritten'
  <2>1. Written = LastType \o Image
    BY <1>1, <1>5, ChunksFacts DEF Written
  <2>2. Written' = <<ACK>> \o Frames(frames)
    BY <1>1 DEF Written
  <2>3. <<ACK>> \o Frames(frames) = LastType \o Image
    BY <1>2, WrittenFacts DEF WriterInv
  <2>4. NothingElseWritten
    BY <1>5 DEF WriterInv
  <2>5. QED
    BY <1>1, <1>2, <2>1, <2>2, <2>3, <2>4, NothingWritten
<1>6. cut' \/ NothingElseWritten'
  <2>1. chunks < Len(Png) \/ chunks = Len(Png)
    BY <1>2
  <2>2. QED
    BY <1>1, <1>5, <2>1, Zenon
<1>7. QED
  BY <1>4, <1>6 DEF WriterInv

-----------------------------------------------------------------------------
(* The theorems *)

LEMMA InitStep ==
  ASSUME WriterAssumption, Init
  PROVE  WriterInv
<1>1. /\ link = "up" /\ taken = <<>> /\ todo = <<>> /\ wrote = "idle" /\ received = <<>>
      /\ pc = "handshake" /\ chunks = 0 /\ frames = 0 /\ surfaces = 0 /\ cut = FALSE
      /\ interrupted = FALSE
  BY DEF Init, Stream!Init
<1>2. <<>> \in Seq(Nat) /\ Len(Png) \in Nat /\ MaxFrames \in Nat
  BY Bytes DEF WriterAssumption
<1>3. TypeOK /\ WritesInOrder /\ Surfaces
  <2>1. chunks \in 0 .. Len(Png) /\ frames \in 0 .. MaxFrames
    BY <1>1, <1>2
  <2>2. received \in Seq(Nat) /\ taken \in Seq(Nat) /\ todo \in Seq(Nat)
    BY <1>1, <1>2
  <2>3. cut \in BOOLEAN /\ interrupted \in BOOLEAN
    BY <1>1
  <2>4. TypeOK
    BY <1>1, <2>1, <2>2, <2>3, Zenon DEF TypeOK
  <2>5. WritesInOrder /\ Surfaces
    BY <1>1 DEF WritesInOrder, Surfaces
  <2>6. QED
    BY <2>4, <2>5
<1>4. NothingElseWritten
  <2>1. <<>> \o <<>> = <<>>
    BY <1>2, ConcatEmptySeq
  <2>2. Wire \o todo = <<>>
    BY <1>1, <2>1 DEF Wire
  <2>3. Written = <<>>
    BY <1>1 DEF Written
  <2>4. QED
    BY <1>1, <2>2, <2>3 DEF NothingElseWritten
<1>5. QED
  BY <1>3, <1>4 DEF WriterInv

(***************************************************************************)
(* PacketWriterAsync: the writer waits for each write, so what it has      *)
(* written is on the wire or still to be taken, at every step and to the   *)
(* byte, unless a write has failed or cairo has given up an image; and of  *)
(* the surfaces it creates at most one is left.  For every image, of any   *)
(* number of chunks, and any number of frames.                             *)
(***************************************************************************)
THEOREM WriterCorrect ==
  ASSUME WriterAssumption
  PROVE  SafeSpec => []WriterInv
<1>1. Init => WriterInv
  BY InitStep
<1>2. WriterInv /\ [Next]_vars => WriterInv'
  <2>1. SUFFICES ASSUME WriterInv, [Next]_vars PROVE WriterInv'
    OBVIOUS
  <2>2. CASE ClientReceives
    BY <2>1, <2>2, ClientReceivesStep
  <2>3. CASE LinkLost
    BY <2>1, <2>3, LinkLostStep
  <2>4. CASE SocketTakes
    BY <2>1, <2>4, SocketTakesStep
  <2>5. CASE SocketReturns
    BY <2>1, <2>5, SocketReturnsStep
  <2>6. CASE HandlerInterrupts
    BY <2>1, <2>6, HandlerInterruptsStep
  <2>7. CASE Writer
    BY <2>1, <2>7, AcknowledgeStep, AcknowledgedStep, BeginStep, TypeWrittenStep, FailsStep,
       WriteChunkStep, ChunkWrittenStep, FrameOverStep DEF Writer
  <2>8. CASE Finished \/ UNCHANGED vars
    <3>1. UNCHANGED <<link, taken, todo, wrote, received, pc, chunks, frames, surfaces, cut, interrupted>>
      BY <2>8 DEF Finished, vars, streamVars
    <3>2. QED
      BY <2>1, <3>1, OthersKeep DEF WriterInv, TypeOK
  <2>9. QED
    BY <2>1, <2>2, <2>3, <2>4, <2>5, <2>6, <2>7, <2>8 DEF Next
<1>3. QED
  BY <1>1, <1>2, PTL DEF SafeSpec

(***************************************************************************)
(* writeScreenCallback() and the status that cairo passes on: the client   *)
(* is given the acknowledgement and then frames, nothing between them and  *)
(* only the last incomplete, unless cairo has given up an image.           *)
(***************************************************************************)
THEOREM StreamIsFrames ==
  ASSUME WriterAssumption
  PROVE  SafeSpec => []StreamOfFrames
<1>1. WriterInv => StreamOfFrames
  <2>1. SUFFICES ASSUME WriterInv, NothingElseWritten PROVE StreamOfFrames
    BY DEF WriterInv, StreamOfFrames
  <2>2. IsPrefix(Wire, <<ACK>> \o Frames(frames))
    BY <2>1, WireIsPrefix DEF WriterInv
  <2>3. pc = "check" => Wire = <<ACK>> \o Frames(frames)
    <3>1. SUFFICES ASSUME pc = "check" PROVE Wire = <<ACK>> \o Frames(frames)
      OBVIOUS
    <3>2. wrote = "ok" /\ Written = <<ACK>> \o Frames(frames)
      BY <2>1, <3>1 DEF WriterInv, WritesInOrder, Written
    <3>3. QED
      BY <2>1, <3>1, <3>2, AllOnTheWire
  <2>4. QED
    BY <2>2, <2>3 DEF StreamOfFrames
<1>2. QED
  BY <1>1, WriterCorrect, PTL
=============================================================================
