---------------------------- MODULE DatasetProofs ----------------------------
(***************************************************************************)
(* What Dataset promises of the data holds for every project: IInv, which  *)
(* says for each phase of a project what its rows, tasks, batches and      *)
(* export are, is inductive, and it implies the invariants of the export,  *)
(* its report, the offsets of texts and the transcripts of recordings.     *)
(* Most of the module is about the operators of Segmentation and           *)
(* Labelling, for every argument they may be given.                        *)
(***************************************************************************)
EXTENDS Dataset, FiniteSetTheorems, SequenceTheorems, WellFoundedInduction, NaturalsInduction, TLAPS

-----------------------------------------------------------------------------
(* Numbers, minima and maxima, and FlattenSeq.  The provers take no        *)
(* induction scheme, so an induction is over the set of numbers for which  *)
(* the claim holds (Induct), and a recursive function is any function that *)
(* satisfies its equation.                                                 *)

(* The order of the numbers has no infinite descent.                       *)
LEMMA LessThan == IsWellFoundedOn({r \in Nat \X Nat : r[1] < r[2]}, Nat)
<1>1. OpToRel(<, Nat) = {r \in Nat \X Nat : r[1] < r[2]}
  BY DEF OpToRel
<1>. QED BY <1>1, NatLessThanWellFounded

(* A set of numbers has a least one.                                       *)
LEMMA Least ==
    ASSUME NEW S \in SUBSET Nat, S # {}
    PROVE  \E n \in S : \A m \in S : n <= m
<1>. DEFINE R == {r \in Nat \X Nat : r[1] < r[2]}
<1>1. PICK n \in S : \A m \in S : <<m, n>> \notin R
  <2>. HIDE DEF R
  <2>1. IsWellFoundedOn(R, Nat)
    BY LessThan DEF R
  <2>. QED BY <2>1, WFMin
<1>2. ASSUME NEW m \in S PROVE n <= m
  <2>1. <<m, n>> \in Nat \X Nat /\ <<m, n>>[1] = m /\ <<m, n>>[2] = n
    OBVIOUS
  <2>. QED BY <1>1, <2>1
<1>. QED BY <1>2

(* Induction: a set with 0 that is closed under successor has all numbers. *)
LEMMA Induct ==
    ASSUME NEW S, 0 \in S, \A n \in Nat : n \in S => n + 1 \in S
    PROVE  Nat \subseteq S
<1>. SUFFICES ASSUME Nat \ S # {} PROVE FALSE
  OBVIOUS
<1>1. PICK n \in Nat \ S : \A m \in Nat \ S : n <= m
  BY Least
<1>2. n - 1 \in Nat /\ n - 1 \notin S
  BY <1>1
<1>. QED BY <1>1, <1>2

(* The minimum of a set of numbers is its least one.                       *)
LEMMA MinIs ==
    ASSUME NEW S \in SUBSET Nat, S # {}
    PROVE  Min(S) \in S /\ \A n \in S : Min(S) <= n
BY Least DEF Min

(* The maximum of a bounded set of numbers is its greatest one.            *)
LEMMA MaxIs ==
    ASSUME NEW S \in SUBSET Nat, S # {}, NEW b \in Nat, \A n \in S : n <= b
    PROVE  Max(S) \in S /\ \A n \in S : Max(S) >= n
<1>. DEFINE T == {b - n : n \in S}
<1>1. T \in SUBSET Nat /\ T # {}
  <2>1. \A n \in S : b - n \in Nat
    OBVIOUS
  <2>. QED BY <2>1
<1>2. PICK m \in S : \A n \in S : b - m <= b - n
  <2>1. PICK t \in T : \A u \in T : t <= u
    <3>. HIDE DEF T
    <3>. QED BY <1>1, Least
  <2>. QED BY <2>1
<1>3. \A n \in S : m >= n
  BY <1>2
<1>. QED BY <1>3 DEF Max

(* The recursion of FlattenSeq.                                            *)
Joins(g, seqs) ==
    g = [i \in 1..Len(seqs) |-> IF i = 1 THEN seqs[i] ELSE g[i - 1] \o seqs[i]]

(* FlattenSeq is a function that satisfies it.                             *)
LEMMA FlattenUnfolds ==
    ASSUME NEW seqs, Len(seqs) # 0
    PROVE  FlattenSeq(seqs) = (CHOOSE g : Joins(g, seqs))[Len(seqs)]
BY DEF FlattenSeq, Joins

(* There is one.                                                           *)
LEMMA JoinsExist ==
    ASSUME NEW seqs, Len(seqs) \in Nat
    PROVE  \E g : Joins(g, seqs)
<1>. DEFINE n == Len(seqs)
            Value(g, i) == IF i = 1 THEN seqs[i] ELSE g[i - 1] \o seqs[i]
            Upto == {k \in Nat : k <= n => \E g : /\ DOMAIN g = 1..n
                                                  /\ \A i \in 1..k : g[i] = Value(g, i)}
<1>1. 0 \in Upto
  <2>1. DOMAIN [i \in 1..n |-> 0] = 1..n /\ 1..0 = {}
    OBVIOUS
  <2>. QED BY <2>1
<1>2. ASSUME NEW k \in Nat, k \in Upto PROVE k + 1 \in Upto
  <2>. SUFFICES ASSUME k + 1 <= n
                PROVE  \E g : DOMAIN g = 1..n /\ \A i \in 1..(k + 1) : g[i] = Value(g, i)
    OBVIOUS
  <2>1. PICK g : DOMAIN g = 1..n /\ \A i \in 1..k : g[i] = Value(g, i)
    BY <1>2
  <2>. DEFINE h == [i \in 1..n |-> IF i = k + 1 THEN Value(g, i) ELSE g[i]]
  <2>2. \A i \in 1..(k + 1) : i # k + 1 => h[i] = g[i] /\ i \in 1..k
    OBVIOUS
  <2>3. \A i \in 1..(k + 1) : i # 1 => h[i - 1] = g[i - 1]
    OBVIOUS
  <2>4. h[k + 1] = Value(g, k + 1)
    OBVIOUS
  <2>5. DOMAIN h = 1..n
    OBVIOUS
  <2>. HIDE DEF h
  <2>6. ASSUME NEW i \in 1..(k + 1) PROVE h[i] = Value(h, i)
    <3>1. h[i] = Value(g, i)
      BY <2>1, <2>2, <2>4
    <3>. QED BY <2>3, <3>1
  <2>. QED BY <2>5, <2>6
<1>3. n \in Upto
  <2>. HIDE DEF Upto
  <2>. QED BY <1>1, <1>2, Induct
<1>4. PICK g : DOMAIN g = 1..n /\ \A i \in 1..n : g[i] = Value(g, i)
  BY <1>3
<1>. DEFINE h == [i \in 1..n |-> g[i]]
<1>5. \A i \in 1..n : h[i] = g[i] /\ (i # 1 => h[i - 1] = g[i - 1])
  OBVIOUS
<1>6. h = [i \in 1..n |-> h[i]]
  OBVIOUS
<1>. HIDE DEF h
<1>7. \A i \in 1..n : h[i] = Value(h, i)
  BY <1>4, <1>5
<1>. QED BY <1>6, <1>7 DEF Joins

(* FlattenSeq, from left to right: g[i] joins the first i sequences.  *)
Flattening(g, seqs, V) ==
    /\ g[0] = <<>>
    /\ \A i \in 1..Len(seqs) : g[i] = g[i - 1] \o seqs[i]
    /\ \A i \in 0..Len(seqs) : g[i] \in Seq(V)
    /\ FlattenSeq(seqs) = g[Len(seqs)]

(* Flattening one sequence more appends it.                                *)
LEMMA FlattenStep ==
    ASSUME NEW V, NEW seqs \in Seq(Seq(V))
    PROVE  \E g : Flattening(g, seqs, V)
<1>. SUFFICES ASSUME NEW n \in Nat, n = Len(seqs), n = 0 => seqs = <<>>,
                     \A i \in 1..n : seqs[i] \in Seq(V)
              PROVE  \E g : Flattening(g, seqs, V)
  <2>1. Len(seqs) \in Nat /\ (Len(seqs) = 0 => seqs = <<>>)
    OBVIOUS
  <2>2. \A i \in 1..Len(seqs) : seqs[i] \in Seq(V)
    OBVIOUS
  <2>. QED BY <2>1, <2>2
<1>. DEFINE Holds(g) == /\ g[0] = <<>>
                        /\ \A i \in 1..n : g[i] = g[i - 1] \o seqs[i]
                        /\ \A i \in 0..n : g[i] \in Seq(V)
                        /\ FlattenSeq(seqs) = g[n]
<1>. SUFFICES \E g : Holds(g)
  <2>1. ASSUME NEW g, Holds(g) PROVE Flattening(g, seqs, V)
    BY <2>1, Zenon DEF Flattening
  <2>. HIDE DEF Holds
  <2>. QED BY <2>1
<1>1. CASE n = 0
  <2>. DEFINE g == [i \in 0..0 |-> <<>>]
  <2>1. FlattenSeq(seqs) = <<>>
    BY <1>1 DEF FlattenSeq
  <2>2. g[0] = <<>> /\ <<>> \in Seq(V)
    OBVIOUS
  <2>. HIDE DEF g
  <2>3. (\A i \in 0..n : i = 0) /\ (\A i \in 1..n : FALSE)
    BY <1>1
  <2>. QED BY <1>1, <2>1, <2>2, <2>3
<1>2. CASE n # 0
  <2>. DEFINE f == CHOOSE f : Joins(f, seqs)
  <2>1. Joins(f, seqs) /\ FlattenSeq(seqs) = f[n]
    BY <1>2, JoinsExist, FlattenUnfolds
  <2>. HIDE DEF f
  <2>2. \A i \in 1..n : f[i] = IF i = 1 THEN seqs[i] ELSE f[i - 1] \o seqs[i]
    <3>. DEFINE h == [i \in 1..n |-> IF i = 1 THEN seqs[i] ELSE f[i - 1] \o seqs[i]]
    <3>1. \A i \in 1..n : h[i] = IF i = 1 THEN seqs[i] ELSE f[i - 1] \o seqs[i]
      OBVIOUS
    <3>2. f = h
      BY <2>1 DEF Joins
    <3>. HIDE DEF h
    <3>. QED BY <3>1, <3>2
  <2>. DEFINE g == [i \in 0..n |-> IF i = 0 THEN <<>> ELSE f[i]]
              Typed == {i \in Nat : i <= n => g[i] \in Seq(V)}
  <2>3. g[0] = <<>> /\ \A i \in 1..n : g[i] = f[i]
    OBVIOUS
  <2>. HIDE DEF g
  <2>4. ASSUME NEW i \in 1..n PROVE g[i] = g[i - 1] \o seqs[i]
    <3>1. CASE i = 1
      <4>1. g[i] = seqs[i] /\ g[i - 1] = <<>> /\ seqs[i] \in Seq(V)
        BY <2>2, <2>3, <3>1
      <4>. QED BY <4>1, ConcatEmptySeq
    <3>2. CASE i # 1
      <4>1. i - 1 \in 1..n
        BY <3>2
      <4>. QED BY <2>2, <2>3, <3>2, <4>1
    <3>. QED BY <3>1, <3>2
  <2>5. 0 \in Typed
    <3>1. g[0] \in Seq(V)
      BY <2>3
    <3>. QED BY <3>1
  <2>6. ASSUME NEW i \in Nat, i \in Typed PROVE i + 1 \in Typed
    <3>. SUFFICES ASSUME i + 1 <= n PROVE g[i + 1] \in Seq(V)
      OBVIOUS
    <3>1. g[i] \in Seq(V) /\ seqs[i + 1] \in Seq(V) /\ i + 1 \in 1..n
      BY <2>6
    <3>2. g[i + 1] = g[(i + 1) - 1] \o seqs[i + 1]
      BY <2>4, <3>1, Zenon
    <3>3. (i + 1) - 1 = i
      OBVIOUS
    <3>. QED BY <3>1, <3>2, <3>3
  <2>7. \A i \in 0..n : g[i] \in Seq(V)
    <3>1. Nat \subseteq Typed
      <4>. HIDE DEF Typed
      <4>. QED BY <2>5, <2>6, Induct
    <3>. QED BY <3>1
  <2>8. FlattenSeq(seqs) = g[n]
    BY <1>2, <2>1, <2>3
  <2>. QED BY <2>3, <2>4, <2>7, <2>8
<1>. QED BY <1>1, <1>2

(* A sequence of sequences over V, joined, is a sequence over V.           *)
LEMMA FlattenType ==
    ASSUME NEW V, NEW seqs \in Seq(Seq(V))
    PROVE  FlattenSeq(seqs) \in Seq(V)
<1>1. PICK g : Flattening(g, seqs, V)
  BY FlattenStep
<1>2. Len(seqs) \in 0..Len(seqs)
  OBVIOUS
<1>. QED BY <1>1, <1>2 DEF Flattening

-----------------------------------------------------------------------------
(* A finite set with a strict total order: how many elements are before    *)
(* one tells its place.                                                    *)

(* R orders S strictly and totally; the rank of an element is the number   *)
(* of those before it.                                                     *)
Orders(R, S) ==
    /\ \A s \in S : <<s, s>> \notin R
    /\ \A s, t, u \in S : <<s, t>> \in R /\ <<t, u>> \in R => <<s, u>> \in R
    /\ \A s, t \in S : s # t => <<s, t>> \in R \/ <<t, s>> \in R

Rank(R, S, s) == Cardinality({t \in S : <<t, s>> \in R})

(* Ranks grow along the order, and every number up to the size is one.     *)
LEMMA Ranked ==
    ASSUME NEW S, IsFiniteSet(S), NEW R, Orders(R, S)
    PROVE  /\ \A s \in S : Rank(R, S, s) \in 0..(Cardinality(S) - 1)
           /\ \A s, t \in S : <<s, t>> \in R => Rank(R, S, s) < Rank(R, S, t)
           /\ \A n \in 1..Cardinality(S) : \E s \in S : Rank(R, S, s) = n - 1
<1>. DEFINE Below(s) == {t \in S : <<t, s>> \in R}
            N == Cardinality(S)
<1>0. N \in Nat
  BY FS_CardinalityType
<1>1. ASSUME NEW s \in S
      PROVE  /\ IsFiniteSet(Below(s)) /\ Cardinality(Below(s)) \in Nat
             /\ Cardinality(Below(s)) < N
  <2>1. Below(s) \subseteq S /\ Below(s) # S
    BY DEF Orders
  <2>. HIDE DEF Below
  <2>. QED BY <2>1, FS_Subset, FS_CardinalityType
<1>2. ASSUME NEW s \in S, NEW t \in S, <<s, t>> \in R
      PROVE  Cardinality(Below(s)) < Cardinality(Below(t))
  <2>1. Below(s) \subseteq Below(t)
    BY <1>2 DEF Orders
  <2>2. s \in Below(t) /\ s \notin Below(s)
    BY <1>2 DEF Orders
  <2>3. Below(s) # Below(t)
    BY <2>2
  <2>. HIDE DEF Below
  <2>4. IsFiniteSet(Below(t)) /\ Cardinality(Below(t)) \in Nat /\ Cardinality(Below(s)) \in Nat
    BY <1>1
  <2>. QED BY <2>1, <2>3, <2>4, FS_Subset
<1>3. ASSUME NEW n \in 1..N PROVE \E s \in S : Cardinality(Below(s)) = n - 1
  <2>. DEFINE rank == [s \in S |-> Cardinality(Below(s))]
  <2>1. rank \in [S -> 0..(N - 1)]
    <3>. HIDE DEF Below
    <3>1. \A s \in S : Cardinality(Below(s)) \in 0..(N - 1)
      BY <1>0, <1>1
    <3>. QED BY <3>1
  <2>2. \A s, t \in S : s # t => rank[s] # rank[t]
    <3>. TAKE s, t \in S
    <3>1. s # t => <<s, t>> \in R \/ <<t, s>> \in R
      BY DEF Orders
    <3>2. rank[s] = Cardinality(Below(s)) /\ rank[t] = Cardinality(Below(t))
      OBVIOUS
    <3>3. Cardinality(Below(s)) \in Nat /\ Cardinality(Below(t)) \in Nat
      BY <1>1
    <3>. HIDE DEF rank, Below
    <3>. QED BY <1>2, <3>1, <3>2, <3>3
  <2>3. IsFiniteSet(0..(N - 1)) /\ Cardinality(0..(N - 1)) = N
    <3>. HIDE DEF N
    <3>1. 0 \in Int /\ N - 1 \in Int
      BY <1>0
    <3>. QED BY <1>0, <3>1, FS_Interval
  <2>. HIDE DEF rank
  <2>4. rank \in Injection(S, 0..(N - 1))
    BY <2>1, <2>2 DEF Injection, IsInjective
  <2>5. rank \in Surjection(S, 0..(N - 1))
    BY <2>3, <2>4, FS_Injection
  <2>6. n - 1 \in 0..(N - 1)
    BY <1>0
  <2>7. PICK s \in S : rank[s] = n - 1
    BY <2>5, <2>6 DEF Surjection
  <2>. QED BY <2>7 DEF rank
<1>4. \A s : Rank(R, S, s) = Cardinality(Below(s))
  BY DEF Rank
<1>. HIDE DEF Below
<1>5. \A s \in S : Cardinality(Below(s)) \in 0..(N - 1)
  BY <1>0, <1>1
<1>. QED BY <1>2, <1>3, <1>4, <1>5

-----------------------------------------------------------------------------
(* Rows of the segments table, in order (InOrder).                         *)

(* Rows of the table: finitely many, each with an asset and an index.      *)
Rows(S) ==
    /\ IsFiniteSet(S)
    /\ \A s \in S : s.asset \in Nat /\ s.index \in Nat
    /\ \A s, t \in S : SegmentId(s) = SegmentId(t) => s = t

(* q lists S in its order, every row once.                                 *)
Lists(q, S) ==
    /\ q \in [1..Cardinality(S) -> S]
    /\ \A i, j \in 1..Cardinality(S) : i < j => Before(q[i], q[j])
    /\ \A s \in S : \E i \in 1..Cardinality(S) : q[i] = s

(* InOrder does.                                                           *)
LEMMA InOrderLists ==
    ASSUME NEW S, Rows(S)
    PROVE  Lists(InOrder(S), S)
<1>. DEFINE R == {r \in S \X S : Before(r[1], r[2])}
            N == Cardinality(S)
            rank(s) == Rank(R, S, s)
            q == InOrder(S)
<1>0. IsFiniteSet(S) /\ N \in Nat
  BY FS_CardinalityType DEF Rows
<1>1. \A s, t \in S : <<s, t>> \in R <=> Before(s, t)
  OBVIOUS
<1>2. Orders(R, S)
  <2>1. ASSUME NEW s \in S PROVE ~Before(s, s)
    BY DEF Rows, Before
  <2>2. ASSUME NEW s \in S, NEW t \in S, NEW u \in S, Before(s, t), Before(t, u)
        PROVE  Before(s, u)
    BY <2>2 DEF Rows, Before
  <2>3. ASSUME NEW s \in S, NEW t \in S, s # t PROVE Before(s, t) \/ Before(t, s)
    <3>1. ~(s.asset = t.asset /\ s.index = t.index)
      BY <2>3 DEF Rows, SegmentId
    <3>. QED BY <3>1 DEF Rows, Before
  <2>. HIDE DEF R
  <2>. QED BY <1>1, <2>1, <2>2, <2>3 DEF Orders
<1>3. /\ \A s \in S : rank(s) \in 0..(N - 1)
      /\ \A s, t \in S : <<s, t>> \in R => rank(s) < rank(t)
      /\ \A n \in 1..N : \E s \in S : rank(s) = n - 1
  <2>. HIDE DEF R
  <2>. QED BY <1>0, <1>2, Ranked
<1>4. \A s \in S : Cardinality({t \in S : Before(t, s)}) = rank(s)
  <2>. TAKE s \in S
  <2>1. {t \in S : Before(t, s)} = {t \in S : <<t, s>> \in R}
    OBVIOUS
  <2>. QED BY <2>1 DEF Rank
<1>5. q = [i \in 1..N |-> CHOOSE s \in S : Cardinality({t \in S : Before(t, s)}) = i - 1]
  BY DEF InOrder
<1>. HIDE DEF R, rank, q
<1>6. \A i \in 1..N : q[i] \in S /\ rank(q[i]) = i - 1
  <2>. TAKE i \in 1..N
  <2>1. \E s \in S : Cardinality({t \in S : Before(t, s)}) = i - 1
    BY <1>3, <1>4
  <2>2. q[i] = CHOOSE s \in S : Cardinality({t \in S : Before(t, s)}) = i - 1
    BY <1>5
  <2>3. q[i] \in S /\ Cardinality({t \in S : Before(t, q[i])}) = i - 1
    BY <2>1, <2>2
  <2>. QED BY <1>4, <2>3
<1>7. q \in [1..N -> S]
  BY <1>5, <1>6
<1>8. ASSUME NEW i \in 1..N, NEW j \in 1..N, i < j PROVE Before(q[i], q[j])
  <2>. DEFINE s == q[i]
              t == q[j]
  <2>1. s \in S /\ t \in S /\ rank(s) = i - 1 /\ rank(t) = j - 1
    BY <1>6
  <2>. HIDE DEF s, t, N
  <2>2. s # t /\ ~(rank(t) < rank(s))
    BY <1>8, <2>1
  <2>3. <<s, t>> \in R
    BY <1>2, <1>3, <2>1, <2>2 DEF Orders
  <2>. QED BY <1>1, <2>1, <2>3 DEF s, t
<1>9. ASSUME NEW s \in S PROVE \E i \in 1..N : q[i] = s
  <2>. DEFINE i == rank(s) + 1
              t == q[i]
  <2>. HIDE DEF N
  <2>1. i \in 1..N /\ rank(s) = i - 1 /\ rank(s) \in Nat
    BY <1>0, <1>3
  <2>2. t \in S /\ rank(t) = rank(s)
    BY <1>6, <2>1
  <2>. HIDE DEF t
  <2>3. t # s => <<t, s>> \in R \/ <<s, t>> \in R
    BY <1>2, <2>2 DEF Orders
  <2>4. ~(rank(t) < rank(s)) /\ ~(rank(s) < rank(t))
    BY <2>1, <2>2
  <2>5. t = s
    BY <1>3, <2>2, <2>3, <2>4
  <2>. QED BY <2>1, <2>5 DEF t
<1>. QED BY <1>7, <1>8, <1>9 DEF Lists, q

-----------------------------------------------------------------------------
(* Division, and the shares of a list cut into portions.                   *)

(* Multiples of z.                                                         *)
LEMMA Multiples ==
    ASSUME NEW z \in Nat \ {0}, NEW a \in Int, NEW b \in Int
    PROVE  /\ a * z \in Int /\ (a + 1) * z = a * z + z /\ (a - 1) * z = a * z - z
           /\ a <= b => a * z <= b * z
           /\ a < b => a * z + z <= b * z
<1>1. a * z \in Int /\ b * z \in Int /\ (b - a) * z = b * z - a * z
  OBVIOUS
<1>2. a <= b => (b - a) * z >= 0
  BY b - a \in Int
<1>3. a < b => (b - a - 1) * z >= 0 /\ (b - a - 1) * z = (b - a) * z - z
  <2>. SUFFICES ASSUME a < b PROVE (b - a - 1) * z >= 0 /\ (b - a - 1) * z = (b - a) * z - z
    OBVIOUS
  <2>1. b - a - 1 \in Nat
    OBVIOUS
  <2>2. \A n \in Nat : n * z >= 0
    OBVIOUS
  <2>. QED BY <2>1, <2>2
<1>. QED BY <1>1, <1>2, <1>3

(* Division rounds down.                                                   *)
LEMMA Division ==
    ASSUME NEW a \in Nat, NEW z \in Nat \ {0}
    PROVE  a \div z \in Nat /\ (a \div z) * z <= a /\ a < (a \div z) * z + z
OBVIOUS

(* c shares of z each take N things, and all but the last are full.        *)
Portions(N, z, c) ==
    /\ c \in Nat /\ (c - 1) * z < N /\ N <= c * z
    /\ \A n \in 1..c : (n - 1) * z \in Nat /\ (n - 1) * z < N /\ (n < c => n * z <= N)
    /\ \A i \in 1..N : \E n \in 1..c : (n - 1) * z < i /\ i <= n * z
    /\ \A m, n \in 1..c : \A k, l \in 1..z :
           (n - 1) * z + k = (m - 1) * z + l => n = m /\ k = l

(* N things shared out, z to each but the last.                            *)
LEMMA Shares ==
    ASSUME NEW N \in Nat \ {0}, NEW z \in Nat \ {0}, NEW c, c = (N + z - 1) \div z
    PROVE  Portions(N, z, c)
<1>1. N + z - 1 \in Nat
  OBVIOUS
<1>2. c \in Nat /\ c * z <= N + z - 1 /\ N + z - 1 < c * z + z
  BY <1>1, Division
<1>3. c * z \in Nat /\ (c - 1) * z = c * z - z
  BY <1>2, Multiples
<1>4. (c - 1) * z < N /\ N <= c * z
  BY <1>2, <1>3
<1>5. ASSUME NEW n \in 1..c
      PROVE (n - 1) * z \in Nat /\ (n - 1) * z < N /\ (n < c => n * z <= N)
  <2>1. (n - 1) * z \in Nat
    <3>1. n - 1 \in Nat
      OBVIOUS
    <3>. QED BY <3>1
  <2>2. (n - 1) * z <= (c - 1) * z
    <3>1. n - 1 <= c - 1 /\ n - 1 \in Int /\ c - 1 \in Int
      BY <1>2
    <3>. QED BY <3>1, Multiples
  <2>3. n < c => n * z <= (c - 1) * z
    <3>1. n < c => n <= c - 1
      BY <1>2
    <3>2. n \in Int /\ c - 1 \in Int
      BY <1>2
    <3>. QED BY <3>1, <3>2, Multiples
  <2>4. (c - 1) * z \in Int /\ n * z \in Int
    BY <1>2, <1>3
  <2>. QED BY <1>4, <2>1, <2>2, <2>3, <2>4
<1>6. ASSUME NEW i \in 1..N PROVE \E n \in 1..c : (n - 1) * z < i /\ i <= n * z
  <2>. DEFINE p == (i - 1) \div z
  <2>1. i - 1 \in Nat
    OBVIOUS
  <2>2. p \in Nat /\ p * z <= i - 1 /\ i - 1 < p * z + z
    BY <2>1, Division
  <2>. HIDE DEF p
  <2>3. p * z \in Nat /\ (p + 1) * z = p * z + z
    BY <2>2, Multiples
  <2>4. p < c
    <3>. SUFFICES ASSUME c <= p PROVE FALSE
      BY <1>2, <2>2
    <3>1. c * z <= p * z
      BY <1>2, <2>2, Multiples
    <3>. QED BY <1>3, <1>4, <2>2, <2>3, <3>1
  <2>5. p + 1 \in 1..c /\ (p + 1) - 1 = p
    BY <1>2, <2>2, <2>4
  <2>6. p * z < i /\ i <= (p + 1) * z
    BY <2>2, <2>3
  <2>. QED BY <2>5, <2>6
<1>7. ASSUME NEW m \in 1..c, NEW n \in 1..c, NEW k \in 1..z, NEW l \in 1..z,
             (n - 1) * z + k = (m - 1) * z + l
      PROVE  n = m /\ k = l
  <2>1. (m - 1) * z \in Nat /\ (n - 1) * z \in Nat
    BY <1>5
  <2>2. m - 1 \in Int /\ n - 1 \in Int
    OBVIOUS
  <2>3. ~(n < m)
    <3>. SUFFICES ASSUME n - 1 < m - 1 PROVE FALSE
      OBVIOUS
    <3>1. (n - 1) * z + z <= (m - 1) * z
      BY <2>2, Multiples
    <3>. QED BY <1>7, <2>1, <3>1
  <2>4. ~(m < n)
    <3>. SUFFICES ASSUME m - 1 < n - 1 PROVE FALSE
      OBVIOUS
    <3>1. (m - 1) * z + z <= (n - 1) * z
      BY <2>2, Multiples
    <3>. QED BY <1>7, <2>1, <3>1
  <2>5. n = m
    BY <2>3, <2>4
  <2>. QED BY <1>7, <2>1, <2>5
<1>. QED BY <1>2, <1>4, <1>5, <1>6, <1>7 DEF Portions

-----------------------------------------------------------------------------
(* Planning: BuildTasks.                                                   *)

(* ts shares the rows of S out: each is in one place of one task.          *)
SharesOut(ts, S) ==
    /\ Len(ts) \in Nat /\ DOMAIN ts = 1..Len(ts)
    /\ \A n \in DOMAIN ts : Len(ts[n]) \in Nat \ {0} /\ DOMAIN ts[n] = 1..Len(ts[n])
    /\ \A n \in DOMAIN ts : \A k \in DOMAIN ts[n] : \E s \in S : ts[n][k] = SegmentId(s)
    /\ \A s \in S : \E n \in DOMAIN ts : \E k \in DOMAIN ts[n] : ts[n][k] = SegmentId(s)
    /\ \A m, n \in DOMAIN ts : \A k \in DOMAIN ts[n], l \in DOMAIN ts[m] :
          ts[n][k] = ts[m][l] => n = m /\ k = l

(* BuildTasks does.                                                        *)
LEMMA TasksShareOut ==
    ASSUME NEW S, Rows(S), S # {}, NEW size \in Nat \ {0}
    PROVE  SharesOut(BuildTasks(S, size), S)
<1>. DEFINE N == Cardinality(S)
            q == InOrder(S)
            ordered == [i \in DOMAIN q |-> SegmentId(q[i])]
            c == (N + size - 1) \div size
            stop(n) == IF n = c THEN N ELSE n * size
            ts == BuildTasks(S, size)
<1>1. N \in Nat \ {0}
  BY FS_CardinalityType, FS_EmptySet DEF Rows
<1>2. Lists(q, S)
  BY InOrderLists
<1>. HIDE DEF q
<1>3. /\ DOMAIN q = 1..N /\ \A i \in 1..N : q[i] \in S
      /\ \A s \in S : \E i \in 1..N : q[i] = s
      /\ \A i, j \in 1..N : SegmentId(q[i]) = SegmentId(q[j]) => i = j
  <2>1. \A i \in 1..N : q[i] \in S
    BY <1>2 DEF Lists
  <2>2. ASSUME NEW i \in 1..N, NEW j \in 1..N, SegmentId(q[i]) = SegmentId(q[j])
        PROVE  i = j
    <3>1. \A s, t \in S : s = t => ~Before(s, t)
      BY DEF Before, Rows
    <3>2. q[i] = q[j]
      BY <2>1, <2>2 DEF Rows
    <3>3. ~(i < j) /\ ~(j < i)
      BY <1>2, <2>1, <3>1, <3>2 DEF Lists
    <3>. QED BY <3>3
  <2>. QED BY <1>2, <2>1, <2>2 DEF Lists
<1>4. ordered \in Seq({SegmentId(s) : s \in S}) /\ Len(ordered) = N
  <2>1. ordered = [i \in 1..N |-> SegmentId(q[i])]
    BY <1>3
  <2>2. \A i \in 1..N : SegmentId(q[i]) \in {SegmentId(s) : s \in S}
    BY <1>3
  <2>. HIDE DEF N, ordered
  <2>. QED BY <1>1, <2>1, <2>2
<1>5. ts = [n \in 1..c |-> SubSeq(ordered, (n - 1) * size + 1, stop(n))]
  BY <1>4 DEF BuildTasks, q
<1>6. \A i \in 1..N : ordered[i] = SegmentId(q[i])
  BY <1>3
<1>. HIDE DEF N, c, ts, ordered
<1>7. /\ c \in Nat /\ (c - 1) * size < N /\ N <= c * size
      /\ \A n \in 1..c : (n - 1) * size \in Nat /\ (n - 1) * size < N /\ (n < c => n * size <= N)
      /\ \A i \in 1..N : \E n \in 1..c : (n - 1) * size < i /\ i <= n * size
      /\ \A m, n \in 1..c : \A k, l \in 1..size :
             (n - 1) * size + k = (m - 1) * size + l => n = m /\ k = l
  <2>1. c = (N + size - 1) \div size
    BY DEF c
  <2>2. Portions(N, size, c)
    BY <1>1, <2>1, Shares
  <2>. QED BY <2>2 DEF Portions
<1>8. \A n \in 1..c : n * size = (n - 1) * size + size
  <2>. TAKE n \in 1..c
  <2>1. n - 1 \in Int /\ (n - 1) + 1 = n
    OBVIOUS
  <2>. QED BY <2>1, Multiples
<1>9. ASSUME NEW n \in 1..c
      PROVE  /\ stop(n) - (n - 1) * size \in 1..size
             /\ Len(ts[n]) = stop(n) - (n - 1) * size /\ DOMAIN ts[n] = 1..Len(ts[n])
             /\ \A k \in DOMAIN ts[n] : /\ (n - 1) * size + k \in 1..N
                                        /\ ts[n][k] = SegmentId(q[(n - 1) * size + k])
  <2>. DEFINE a == (n - 1) * size
              b == stop(n)
  <2>1. a \in Nat /\ a < N /\ b \in 1..N /\ b - a \in 1..size
    <3>1. a \in Nat /\ a < N /\ (n < c => n * size <= N) /\ n * size = a + size
      BY <1>7, <1>8
    <3>2. c * size >= N
      BY <1>7
    <3>. HIDE DEF a
    <3>3. CASE n = c
      BY <1>1, <3>1, <3>2, <3>3
    <3>4. CASE n # c
      BY <1>1, <1>7, <3>1, <3>4
    <3>. QED BY <3>3, <3>4
  <2>2. ts[n] = SubSeq(ordered, a + 1, b)
    BY <1>5
  <2>. HIDE DEF a, b
  <2>3. /\ Len(ts[n]) = b - a /\ DOMAIN ts[n] = 1..(b - a)
        /\ \A k \in 1..(b - a) : ts[n][k] = ordered[a + k]
    BY <1>1, <1>4, <2>1, <2>2
  <2>4. \A k \in 1..(b - a) : a + k \in 1..N
    BY <1>1, <2>1
  <2>5. \A k \in 1..(b - a) : ts[n][k] = SegmentId(q[a + k])
    BY <1>6, <2>3, <2>4
  <2>. QED BY <2>1, <2>3, <2>4, <2>5 DEF a, b
<1>10. DOMAIN ts = 1..c
  BY <1>5
<1>11. \A n \in DOMAIN ts : Len(ts[n]) \in Nat \ {0} /\ DOMAIN ts[n] = 1..Len(ts[n])
  BY <1>9, <1>10
<1>12. \A n \in DOMAIN ts : \A k \in DOMAIN ts[n] : \E s \in S : ts[n][k] = SegmentId(s)
  BY <1>3, <1>9, <1>10
<1>13. ASSUME NEW s \in S
       PROVE  \E n \in DOMAIN ts : \E k \in DOMAIN ts[n] : ts[n][k] = SegmentId(s)
  <2>1. PICK i \in 1..N : q[i] = s
    BY <1>3
  <2>2. PICK n \in 1..c : (n - 1) * size < i /\ i <= n * size
    BY <1>7
  <2>. DEFINE a == (n - 1) * size
              k == i - a
  <2>3. a \in Nat /\ stop(n) >= i
    BY <1>7, <2>2
  <2>. HIDE DEF a
  <2>4. k \in 1..(stop(n) - a) /\ a + k = i
    <3>1. stop(n) \in Int
      BY <1>1, <1>8, <1>7, <2>3 DEF a
    <3>. HIDE DEF stop
    <3>. QED BY <2>2, <2>3, <3>1 DEF a
  <2>5. k \in DOMAIN ts[n] /\ ts[n][k] = SegmentId(q[a + k])
    BY <1>9, <2>4 DEF a
  <2>. QED BY <1>10, <2>1, <2>4, <2>5
<1>14. ASSUME NEW m \in DOMAIN ts, NEW n \in DOMAIN ts, NEW k \in DOMAIN ts[n],
              NEW l \in DOMAIN ts[m], ts[n][k] = ts[m][l]
       PROVE  n = m /\ k = l
  <2>1. /\ m \in 1..c /\ n \in 1..c
        /\ (n - 1) * size + k \in 1..N /\ (m - 1) * size + l \in 1..N
        /\ ts[n][k] = SegmentId(q[(n - 1) * size + k])
        /\ ts[m][l] = SegmentId(q[(m - 1) * size + l])
    BY <1>9, <1>10
  <2>2. (n - 1) * size + k = (m - 1) * size + l
    BY <1>3, <1>14, <2>1
  <2>3. k \in 1..size /\ l \in 1..size
    <3>. HIDE DEF stop
    <3>. QED BY <1>9, <2>1
  <2>. QED BY <1>7, <2>1, <2>2, <2>3
<1>15. Len(ts) = c
  <2>1. c \in Nat /\ \A n \in 1..c : ts[n] \in {ts[m] : m \in 1..c}
    BY <1>7
  <2>2. ts = [n \in 1..c |-> ts[n]]
    BY <1>5
  <2>. QED BY <2>1, <2>2
<1>. QED BY <1>7, <1>10, <1>11, <1>12, <1>13, <1>14, <1>15 DEF SharesOut, ts

-----------------------------------------------------------------------------
(* Tokens and their windows (Encode, Decode, TokenWindows).                *)

(* A function on the positions up to n whose values are in V is a sequence *)
(* over V.                                                                 *)
LEMMA ListType ==
    ASSUME NEW V, NEW n \in Nat, NEW f, f = [i \in 1..n |-> f[i]], \A i \in 1..n : f[i] \in V
    PROVE  f \in Seq(V) /\ Len(f) = n
OBVIOUS

(* What the encoder makes of a text over V, and back.                      *)
TokensOf(V) == V \X (Nat \ {0})
Coded(x) == [k \in 1..Tokens(x) |-> <<x, k>>]

(* A symbol takes some tokens.                                             *)
LEMMA TokensCount == ASSUME NEW x PROVE Tokens(x) \in Nat \ {0}
BY WideTakeSome DEF Tokens

(* They are tokens over V.                                                 *)
LEMMA CodedType ==
    ASSUME NEW V, NEW x \in V
    PROVE  /\ Coded(x) \in Seq(TokensOf(V)) /\ Len(Coded(x)) = Tokens(x)
           /\ \A k \in 1..Tokens(x) : Coded(x)[k] = <<x, k>> /\ <<x, k>> \in TokensOf(V)
<1>. DEFINE n == Tokens(x)
            code == [k \in 1..n |-> <<x, k>>]
<1>0. Coded(x) = code
  BY DEF Coded
<1>1. n \in Nat
  BY TokensCount
<1>2. \A k \in 1..n : <<x, k>> \in TokensOf(V)
  BY <1>1 DEF TokensOf
<1>. HIDE DEF n
<1>3. code = [k \in 1..n |-> code[k]] /\ \A k \in 1..n : code[k] = <<x, k>>
  OBVIOUS
<1>. HIDE DEF code
<1>4. code \in Seq(TokensOf(V)) /\ Len(code) = n
  <2>1. \A k \in 1..n : code[k] \in TokensOf(V)
    BY <1>2, <1>3
  <2>. QED BY <1>1, <1>3, <2>1, ListType
<1>. QED BY <1>0, <1>2, <1>3, <1>4 DEF n

(* A text over V encodes to tokens over V.                                 *)
LEMMA EncodeType ==
    ASSUME NEW V, NEW text \in Seq(V)
    PROVE  Encode(text) \in Seq(TokensOf(V))
<1>. DEFINE code == [i \in DOMAIN text |-> Coded(text[i])]
<1>1. Len(text) \in Nat /\ DOMAIN text = 1..Len(text) /\ \A i \in 1..Len(text) : text[i] \in V
  OBVIOUS
<1>2. code = [i \in 1..Len(text) |-> code[i]] /\ \A i \in 1..Len(text) : code[i] = Coded(text[i])
  BY <1>1
<1>3. Encode(text) = FlattenSeq(code)
  BY DEF Encode, Coded
<1>. HIDE DEF code
<1>4. \A i \in 1..Len(text) : code[i] \in Seq(TokensOf(V))
  BY <1>1, <1>2, CodedType
<1>5. code \in Seq(Seq(TokensOf(V)))
  BY <1>1, <1>2, <1>4, ListType
<1>. QED BY <1>3, <1>5, FlattenType

(* Tokens over V decode to a text over V, BROKEN included.                 *)
LEMMA DecodeType ==
    ASSUME NEW V, BROKEN \in V, NEW tokens \in Seq(TokensOf(V))
    PROVE  Decode(tokens) \in Seq(V)
<1>. DEFINE symbol(i) ==
              CASE tokens[i][2] = 1 ->
                     IF i + Tokens(tokens[i][1]) - 1 <= Len(tokens) THEN <<tokens[i][1]>> ELSE <<BROKEN>>
                [] tokens[i][2] > 1 -> IF tokens[i][2] <= i THEN <<>> ELSE <<BROKEN>>
            code == [i \in DOMAIN tokens |-> symbol(i)]
<1>1. Len(tokens) \in Nat /\ DOMAIN tokens = 1..Len(tokens)
  OBVIOUS
<1>2. code = [i \in 1..Len(tokens) |-> code[i]]
  <2>. HIDE DEF symbol
  <2>. QED BY <1>1
<1>3. \A i \in 1..Len(tokens) : code[i] \in Seq(V)
  <2>. TAKE i \in 1..Len(tokens)
  <2>1. tokens[i] \in TokensOf(V)
    OBVIOUS
  <2>2. tokens[i][1] \in V /\ tokens[i][2] \in Nat \ {0}
    BY <2>1 DEF TokensOf
  <2>3. code[i] = symbol(i)
    BY <1>1
  <2>. HIDE DEF code
  <2>4. symbol(i) \in {<<tokens[i][1]>>, <<BROKEN>>, <<>>}
    BY <2>2
  <2>. HIDE DEF symbol
  <2>5. \A x \in V : <<x>> \in Seq(V)
    OBVIOUS
  <2>7. <<tokens[i][1]>> \in Seq(V) /\ <<BROKEN>> \in Seq(V) /\ <<>> \in Seq(V)
    BY <2>2, <2>5
  <2>. QED BY <2>3, <2>4, <2>7
<1>4. Decode(tokens) = FlattenSeq(code)
  BY DEF Decode
<1>. HIDE DEF code
<1>5. code \in Seq(Seq(V))
  BY <1>1, <1>2, <1>3, ListType
<1>. QED BY <1>4, <1>5, FlattenType

(* The recursion of TokenWindows.                                          *)
Window(from, start, tokens, size, overlap) ==
    IF start + size >= Len(tokens)
    THEN <<SubSeq(tokens, start + 1, Len(tokens))>>
    ELSE <<SubSeq(tokens, start + 1, start + size)>> \o from[start + size - overlap]

Slides(from, tokens, size, overlap) ==
    from = [start \in Nat |-> Window(from, start, tokens, size, overlap)]

(* TokenWindows is the beginning of a function that satisfies it.          *)
LEMMA WindowsUnfold ==
    ASSUME NEW tokens, NEW size, NEW overlap
    PROVE  TokenWindows(tokens, size, overlap)
           = (CHOOSE from : Slides(from, tokens, size, overlap))[0]
BY DEF TokenWindows, Slides, Window

(* There is one, since a window starts after the one before it.            *)
LEMMA SlidesExist ==
    ASSUME NEW V, NEW tokens \in Seq(V), NEW size \in Nat, NEW overlap \in Nat, overlap < size
    PROVE  \E from : Slides(from, tokens, size, overlap)
<1>. DEFINE n == Len(tokens)
            Value(g, s) == Window(g, s, tokens, size, overlap)
            From == {k \in Nat : \E g : /\ DOMAIN g = Nat
                                        /\ \A s \in Nat : s + k >= n => g[s] = Value(g, s)}
<1>0. n \in Nat
  OBVIOUS
<1>1. 0 \in From
  <2>. DEFINE g == [s \in Nat |-> <<SubSeq(tokens, s + 1, n)>>]
  <2>1. DOMAIN g = Nat /\ \A s \in Nat : g[s] = <<SubSeq(tokens, s + 1, n)>>
    OBVIOUS
  <2>. HIDE DEF g
  <2>2. ASSUME NEW s \in Nat, s + 0 >= n PROVE g[s] = Value(g, s)
    <3>1. s + size >= Len(tokens)
      BY <1>0, <2>2
    <3>. QED BY <2>1, <3>1 DEF Window
  <2>. HIDE DEF Value
  <2>. QED BY <2>1, <2>2
<1>2. ASSUME NEW k \in Nat, k \in From PROVE k + 1 \in From
  <2>1. PICK g : DOMAIN g = Nat /\ \A s \in Nat : s + k >= n => g[s] = Value(g, s)
    BY <1>2
  <2>. DEFINE h == [s \in Nat |-> IF s + k >= n THEN g[s] ELSE Value(g, s)]
  <2>2. DOMAIN h = Nat /\ \A s \in Nat : h[s] = IF s + k >= n THEN g[s] ELSE Value(g, s)
    OBVIOUS
  <2>. HIDE DEF h
  <2>3. ASSUME NEW s \in Nat, s + (k + 1) >= n PROVE h[s] = Value(h, s)
    <3>1. h[s] = Value(g, s)
      <4>. HIDE DEF Value
      <4>. QED BY <2>1, <2>2
    <3>2. s + size - overlap \in Nat /\ s + size - overlap + k >= n
      BY <1>0, <2>3
    <3>3. h[s + size - overlap] = g[s + size - overlap]
      BY <2>2, <3>2
    <3>4. Value(g, s) = Value(h, s)
      BY <3>3 DEF Window
    <3>. QED BY <3>1, <3>4
  <2>. HIDE DEF Value
  <2>. QED BY <2>2, <2>3
<1>3. n \in From
  <2>. HIDE DEF From, n
  <2>. QED BY <1>0, <1>1, <1>2, Induct
<1>4. PICK g : DOMAIN g = Nat /\ \A s \in Nat : s + n >= n => g[s] = Value(g, s)
  BY <1>3
<1>5. \A s \in Nat : g[s] = Value(g, s)
  <2>. HIDE DEF Value
  <2>. QED BY <1>0, <1>4
<1>. DEFINE f == [s \in Nat |-> g[s]]
<1>6. \A s \in Nat : f[s] = g[s]
  OBVIOUS
<1>7. f = [s \in Nat |-> f[s]]
  OBVIOUS
<1>. HIDE DEF f
<1>8. ASSUME NEW s \in Nat PROVE f[s] = Value(f, s)
  <2>1. s + size - overlap \in Nat
    OBVIOUS
  <2>. QED BY <1>5, <1>6, <2>1 DEF Window
<1>9. f = [s \in Nat |-> Value(f, s)]
  <2>. HIDE DEF Value
  <2>. QED BY <1>7, <1>8
<1>. QED BY <1>9 DEF Slides

(* The windows are sequences of tokens.                                    *)
LEMMA WindowsType ==
    ASSUME NEW V, NEW tokens \in Seq(V), NEW size \in Nat, NEW overlap \in Nat, overlap < size
    PROVE  TokenWindows(tokens, size, overlap) \in Seq(Seq(V))
<1>. DEFINE from == CHOOSE from : Slides(from, tokens, size, overlap)
            n == Len(tokens)
            Typed == {k \in Nat : \A s \in Nat : s + k >= n => from[s] \in Seq(Seq(V))}
<1>0. n \in Nat
  OBVIOUS
<1>1. TokenWindows(tokens, size, overlap) = from[0]
  BY WindowsUnfold
<1>2. Slides(from, tokens, size, overlap)
  BY SlidesExist
<1>. HIDE DEF from
<1>3. ASSUME NEW s \in Nat PROVE from[s] = Window(from, s, tokens, size, overlap)
  <2>. DEFINE h == [start \in Nat |-> Window(from, start, tokens, size, overlap)]
  <2>1. h[s] = Window(from, s, tokens, size, overlap)
    OBVIOUS
  <2>2. from = h
    BY <1>2 DEF Slides
  <2>. HIDE DEF h
  <2>. QED BY <2>1, <2>2
<1>4. ASSUME NEW s \in Nat, s + size >= n PROVE from[s] \in Seq(Seq(V))
  <2>1. from[s] = <<SubSeq(tokens, s + 1, n)>>
    BY <1>3, <1>4 DEF Window
  <2>2. SubSeq(tokens, s + 1, n) \in Seq(V)
    OBVIOUS
  <2>. QED BY <2>1, <2>2
<1>5. 0 \in Typed
  <2>1. \A s \in Nat : s + 0 >= n => s + size >= n
    BY <1>0
  <2>. HIDE DEF n
  <2>. QED BY <1>4, <2>1
<1>6. ASSUME NEW k \in Nat, k \in Typed PROVE k + 1 \in Typed
  <2>. SUFFICES ASSUME NEW s \in Nat, s + (k + 1) >= n, s + size < n
                PROVE  from[s] \in Seq(Seq(V))
    <3>. HIDE DEF n
    <3>. QED BY <1>0, <1>4
  <2>1. s + size - overlap \in Nat /\ s + size - overlap + k >= n
    BY <1>0
  <2>2. from[s + size - overlap] \in Seq(Seq(V))
    BY <1>6, <2>1
  <2>5. ~(s + size >= Len(tokens))
    BY <1>0
  <2>3. from[s] = <<SubSeq(tokens, s + 1, s + size)>> \o from[s + size - overlap]
    BY <1>3, <2>5 DEF Window
  <2>4. SubSeq(tokens, s + 1, s + size) \in Seq(V)
    OBVIOUS
  <2>. QED BY <2>2, <2>3, <2>4
<1>7. n \in Typed
  <2>. HIDE DEF Typed, n
  <2>. QED BY <1>0, <1>5, <1>6, Induct
<1>8. 0 + n >= n
  BY <1>0
<1>. QED BY <1>1, <1>7, <1>8

-----------------------------------------------------------------------------
(* Where parts of a text occur (Strip, Blocks, Find).                      *)

(* part is in text, after the first i symbols, or somewhere.               *)
At(text, i, part) ==
    i \in 0..(Len(text) - Len(part)) /\ SubSeq(text, i + 1, i + Len(part)) = part

Occurs(text, part) == \E i \in 0..(Len(text) - Len(part)) : At(text, i, part)

(* The symbols of a stretch.                                               *)
LEMMA Cut ==
    ASSUME NEW V, NEW text \in Seq(V), NEW l \in Nat, NEW i \in 0..(Len(text) - l)
    PROVE  /\ SubSeq(text, i + 1, i + l) \in Seq(V) /\ Len(SubSeq(text, i + 1, i + l)) = l
           /\ \A k \in 1..l : SubSeq(text, i + 1, i + l)[k] = text[i + k]
<1>. DEFINE m == i + 1
            n == i + l
<1>1. m \in Int /\ n \in Int /\ n - m + 1 = l /\ \A k \in m..n : text[k] \in V
  OBVIOUS
<1>2. \A k \in 1..l : m + k - 1 = i + k
  OBVIOUS
<1>. HIDE DEF m, n
<1>3. /\ SubSeq(text, m, n) \in Seq(V) /\ Len(SubSeq(text, m, n)) = IF m <= n THEN n - m + 1 ELSE 0
      /\ \A k \in 1..(n - m + 1) : SubSeq(text, m, n)[k] = text[m + k - 1]
  BY <1>1, SubSeqProperties
<1>4. (IF m <= n THEN n - m + 1 ELSE 0) = l
  BY <1>1
<1>. QED BY <1>1, <1>2, <1>3, <1>4 DEF m, n

(* A stretch of a text occurs in it.                                       *)
LEMMA StretchOccurs ==
    ASSUME NEW V, NEW text \in Seq(V), NEW a \in 1..(Len(text) + 1), NEW b \in 0..Len(text)
    PROVE  SubSeq(text, a, b) \in Seq(V) /\ Occurs(text, SubSeq(text, a, b))
<1>. DEFINE part == SubSeq(text, a, b)
<1>0. Len(text) \in Nat
  OBVIOUS
<1>1. part \in Seq(V) /\ Len(part) = IF a <= b THEN b - a + 1 ELSE 0
  OBVIOUS
<1>. HIDE DEF part
<1>2. CASE a <= b
  <2>1. a - 1 \in 0..(Len(text) - Len(part)) /\ (a - 1) + 1 = a /\ (a - 1) + Len(part) = b
    BY <1>0, <1>1, <1>2
  <2>2. SubSeq(text, (a - 1) + 1, (a - 1) + Len(part)) = part
    BY <2>1 DEF part
  <2>. QED BY <1>1, <2>1, <2>2 DEF Occurs, At, part
<1>3. CASE ~(a <= b)
  <2>1. part = <<>> /\ Len(part) = 0
    BY <1>1, <1>3
  <2>2. SubSeq(text, 0 + 1, 0 + Len(part)) = part /\ 0 \in 0..(Len(text) - Len(part))
    BY <1>0, <2>1
  <2>. QED BY <1>1, <2>2 DEF Occurs, At, part
<1>. QED BY <1>2, <1>3

(* The stretch of a stretch.                                               *)
LEMMA StretchOfStretch ==
    ASSUME NEW V, NEW text \in Seq(V), NEW part \in Seq(V), NEW sub \in Seq(V),
           NEW i, At(text, i, part), NEW j, At(part, j, sub)
    PROVE  At(text, i + j, sub)
<1>. DEFINE n == Len(text)
            m == Len(part)
            l == Len(sub)
            cut == SubSeq(text, i + j + 1, i + j + l)
<1>0. n \in Nat /\ m \in Nat /\ l \in Nat
  OBVIOUS
<1>1. i \in 0..(n - m) /\ \A k \in 1..m : part[k] = text[i + k]
  <2>1. i \in 0..(n - m) /\ part = SubSeq(text, i + 1, i + m)
    BY DEF At
  <2>. HIDE DEF m
  <2>. QED BY <1>0, <2>1, Cut
<1>2. j \in 0..(m - l) /\ \A k \in 1..l : sub[k] = part[j + k]
  <2>1. j \in 0..(m - l) /\ sub = SubSeq(part, j + 1, j + l)
    BY DEF At
  <2>. HIDE DEF l
  <2>. QED BY <1>0, <2>1, Cut
<1>3. i + j \in 0..(n - l) /\ \A k \in 1..l : j + k \in 1..m /\ i + (j + k) = i + j + k
  <2>. HIDE DEF n, m, l
  <2>. QED BY <1>0, <1>1, <1>2
<1>4. Len(cut) = l /\ cut \in Seq(V) /\ \A k \in 1..l : cut[k] = text[i + j + k]
  <2>. HIDE DEF l
  <2>. QED BY <1>0, <1>3, Cut
<1>. HIDE DEF cut
<1>5. \A k \in 1..l : cut[k] = sub[k]
  <2>. HIDE DEF n, m, l
  <2>. QED BY <1>1, <1>2, <1>3, <1>4
<1>6. cut = sub
  BY <1>4, <1>5, SeqEqual
<1>. QED BY <1>3, <1>6 DEF cut, At

(* What occurs in a part of a text occurs in the text.                     *)
LEMMA OccursWithin ==
    ASSUME NEW V, NEW text \in Seq(V), NEW part \in Seq(V), NEW sub \in Seq(V),
           Occurs(text, part), Occurs(part, sub)
    PROVE  Occurs(text, sub)
<1>1. PICK i : At(text, i, part)
  BY DEF Occurs
<1>2. PICK j : At(part, j, sub)
  BY DEF Occurs
<1>3. At(text, i + j, sub)
  BY <1>1, <1>2, StretchOfStretch
<1>. QED BY <1>3 DEF Occurs, At

(* Find finds it.                                                          *)
LEMMA Finds ==
    ASSUME NEW V, NEW text \in Seq(V), NEW part \in Seq(V)
    PROVE  /\ Occurs(text, part) => Find(text, part) # NONE
           /\ Find(text, part) # NONE => At(text, Find(text, part), part)
<1>. DEFINE at == {i \in 0..(Len(text) - Len(part)) : SubSeq(text, i + 1, i + Len(part)) = part}
<1>1. Find(text, part) = IF at = {} THEN NONE ELSE Min(at)
  BY DEF Find
<1>2. Occurs(text, part) <=> at # {}
  BY DEF Occurs, At
<1>3. at # {} => Min(at) \in at /\ Min(at) # NONE
  <2>1. at \in SUBSET Nat
    OBVIOUS
  <2>2. \A n \in Nat : n # NONE
    BY DEF NONE
  <2>. HIDE DEF at
  <2>. QED BY <2>1, <2>2, MinIs
<1>. QED BY <1>1, <1>2, <1>3 DEF At

(* A stripped text is a stretch of it.                                     *)
LEMMA Strips ==
    ASSUME NEW V, NEW text \in Seq(V)
    PROVE  Strip(text) \in Seq(V) /\ Occurs(text, Strip(text))
<1>. DEFINE inked == {i \in DOMAIN text : text[i] # NL}
<1>0. Len(text) \in Nat /\ DOMAIN text = 1..Len(text)
  OBVIOUS
<1>1. Strip(text) = IF inked = {} THEN <<>> ELSE SubSeq(text, Min(inked), Max(inked))
  BY DEF Strip
<1>2. CASE inked = {}
  <2>1. SubSeq(text, 1, 0) = <<>>
    OBVIOUS
  <2>2. SubSeq(text, 1, 0) \in Seq(V) /\ Occurs(text, SubSeq(text, 1, 0))
    BY <1>0, StretchOccurs
  <2>. QED BY <1>1, <1>2, <2>1, <2>2
<1>3. CASE inked # {}
  <2>1. inked \in SUBSET Nat /\ inked \subseteq 1..Len(text)
    BY <1>0
  <2>. HIDE DEF inked
  <2>2. Min(inked) \in inked
    BY <1>3, <2>1, MinIs
  <2>5. \A n \in inked : n <= Len(text)
    BY <1>0, <2>1
  <2>3. Max(inked) \in inked
    <3>. DEFINE b == Len(text)
    <3>. HIDE DEF b
    <3>. QED BY <1>0, <1>3, <2>1, <2>5, MaxIs DEF b
  <2>6. \A k \in 1..Len(text) : k \in 1..(Len(text) + 1) /\ k \in 0..Len(text)
    BY <1>0
  <2>4. Min(inked) \in 1..(Len(text) + 1) /\ Max(inked) \in 0..Len(text)
    BY <2>1, <2>2, <2>3, <2>6
  <2>. QED BY <1>1, <1>3, <2>4, StretchOccurs
<1>. QED BY <1>2, <1>3

(* The blocks of a text occur in it.                                       *)
LEMMA BlocksOccur ==
    ASSUME NEW V, NEW text \in Seq(V), NEW kind
    PROVE  /\ Blocks(text, kind) \in Seq(Seq(V))
           /\ \A n \in DOMAIN Blocks(text, kind) : Occurs(text, Blocks(text, kind)[n])
<1>. DEFINE starts == {i \in DOMAIN text : StartsBlock(text, kind, i)}
            N == Cardinality(starts)
            start(n) == CHOOSE i \in starts : Cardinality({j \in starts : j < i}) = n - 1
            stop(n) == IF n = N THEN Len(text) ELSE start(n + 1) - 1
            blocks == [n \in 1..N |-> Strip(SubSeq(text, start(n), stop(n)))]
<1>0. Len(text) \in Nat /\ DOMAIN text = 1..Len(text)
  OBVIOUS
<1>1. Blocks(text, kind) = blocks
  BY DEF Blocks
<1>2. IsFiniteSet(starts) /\ starts \subseteq 1..Len(text)
  <2>1. starts \subseteq 1..Len(text)
    BY <1>0
  <2>. HIDE DEF starts
  <2>2. 1 \in Int /\ Len(text) \in Int
    BY <1>0
  <2>. QED BY <2>1, <2>2, FS_Interval, FS_Subset
<1>. HIDE DEF starts
<1>3. N \in Nat
  BY <1>2, FS_CardinalityType
<1>4. ASSUME NEW n \in 1..N PROVE start(n) \in starts
  <2>. DEFINE R == {r \in Nat \X Nat : r[1] < r[2]}
  <2>1. \A i, j \in starts : <<i, j>> \in R <=> i < j
    BY <1>0, <1>2
  <2>. HIDE DEF R
  <2>2. Orders(R, starts)
    BY <1>0, <1>2, <2>1 DEF Orders
  <2>3. \E i \in starts : Rank(R, starts, i) = n - 1
    BY <1>2, <2>2, Ranked
  <2>4. \A i \in starts : Rank(R, starts, i) = Cardinality({j \in starts : j < i})
    <3>. TAKE i \in starts
    <3>1. {j \in starts : j < i} = {j \in starts : <<j, i>> \in R}
      BY <2>1
    <3>. QED BY <3>1 DEF Rank
  <2>. QED BY <2>3, <2>4
<1>. HIDE DEF start, N
<1>5. ASSUME NEW n \in 1..N
      PROVE  blocks[n] \in Seq(V) /\ Occurs(text, blocks[n])
  <2>1. n # N => n + 1 \in 1..N
    BY <1>3
  <2>2. start(n) \in 1..(Len(text) + 1) /\ stop(n) \in 0..Len(text)
    <3>1. start(n) \in starts
      BY <1>4
    <3>2. n # N => start(n + 1) \in starts
      BY <1>4, <2>1
    <3>3. \A k \in starts : k \in 1..(Len(text) + 1) /\ k - 1 \in 0..Len(text)
      BY <1>0, <1>2
    <3>4. Len(text) \in 0..Len(text)
      BY <1>0
    <3>. QED BY <3>1, <3>2, <3>3, <3>4
  <2>. DEFINE part == SubSeq(text, start(n), stop(n))
  <2>. HIDE DEF stop
  <2>3. part \in Seq(V) /\ Occurs(text, part)
    BY <2>2, StretchOccurs
  <2>4. blocks[n] = Strip(part)
    OBVIOUS
  <2>. HIDE DEF part, blocks
  <2>5. Strip(part) \in Seq(V) /\ Occurs(part, Strip(part))
    BY <2>3, Strips
  <2>6. Occurs(text, Strip(part))
    BY <2>3, <2>5, OccursWithin
  <2>. QED BY <2>4, <2>5, <2>6
<1>6. blocks = [n \in 1..N |-> blocks[n]]
  <2>. HIDE DEF stop
  <2>. QED OBVIOUS
<1>. HIDE DEF blocks
<1>7. blocks \in Seq(Seq(V)) /\ DOMAIN blocks = 1..N
  BY <1>3, <1>5, <1>6, ListType
<1>. QED BY <1>1, <1>5, <1>7

-----------------------------------------------------------------------------
(* SegmentText.                                                            *)

(* Pieces of a text: the offsets of each, if it has any, delimit it.       *)
Pieces(text, V) ==
    {p \in [content : Seq(V), start : Int, end : Int] :
        p.start # NONE => SubSeq(text, p.start + 1, p.end) = p.content}

(* A part that is where its offset says is a piece of the text.            *)
LEMMA PieceType ==
    ASSUME NEW V, NEW text \in Seq(V), NEW content \in Seq(V), NEW i, i = NONE \/ At(text, i, content)
    PROVE  Piece(content, i) \in Pieces(text, V)
<1>1. Len(content) \in Nat /\ NONE \in Int
  BY DEF NONE
<1>2. i \in Int /\ (i # NONE => SubSeq(text, i + 1, i + Len(content)) = content)
  BY <1>1 DEF At
<1>3. Piece(content, i) = [content |-> content, start |-> i,
                           end |-> IF i = NONE THEN NONE ELSE i + Len(content)]
  BY DEF Piece
<1>. QED BY <1>1, <1>2, <1>3 DEF Pieces

(* The pieces of a block that occurs in the text are pieces of the text.   *)
LEMMA PiecesOfBlockType ==
    ASSUME NEW V, BROKEN \in V, NEW text \in Seq(V), NEW block \in Seq(V), Occurs(text, block),
           NEW size \in Nat, NEW overlap \in Nat, overlap < size
    PROVE  PiecesOfBlock(text, block, size, overlap) \in Seq(Pieces(text, V))
<1>. DEFINE start == Find(text, block)
            windows == TokenWindows(Encode(block), size, overlap)
            offset(sub) == LET at == Find(block, sub) IN IF at = NONE THEN NONE ELSE start + at
            cut == [i \in DOMAIN windows |-> Piece(Decode(windows[i]), offset(Decode(windows[i])))]
<1>1. PiecesOfBlock(text, block, size, overlap)
      = IF Len(Encode(block)) <= size THEN <<Piece(block, start)>> ELSE cut
  BY DEF PiecesOfBlock
<1>2. At(text, start, block)
  BY Finds
<1>. HIDE DEF start
<1>3. <<Piece(block, start)>> \in Seq(Pieces(text, V))
  <2>1. Piece(block, start) \in Pieces(text, V)
    BY <1>2, PieceType
  <2>. QED BY <2>1
<1>4. windows \in Seq(Seq(TokensOf(V)))
  BY EncodeType, WindowsType
<1>. HIDE DEF windows
<1>5. Len(windows) \in Nat /\ DOMAIN windows = 1..Len(windows)
  BY <1>4
<1>6. ASSUME NEW i \in 1..Len(windows) PROVE cut[i] \in Pieces(text, V)
  <2>. DEFINE sub == Decode(windows[i])
  <2>1. windows[i] \in Seq(TokensOf(V))
    BY <1>4
  <2>2. sub \in Seq(V)
    BY <2>1, DecodeType
  <2>3. cut[i] = Piece(sub, offset(sub))
    <3>. HIDE DEF offset
    <3>. QED BY <1>5
  <2>. HIDE DEF sub
  <2>4. Find(block, sub) # NONE => At(block, Find(block, sub), sub)
    BY <2>2, Finds
  <2>5. Find(block, sub) # NONE => At(text, start + Find(block, sub), sub)
    BY <1>2, <2>2, <2>4, StretchOfStretch
  <2>6. offset(sub) = NONE \/ At(text, offset(sub), sub)
    BY <2>5
  <2>. HIDE DEF offset, cut
  <2>. QED BY <2>2, <2>3, <2>6, PieceType
<1>7. cut = [i \in 1..Len(windows) |-> cut[i]]
  <2>. HIDE DEF offset
  <2>. QED BY <1>5
<1>. HIDE DEF cut
<1>8. cut \in Seq(Pieces(text, V))
  BY <1>5, <1>6, <1>7, ListType
<1>. QED BY <1>1, <1>3, <1>8

(* So are those of the whole text.                                         *)
LEMMA SegmentTextType ==
    ASSUME NEW V, BROKEN \in V, NEW raw \in Seq(V), NEW kind,
           NEW size \in Nat, NEW overlap \in Nat, overlap < size
    PROVE  SegmentText(raw, kind, size, overlap) \in Seq(Pieces(Strip(raw), V))
<1>. DEFINE text == Strip(raw)
            blocks == Blocks(text, kind)
            pieces == [n \in DOMAIN blocks |-> PiecesOfBlock(text, blocks[n], size, overlap)]
<1>1. SegmentText(raw, kind, size, overlap) = FlattenSeq(pieces)
  BY DEF SegmentText
<1>2. text \in Seq(V)
  BY Strips
<1>. HIDE DEF text
<1>3. blocks \in Seq(Seq(V)) /\ \A n \in DOMAIN blocks : Occurs(text, blocks[n])
  BY <1>2, BlocksOccur
<1>. HIDE DEF blocks
<1>4. Len(blocks) \in Nat /\ DOMAIN blocks = 1..Len(blocks)
  BY <1>3
<1>5. ASSUME NEW n \in 1..Len(blocks) PROVE pieces[n] \in Seq(Pieces(text, V))
  <2>2. pieces[n] = PiecesOfBlock(text, blocks[n], size, overlap)
    BY <1>4
  <2>. HIDE DEF pieces
  <2>0. n \in DOMAIN blocks
    BY <1>4
  <2>1. blocks[n] \in Seq(V) /\ Occurs(text, blocks[n])
    <3>1. blocks[n] \in Seq(V)
      BY <1>3, <1>4
    <3>2. Occurs(text, blocks[n])
      BY <1>3, <2>0
    <3>. QED BY <3>1, <3>2
  <2>. QED BY <1>2, <2>1, <2>2, PiecesOfBlockType
<1>6. pieces = [n \in 1..Len(blocks) |-> pieces[n]]
  BY <1>4
<1>. HIDE DEF pieces
<1>7. pieces \in Seq(Seq(Pieces(text, V)))
  BY <1>4, <1>5, <1>6, ListType
<1>8. FlattenSeq(pieces) \in Seq(Pieces(text, V))
  BY <1>7, FlattenType
<1>. QED BY <1>1, <1>8 DEF text

-----------------------------------------------------------------------------
(* Sequences of sequences, and maps from elements to sequences.            *)

(* What satisfies the recursion of FlattenSeq is FlattenSeq.               *)
LEMMA FlattenIs ==
    ASSUME NEW V, NEW seqs \in Seq(Seq(V)), NEW h, h[0] = <<>>,
           \A i \in 1..Len(seqs) : h[i] = h[i - 1] \o seqs[i]
    PROVE  FlattenSeq(seqs) = h[Len(seqs)]
<1>. DEFINE n == Len(seqs)
<1>0. n \in Nat
  OBVIOUS
<1>1. PICK g : Flattening(g, seqs, V)
  BY FlattenStep
<1>2. g[0] = <<>> /\ FlattenSeq(seqs) = g[n] /\ \A i \in 1..n : g[i] = g[i - 1] \o seqs[i]
  BY <1>1 DEF Flattening
<1>3. \A i \in 1..n : h[i] = h[i - 1] \o seqs[i]
  OBVIOUS
<1>. HIDE DEF n
<1>. DEFINE Same == {i \in Nat : i <= n => g[i] = h[i]}
<1>4. 0 \in Same
  BY <1>2
<1>5. ASSUME NEW i \in Nat, i \in Same PROVE i + 1 \in Same
  <2>. SUFFICES ASSUME i + 1 <= n PROVE g[i + 1] = h[i + 1]
    OBVIOUS
  <2>1. g[i] = h[i] /\ i + 1 \in 1..n /\ (i + 1) - 1 = i
    BY <1>0, <1>5
  <2>2. g[i + 1] = g[(i + 1) - 1] \o seqs[i + 1] /\ h[i + 1] = h[(i + 1) - 1] \o seqs[i + 1]
    BY <1>2, <1>3, <2>1, Zenon
  <2>. QED BY <2>1, <2>2
<1>6. n \in Same
  <2>. HIDE DEF Same
  <2>. QED BY <1>0, <1>4, <1>5, Induct
<1>. QED BY <1>0, <1>2, <1>6 DEF n

(* Joining nothing, joining one, joining one part after the other.         *)
LEMMA FlattenOne ==
    ASSUME NEW V, NEW x \in Seq(V)
    PROVE  FlattenSeq(<<>>) = <<>> /\ FlattenSeq(<<x>>) = x
<1>1. FlattenSeq(<<>>) = <<>>
  BY DEF FlattenSeq
<1>. DEFINE h == [i \in 0..1 |-> IF i = 0 THEN <<>> ELSE x]
<1>2. h[0] = <<>> /\ h[1] = x
  OBVIOUS
<1>. HIDE DEF h
<1>3. <<x>> \in Seq(Seq(V)) /\ Len(<<x>>) = 1 /\ <<x>>[1] = x
  OBVIOUS
<1>4. \A i \in 1..Len(<<x>>) : i = 1 /\ i - 1 = 0
  BY <1>3
<1>5. <<>> \o x = x
  BY ConcatEmptySeq
<1>6. \A i \in 1..Len(<<x>>) : h[i] = h[i - 1] \o <<x>>[i]
  <2>. TAKE i \in 1..Len(<<x>>)
  <2>1. i = 1 /\ i - 1 = 0
    BY <1>4
  <2>. QED BY <1>2, <1>3, <1>5, <2>1
<1>7. FlattenSeq(<<x>>) = h[Len(<<x>>)]
  BY <1>2, <1>3, <1>6, FlattenIs
<1>. QED BY <1>1, <1>2, <1>3, <1>7

(* Flattening distributes over concatenation.                              *)
LEMMA FlattenConcat ==
    ASSUME NEW V, NEW a \in Seq(Seq(V)), NEW b \in Seq(Seq(V))
    PROVE  FlattenSeq(a \o b) = FlattenSeq(a) \o FlattenSeq(b)
<1>. DEFINE m == Len(a)
            n == Len(b)
            c == a \o b
<1>0. m \in Nat /\ n \in Nat
  OBVIOUS
<1>1. PICK g : Flattening(g, a, V)
  BY FlattenStep
<1>2. PICK k : Flattening(k, b, V)
  BY FlattenStep
<1>3. /\ g[0] = <<>> /\ FlattenSeq(a) = g[m] /\ \A i \in 0..m : g[i] \in Seq(V)
      /\ \A i \in 1..m : g[i] = g[i - 1] \o a[i]
  BY <1>1 DEF Flattening
<1>4. /\ k[0] = <<>> /\ FlattenSeq(b) = k[n] /\ \A i \in 0..n : k[i] \in Seq(V)
      /\ \A i \in 1..n : k[i] = k[i - 1] \o b[i]
  BY <1>2 DEF Flattening
<1>5. /\ c \in Seq(Seq(V)) /\ Len(c) = m + n
      /\ \A i \in 1..(m + n) : c[i] = IF i <= m THEN a[i] ELSE b[i - m]
  BY ConcatProperties
<1>6. \A i \in 1..n : b[i] \in Seq(V)
  OBVIOUS
<1>. HIDE DEF m, n, c
<1>. DEFINE h == [i \in 0..(m + n) |-> IF i <= m THEN g[i] ELSE g[m] \o k[i - m]]
<1>7. \A i \in 0..(m + n) : h[i] = IF i <= m THEN g[i] ELSE g[m] \o k[i - m]
  OBVIOUS
<1>. HIDE DEF h
<1>8. h[0] = <<>>
  BY <1>0, <1>3, <1>7
<1>9. ASSUME NEW i \in 1..(m + n) PROVE h[i] = h[i - 1] \o c[i]
  <2>1. CASE i <= m
    <3>1. i \in 1..m /\ i - 1 <= m /\ i - 1 \in 0..(m + n) /\ i \in 0..(m + n)
      BY <1>0, <2>1
    <3>2. h[i] = g[i] /\ h[i - 1] = g[i - 1] /\ c[i] = a[i]
      BY <1>5, <1>7, <2>1, <3>1
    <3>. QED BY <1>3, <3>1, <3>2
  <2>2. CASE ~(i <= m)
    <3>. DEFINE j == i - m
    <3>1. /\ j \in 1..n /\ j - 1 \in 0..n /\ (i - 1) - m = j - 1
          /\ i - 1 \in 0..(m + n) /\ i \in 0..(m + n) /\ m \in 0..m
          /\ (i - 1 <= m => j - 1 = 0 /\ i - 1 = m)
      BY <1>0, <2>2
    <3>2. h[i] = g[m] \o k[j] /\ c[i] = b[j]
      BY <1>5, <1>7, <2>2, <3>1
    <3>3. g[m] \in Seq(V) /\ g[m] \o <<>> = g[m]
      BY <1>3, <3>1, ConcatEmptySeq
    <3>4. h[i - 1] = g[m] \o k[j - 1]
      BY <1>4, <1>7, <3>1, <3>3
    <3>. HIDE DEF j
    <3>5. k[j] = k[j - 1] \o b[j] /\ k[j - 1] \in Seq(V) /\ b[j] \in Seq(V)
      BY <1>4, <1>6, <3>1
    <3>. DEFINE x == g[m]
                y == k[j - 1]
                z == b[j]
    <3>6. (x \o y) \o z = x \o (y \o z)
      <4>1. x \in Seq(V) /\ y \in Seq(V) /\ z \in Seq(V)
        BY <3>3, <3>5
      <4>. HIDE DEF x, y, z
      <4>. QED BY <4>1, ConcatAssociative
    <3>. QED BY <3>2, <3>4, <3>5, <3>6
  <2>. QED BY <2>1, <2>2
<1>10. FlattenSeq(c) = h[m + n]
  <2>1. \A i \in 1..Len(c) : h[i] = h[i - 1] \o c[i]
    BY <1>5, <1>9
  <2>2. FlattenSeq(c) = h[Len(c)]
    BY <1>5, <1>8, <2>1, FlattenIs
  <2>. QED BY <1>5, <2>2
<1>11. h[m + n] = g[m] \o k[n]
  <2>1. m + n \in 0..(m + n) /\ (m + n <= m => n = 0 /\ m + n = m) /\ (m + n) - m = n /\ m \in 0..m
    BY <1>0
  <2>2. g[m] \o <<>> = g[m]
    BY <1>3, <2>1, ConcatEmptySeq
  <2>. QED BY <1>4, <1>7, <2>1, <2>2
<1>. QED BY <1>3, <1>4, <1>10, <1>11 DEF c

(* A text over V for each element of U.                                    *)
Maps(f, U, V) == f \in [U -> Seq(V)]

(* What the elements of s stand for, joined.                               *)
Mapped(f, s) == FlattenSeq([i \in DOMAIN s |-> f[s[i]]])

(* What a map makes of a sequence is a sequence.                           *)
LEMMA MappedType ==
    ASSUME NEW U, NEW V, NEW f, Maps(f, U, V), NEW s \in Seq(U)
    PROVE  [i \in DOMAIN s |-> f[s[i]]] \in Seq(Seq(V)) /\ Mapped(f, s) \in Seq(V)
<1>. DEFINE map == [i \in DOMAIN s |-> f[s[i]]]
<1>1. Len(s) \in Nat /\ DOMAIN s = 1..Len(s)
  OBVIOUS
<1>2. map = [i \in 1..Len(s) |-> map[i]] /\ \A i \in 1..Len(s) : map[i] \in Seq(V)
  BY DEF Maps
<1>3. Mapped(f, s) = FlattenSeq(map)
  BY DEF Mapped
<1>. HIDE DEF map
<1>4. map \in Seq(Seq(V))
  BY <1>1, <1>2, ListType
<1>5. FlattenSeq(map) \in Seq(V)
  BY <1>4, FlattenType
<1>. QED BY <1>3, <1>4, <1>5 DEF map

(* Of a single element it makes what the map says.                         *)
LEMMA MappedOne ==
    ASSUME NEW U, NEW V, NEW f, Maps(f, U, V), NEW x \in U
    PROVE  Mapped(f, <<>>) = <<>> /\ Mapped(f, <<x>>) = f[x]
<1>1. [i \in DOMAIN <<>> |-> f[<<>>[i]]] = <<>>
  OBVIOUS
<1>2. [i \in DOMAIN <<x>> |-> f[<<x>>[i]]] = <<f[x]>>
  OBVIOUS
<1>3. f[x] \in Seq(V)
  BY DEF Maps
<1>. QED BY <1>1, <1>2, <1>3, FlattenOne DEF Mapped

(* It distributes over concatenation.                                      *)
LEMMA MappedConcat ==
    ASSUME NEW U, NEW V, NEW f, Maps(f, U, V), NEW s \in Seq(U), NEW t \in Seq(U)
    PROVE  Mapped(f, s \o t) = Mapped(f, s) \o Mapped(f, t)
<1>. DEFINE x == [i \in DOMAIN s |-> f[s[i]]]
            y == [i \in DOMAIN t |-> f[t[i]]]
            z == [i \in DOMAIN (s \o t) |-> f[(s \o t)[i]]]
<1>1. x \in Seq(Seq(V)) /\ y \in Seq(Seq(V)) /\ z \in Seq(Seq(V))
  <2>1. x \in Seq(Seq(V)) /\ y \in Seq(Seq(V))
    BY MappedType
  <2>. DEFINE q == s \o t
  <2>2. q \in Seq(U)
    BY ConcatProperties
  <2>3. z = [i \in DOMAIN q |-> f[q[i]]]
    OBVIOUS
  <2>. HIDE DEF q, z
  <2>4. z \in Seq(Seq(V))
    BY <2>2, <2>3, MappedType
  <2>. QED BY <2>1, <2>4
<1>2. /\ Len(x) = Len(s) /\ Len(y) = Len(t) /\ Len(z) = Len(s) + Len(t)
      /\ \A i \in 1..Len(s) : x[i] = f[s[i]]
      /\ \A i \in 1..Len(t) : y[i] = f[t[i]]
      /\ \A i \in 1..(Len(s) + Len(t)) : z[i] = f[(s \o t)[i]]
  OBVIOUS
<1>3. Mapped(f, s) = FlattenSeq(x) /\ Mapped(f, t) = FlattenSeq(y) /\ Mapped(f, s \o t) = FlattenSeq(z)
  BY DEF Mapped
<1>4. \A i \in 1..(Len(s) + Len(t)) : (s \o t)[i] = IF i <= Len(s) THEN s[i] ELSE t[i - Len(s)]
  BY ConcatProperties
<1>. HIDE DEF x, y, z
<1>5. /\ x \o y \in Seq(Seq(V)) /\ Len(x \o y) = Len(x) + Len(y)
      /\ \A i \in 1..(Len(x) + Len(y)) : (x \o y)[i] = IF i <= Len(x) THEN x[i] ELSE y[i - Len(x)]
  BY <1>1, ConcatProperties
<1>6. \A i \in 1..(Len(s) + Len(t)) : z[i] = (x \o y)[i]
  <2>. TAKE i \in 1..(Len(s) + Len(t))
  <2>1. Len(s) \in Nat /\ Len(t) \in Nat
    OBVIOUS
  <2>2. CASE i <= Len(s)
    <3>1. i \in 1..Len(s)
      BY <2>1, <2>2
    <3>2. z[i] = f[s[i]] /\ (x \o y)[i] = x[i] /\ x[i] = f[s[i]]
      BY <1>2, <1>4, <1>5, <2>2, <3>1
    <3>. QED BY <3>2
  <2>3. CASE ~(i <= Len(s))
    <3>1. i - Len(s) \in 1..Len(t)
      BY <2>1, <2>3
    <3>. DEFINE j == i - Len(s)
    <3>2. z[i] = f[t[j]] /\ (x \o y)[i] = y[j]
      BY <1>2, <1>4, <1>5, <2>3
    <3>. HIDE DEF j
    <3>3. y[j] = f[t[j]]
      BY <1>2, <3>1 DEF j
    <3>. QED BY <3>2, <3>3
  <2>. QED BY <2>2, <2>3
<1>7. z = x \o y
  BY <1>1, <1>2, <1>5, <1>6, SeqEqual
<1>. QED BY <1>1, <1>3, <1>7, FlattenConcat

(* And joined for each of several sequences.                               *)
MappedEach(f, seqs) == [i \in DOMAIN seqs |-> Mapped(f, seqs[i])]

(* And over flattening.                                                    *)
LEMMA MappedFlatten ==
    ASSUME NEW U, NEW V, NEW f, Maps(f, U, V), NEW seqs \in Seq(Seq(U))
    PROVE  Mapped(f, FlattenSeq(seqs)) = FlattenSeq(MappedEach(f, seqs))
<1>. DEFINE n == Len(seqs)
            parts == [i \in DOMAIN seqs |-> Mapped(f, seqs[i])]
<1>0. n \in Nat /\ DOMAIN seqs = 1..n /\ \A i \in 1..n : seqs[i] \in Seq(U)
  OBVIOUS
<1>1. PICK g : Flattening(g, seqs, U)
  BY FlattenStep
<1>2. /\ g[0] = <<>> /\ FlattenSeq(seqs) = g[n] /\ \A i \in 0..n : g[i] \in Seq(U)
      /\ \A i \in 1..n : g[i] = g[i - 1] \o seqs[i]
  BY <1>1 DEF Flattening
<1>. HIDE DEF n
<1>3. parts = [i \in 1..n |-> parts[i]] /\ \A i \in 1..n : parts[i] = Mapped(f, seqs[i])
  BY <1>0
<1>. HIDE DEF parts
<1>4. \A i \in 1..n : parts[i] \in Seq(V)
  <2>. TAKE i \in 1..n
  <2>1. seqs[i] \in Seq(U)
    BY <1>0
  <2>2. Mapped(f, seqs[i]) \in Seq(V)
    BY <2>1, MappedType
  <2>. QED BY <1>3, <2>2
<1>5. parts \in Seq(Seq(V)) /\ Len(parts) = n
  BY <1>0, <1>3, <1>4, ListType
<1>. DEFINE h == [i \in 0..n |-> Mapped(f, g[i])]
<1>6. \A i \in 0..n : h[i] = Mapped(f, g[i])
  OBVIOUS
<1>. HIDE DEF h
<1>7. h[0] = <<>>
  <2>1. Mapped(f, <<>>) = <<>>
    <3>1. [i \in DOMAIN <<>> |-> f[<<>>[i]]] = <<>>
      OBVIOUS
    <3>. QED BY <3>1 DEF Mapped, FlattenSeq
  <2>2. 0 \in 0..n
    BY <1>0
  <2>. QED BY <1>2, <1>6, <2>1, <2>2
<1>8. ASSUME NEW i \in 1..n PROVE h[i] = h[i - 1] \o parts[i]
  <2>1. i \in 0..n /\ i - 1 \in 0..n
    BY <1>0
  <2>2. g[i - 1] \in Seq(U) /\ seqs[i] \in Seq(U) /\ g[i] = g[i - 1] \o seqs[i]
    BY <1>0, <1>2, <2>1
  <2>5. \A x, y \in Seq(U) : Mapped(f, x \o y) = Mapped(f, x) \o Mapped(f, y)
    BY MappedConcat
  <2>3. Mapped(f, g[i - 1] \o seqs[i]) = Mapped(f, g[i - 1]) \o Mapped(f, seqs[i])
    BY <2>2, <2>5
  <2>4. h[i] = Mapped(f, g[i]) /\ h[i - 1] = Mapped(f, g[i - 1]) /\ parts[i] = Mapped(f, seqs[i])
    BY <1>3, <1>6, <2>1
  <2>. QED BY <2>2, <2>3, <2>4
<1>9. FlattenSeq(parts) = h[n]
  <2>1. \A i \in 1..Len(parts) : h[i] = h[i - 1] \o parts[i]
    BY <1>5, <1>8
  <2>2. FlattenSeq(parts) = h[Len(parts)]
    BY <1>5, <1>7, <2>1, FlattenIs
  <2>. QED BY <1>5, <2>2
<1>10. n \in 0..n
  BY <1>0
<1>. QED BY <1>2, <1>6, <1>9, <1>10 DEF parts, MappedEach

-----------------------------------------------------------------------------
(* Words, utterances and turns; those that are heard are not blank.        *)

Speakers == {"agent", "customer"}
Said(V) == [words : Seq(V), start : Int, end : Int]
Heard(V) == {u \in Said(V) : u.words # <<>>}
Turns(V) == [parts : Seq(Heard(V)) \ {<<>>}, speaker : Speakers, start : Int, end : Int]

(* Words with the speaker of each; the words of utterances and turns.      *)
Tag(words, speaker) == [i \in DOMAIN words |-> <<words[i], speaker>>]
Words(V) == [u \in Said(V) |-> u.words]
Spoken(V) == [t \in Turns(V) |-> Tag(WordsOf(t), t.speaker)]

(* Tagged words are words with a speaker.                                  *)
LEMMA TagType ==
    ASSUME NEW V, NEW words \in Seq(V), NEW r \in Speakers
    PROVE  Tag(words, r) \in Seq(V \X Speakers)
<1>. DEFINE tag == [i \in DOMAIN words |-> <<words[i], r>>]
<1>1. Len(words) \in Nat /\ tag = [i \in 1..Len(words) |-> tag[i]]
  OBVIOUS
<1>2. \A i \in 1..Len(words) : tag[i] \in V \X Speakers
  OBVIOUS
<1>. HIDE DEF tag
<1>3. tag \in Seq(V \X Speakers)
  BY <1>1, <1>2, ListType
<1>. QED BY <1>3 DEF Tag, tag

(* Tagging distributes over concatenation.                                 *)
LEMMA TagConcat ==
    ASSUME NEW V, NEW a \in Seq(V), NEW b \in Seq(V), NEW r \in Speakers
    PROVE  Tag(a \o b, r) = Tag(a, r) \o Tag(b, r)
<1>. DEFINE x == Tag(a, r)
            y == Tag(b, r)
            z == Tag(a \o b, r)
<1>1. /\ Len(a) \in Nat /\ Len(b) \in Nat
      /\ a \o b \in Seq(V) /\ Len(a \o b) = Len(a) + Len(b)
      /\ \A i \in 1..(Len(a) + Len(b)) : (a \o b)[i] = IF i <= Len(a) THEN a[i] ELSE b[i - Len(a)]
  BY ConcatProperties
<1>2. x \in Seq(V \X Speakers) /\ y \in Seq(V \X Speakers) /\ z \in Seq(V \X Speakers)
  BY <1>1, TagType
<1>3. /\ Len(x) = Len(a) /\ Len(y) = Len(b) /\ Len(z) = Len(a) + Len(b)
      /\ \A i \in 1..Len(a) : x[i] = <<a[i], r>>
      /\ \A i \in 1..Len(b) : y[i] = <<b[i], r>>
      /\ \A i \in 1..(Len(a) + Len(b)) : z[i] = <<(a \o b)[i], r>>
  <2>1. \A q \in Seq(V) : Len(Tag(q, r)) = Len(q) /\ \A i \in 1..Len(q) : Tag(q, r)[i] = <<q[i], r>>
    BY DEF Tag
  <2>. QED BY <1>1, <2>1
<1>. HIDE DEF x, y, z
<1>4. /\ x \o y \in Seq(V \X Speakers) /\ Len(x \o y) = Len(x) + Len(y)
      /\ \A i \in 1..(Len(x) + Len(y)) : (x \o y)[i] = IF i <= Len(x) THEN x[i] ELSE y[i - Len(x)]
  BY <1>2, ConcatProperties
<1>5. \A i \in 1..(Len(a) + Len(b)) : z[i] = (x \o y)[i]
  <2>. TAKE i \in 1..(Len(a) + Len(b))
  <2>1. CASE i <= Len(a)
    <3>1. i \in 1..Len(a)
      BY <1>1, <2>1
    <3>2. z[i] = <<a[i], r>> /\ (x \o y)[i] = x[i] /\ x[i] = <<a[i], r>>
      BY <1>1, <1>3, <1>4, <2>1, <3>1
    <3>. QED BY <3>2
  <2>2. CASE ~(i <= Len(a))
    <3>. DEFINE j == i - Len(a)
    <3>1. j \in 1..Len(b)
      BY <1>1, <2>2
    <3>2. z[i] = <<b[j], r>> /\ (x \o y)[i] = y[j]
      BY <1>1, <1>3, <1>4, <2>2
    <3>. HIDE DEF j
    <3>3. y[j] = <<b[j], r>>
      BY <1>3, <3>1
    <3>. QED BY <3>2, <3>3
  <2>. QED BY <2>1, <2>2
<1>6. z = x \o y
  BY <1>2, <1>3, <1>4, <1>5, SeqEqual
<1>. QED BY <1>6 DEF x, y, z

(* The words of a turn are those of its parts.                             *)
LEMMA WordsMap ==
    ASSUME NEW V
    PROVE  /\ Maps(Words(V), Said(V), V)
           /\ \A t \in Turns(V) : WordsOf(t) = Mapped(Words(V), t.parts) /\ WordsOf(t) \in Seq(V)
<1>1. Maps(Words(V), Said(V), V)
  BY DEF Maps, Words, Said
<1>2. ASSUME NEW t \in Turns(V)
      PROVE  WordsOf(t) = Mapped(Words(V), t.parts) /\ WordsOf(t) \in Seq(V)
  <2>. DEFINE parts == t.parts
  <2>1. parts \in Seq(Said(V))
    <3>1. parts \in Seq(Heard(V)) /\ Heard(V) \subseteq Said(V)
      BY DEF Turns, Heard
    <3>. HIDE DEF parts
    <3>. QED BY <3>1, SeqMonotonic
  <2>2. WordsOf(t) = FlattenSeq([i \in DOMAIN parts |-> parts[i].words])
    BY DEF WordsOf
  <2>. HIDE DEF parts
  <2>3. \A i \in DOMAIN parts : parts[i] \in Said(V)
    BY <2>1
  <2>4. \A i \in DOMAIN parts : Words(V)[parts[i]] = parts[i].words
    BY <2>3 DEF Words
  <2>5. [i \in DOMAIN parts |-> parts[i].words] = [i \in DOMAIN parts |-> Words(V)[parts[i]]]
    BY <2>4
  <2>6. WordsOf(t) = Mapped(Words(V), parts)
    BY <2>2, <2>5 DEF Mapped
  <2>7. Mapped(Words(V), parts) \in Seq(V)
    BY <1>1, <2>1, MappedType
  <2>. QED BY <2>6, <2>7 DEF parts
<1>. QED BY <1>1, <1>2

(* Spoken maps turns to tagged words.                                      *)
LEMMA SpokenMap ==
    ASSUME NEW V
    PROVE  Maps(Spoken(V), Turns(V), V \X Speakers)
<1>1. ASSUME NEW t \in Turns(V) PROVE Tag(WordsOf(t), t.speaker) \in Seq(V \X Speakers)
  <2>1. t.speaker \in Speakers
    BY DEF Turns
  <2>2. WordsOf(t) \in Seq(V)
    BY WordsMap
  <2>. QED BY <2>1, <2>2, TagType
<1>. QED BY <1>1 DEF Maps, Spoken

(* A sequence that is not empty has a last element and what is before it.  *)
LEMMA FrontLast ==
    ASSUME NEW S, NEW s \in Seq(S), s # <<>>
    PROVE  Front(s) \in Seq(S) /\ Last(s) \in S /\ s = Append(Front(s), Last(s))
<1>1. Len(s) \in Nat \ {0}
  BY EmptySeq
<1>2. Front(s) = SubSeq(s, 1, Len(s) - 1) /\ Last(s) = s[Len(s)]
  BY DEF Front, Last
<1>3. /\ Front(s) \in Seq(S) /\ Len(Front(s)) = Len(s) - 1
      /\ \A i \in 1..(Len(s) - 1) : Front(s)[i] = s[i]
  <2>. DEFINE l == Len(s) - 1
  <2>1. l \in Nat /\ 0 \in 0..(Len(s) - l) /\ 0 + 1 = 1 /\ 0 + l = l /\ \A i \in 1..l : 0 + i = i
    BY <1>1
  <2>. HIDE DEF l
  <2>2. /\ SubSeq(s, 0 + 1, 0 + l) \in Seq(S) /\ Len(SubSeq(s, 0 + 1, 0 + l)) = l
        /\ \A i \in 1..l : SubSeq(s, 0 + 1, 0 + l)[i] = s[0 + i]
    BY <2>1, Cut
  <2>3. Front(s) = SubSeq(s, 0 + 1, 0 + l)
    BY <1>2, <2>1 DEF l
  <2>4. Front(s) \in Seq(S) /\ Len(Front(s)) = l /\ \A i \in 1..l : Front(s)[i] = s[i]
    BY <2>1, <2>2, <2>3
  <2>. QED BY <2>4 DEF l
<1>4. Last(s) \in S
  BY <1>1, <1>2
<1>5. /\ Append(Front(s), Last(s)) \in Seq(S) /\ Len(Append(Front(s), Last(s))) = Len(s)
      /\ \A i \in 1..Len(s) : s[i] = Append(Front(s), Last(s))[i]
  BY <1>1, <1>2, <1>3, <1>4
<1>6. s = Append(Front(s), Last(s))
  BY <1>5, SeqEqual
<1>. QED BY <1>3, <1>4, <1>6

(* No turn is blank.                                                       *)
LEMMA WordsHeard ==
    ASSUME NEW V, NEW t \in Turns(V)
    PROVE  WordsOf(t) # <<>>
<1>. DEFINE f == Words(V)
            front == Front(t.parts)
            last == Last(t.parts)
            one == <<last>>
<1>1. t.parts \in Seq(Heard(V)) /\ t.parts # <<>> /\ Heard(V) \subseteq Said(V)
  BY DEF Turns, Heard
<1>2. front \in Seq(Heard(V)) /\ last \in Heard(V) /\ t.parts = Append(front, last)
  BY <1>1, FrontLast
<1>3. Maps(f, Said(V), V) /\ WordsOf(t) = Mapped(f, t.parts)
  BY WordsMap
<1>4. f[last] \in Seq(V) /\ f[last] # <<>>
  BY <1>2 DEF Heard, Said, Words
<1>. HIDE DEF front, last, f
<1>5. front \in Seq(Said(V)) /\ one \in Seq(Said(V)) /\ Mapped(f, one) = f[last]
  BY <1>1, <1>2, <1>3, SeqMonotonic, MappedOne
<1>6. t.parts = front \o one
  BY <1>2, AppendIsConcat
<1>. HIDE DEF one
<1>7. Mapped(f, front \o one) = Mapped(f, front) \o f[last]
  <2>1. \A x, y \in Seq(Said(V)) : Mapped(f, x \o y) = Mapped(f, x) \o Mapped(f, y)
    BY <1>3, MappedConcat
  <2>. QED BY <1>5, <2>1
<1>8. Mapped(f, front) \in Seq(V)
  BY <1>3, <1>5, MappedType
<1>9. Mapped(f, front) \o f[last] # <<>>
  BY <1>4, <1>8, ConcatProperties, EmptySeq
<1>. QED BY <1>3, <1>6, <1>7, <1>9

(* new adds u, which is not blank, to the turns: in a turn of its own or   *)
(* to the last one, of the same speaker.                                   *)
Adds(new, turns, u, role) ==
    /\ u.words # <<>>
    /\ \/ new = Append(turns, Turn(u, role))
       \/ /\ turns # <<>> /\ Last(turns).speaker = role
          /\ new = Append(Front(turns), Extend(Last(turns), u))

(* A turn of one utterance, and one that goes on.                          *)
LEMMA TurnType ==
    ASSUME NEW V, NEW u \in Heard(V), NEW role \in Speakers
    PROVE  /\ Turn(u, role) \in Turns(V) /\ Spoken(V)[Turn(u, role)] = Tag(u.words, role)
           /\ Turn(u, role).speaker = role /\ Len(Turn(u, role).parts) = 1
<1>1. Turn(u, role) = [parts |-> <<u>>, speaker |-> role, start |-> u.start, end |-> u.end]
  BY DEF Turn
<1>2. u.start \in Int /\ u.end \in Int
  BY DEF Said, Heard
<1>3. Turn(u, role) \in Turns(V)
  <2>1. <<u>> \in Seq(Heard(V)) /\ <<u>> # <<>>
    OBVIOUS
  <2>. QED BY <1>1, <1>2, <2>1 DEF Turns
<1>4. Turn(u, role).parts = <<u>> /\ Turn(u, role).speaker = role /\ Len(<<u>>) = 1
  BY <1>1
<1>5. Mapped(Words(V), <<u>>) = Words(V)[u]
  BY WordsMap, MappedOne DEF Heard
<1>6. Words(V)[u] = u.words
  BY DEF Words, Heard
<1>7. WordsOf(Turn(u, role)) = u.words
  BY <1>3, <1>4, <1>5, <1>6, WordsMap
<1>8. Spoken(V)[Turn(u, role)] = Tag(WordsOf(Turn(u, role)), Turn(u, role).speaker)
  BY <1>3 DEF Spoken
<1>. QED BY <1>3, <1>4, <1>7, <1>8

(* A turn extended with an utterance holds that utterance's words too.     *)
LEMMA ExtendType ==
    ASSUME NEW V, NEW t \in Turns(V), NEW u \in Heard(V)
    PROVE  /\ Extend(t, u) \in Turns(V) /\ Spoken(V)[Extend(t, u)] = Spoken(V)[t] \o Tag(u.words, t.speaker)
           /\ Extend(t, u).speaker = t.speaker
           /\ Extend(t, u).start = t.start /\ Extend(t, u).end = u.end
<1>. DEFINE e == Extend(t, u)
            role == t.speaker
<1>1. t.parts \in Seq(Heard(V)) /\ t.parts \in Seq(Said(V)) /\ role \in Speakers /\ t.start \in Int
  <2>1. t.parts \in Seq(Heard(V)) /\ role \in Speakers /\ t.start \in Int
    BY DEF Turns
  <2>2. Heard(V) \subseteq Said(V)
    BY DEF Heard
  <2>. QED BY <2>1, <2>2, SeqMonotonic
<1>2. u \in Said(V) /\ u.end \in Int /\ u.words \in Seq(V)
  BY DEF Said, Heard
<1>3. /\ Append(t.parts, u) \in Seq(Heard(V)) \ {<<>>}
      /\ Append(t.parts, u) = t.parts \o <<u>>
  BY <1>1, AppendProperties, AppendIsConcat
<1>4. e = [parts |-> Append(t.parts, u), speaker |-> role, start |-> t.start, end |-> u.end]
  <2>1. t = [parts |-> t.parts, speaker |-> t.speaker, start |-> t.start, end |-> t.end]
    BY DEF Turns
  <2>. DEFINE p == Append(t.parts, u)
  <2>2. e = [t EXCEPT !.parts = p, !.end = u.end]
    BY DEF Extend
  <2>. HIDE DEF p, e
  <2>3. e = [parts |-> p, speaker |-> role, start |-> t.start, end |-> u.end]
    BY <2>1, <2>2
  <2>. QED BY <2>3 DEF p
<1>5. e \in Turns(V) /\ e.parts = Append(t.parts, u) /\ e.speaker = role /\ e.start = t.start /\ e.end = u.end
  BY <1>1, <1>2, <1>3, <1>4 DEF Turns
<1>. HIDE DEF e
<1>6. Mapped(Words(V), t.parts \o <<u>>) = WordsOf(t) \o u.words
  <2>1. <<u>> \in Seq(Said(V))
    BY <1>2
  <2>2. Mapped(Words(V), t.parts \o <<u>>) = Mapped(Words(V), t.parts) \o Mapped(Words(V), <<u>>)
    <3>. DEFINE p == t.parts
                q == <<u>>
    <3>. HIDE DEF p, q
    <3>1. p \in Seq(Said(V)) /\ q \in Seq(Said(V))
      BY <1>1, <2>1 DEF p, q
    <3>2. Mapped(Words(V), p \o q) = Mapped(Words(V), p) \o Mapped(Words(V), q)
      BY <3>1, WordsMap, MappedConcat
    <3>. QED BY <3>2 DEF p, q
  <2>3. Mapped(Words(V), <<u>>) = u.words
    <3>. DEFINE f == Words(V)
    <3>1. Maps(f, Said(V), V) /\ f[u] = u.words
      BY <1>2, WordsMap DEF Words
    <3>. HIDE DEF f
    <3>2. Mapped(f, <<u>>) = f[u]
      BY <1>2, <3>1, MappedOne
    <3>. QED BY <3>1, <3>2 DEF f
  <2>. QED BY <2>2, <2>3, WordsMap
<1>7. WordsOf(e) = WordsOf(t) \o u.words
  BY <1>3, <1>5, <1>6, WordsMap
<1>8. Tag(WordsOf(t) \o u.words, role) = Tag(WordsOf(t), role) \o Tag(u.words, role)
  <2>. DEFINE w == WordsOf(t)
              x == u.words
              r == role
  <2>1. w \in Seq(V) /\ x \in Seq(V) /\ r \in Speakers
    BY <1>1, <1>2, WordsMap
  <2>. HIDE DEF w, x, r
  <2>2. Tag(w \o x, r) = Tag(w, r) \o Tag(x, r)
    BY <2>1, TagConcat
  <2>. QED BY <2>2 DEF w, x, r
<1>9. Spoken(V)[e] = Tag(WordsOf(e), role) /\ Spoken(V)[t] = Tag(WordsOf(t), role)
  BY <1>5 DEF Spoken
<1>. QED BY <1>5, <1>7, <1>8, <1>9 DEF e

(* Adding adds what is said.                                               *)
LEMMA Added ==
    ASSUME NEW V, NEW turns \in Seq(Turns(V)), NEW u \in Heard(V), NEW role \in Speakers,
           NEW new, Adds(new, turns, u, role)
    PROVE  /\ new \in Seq(Turns(V))
           /\ Mapped(Spoken(V), new) = Mapped(Spoken(V), turns) \o Tag(u.words, role)
<1>. DEFINE f == Spoken(V)
            M(s) == Mapped(f, s)
<1>3. Maps(f, Turns(V), V \X Speakers)
  BY SpokenMap
<1>. HIDE DEF f
<1>0. ASSUME NEW s \in Seq(Turns(V)), NEW x \in Turns(V)
      PROVE  Append(s, x) \in Seq(Turns(V)) /\ M(Append(s, x)) = M(s) \o f[x]
  <2>. DEFINE y == <<x>>
  <2>1. y \in Seq(Turns(V)) /\ Append(s, x) = s \o y
    BY AppendIsConcat
  <2>2. M(y) = f[x]
    BY <1>3, MappedOne
  <2>. HIDE DEF y
  <2>3. M(s \o y) = M(s) \o M(y)
    BY <1>3, <2>1, MappedConcat
  <2>. QED BY <2>1, <2>2, <2>3
<1>. HIDE DEF M
<1>1. CASE new = Append(turns, Turn(u, role))
  BY <1>0, <1>1, TurnType DEF M, f
<1>2. CASE turns # <<>> /\ Last(turns).speaker = role /\ new = Append(Front(turns), Extend(Last(turns), u))
  <2>. DEFINE front == Front(turns)
              last == Last(turns)
              said == Tag(u.words, role)
  <2>1. front \in Seq(Turns(V)) /\ last \in Turns(V) /\ turns = Append(front, last)
    BY <1>2, FrontLast
  <2>2. last.speaker = role /\ new = Append(front, Extend(last, u))
    BY <1>2
  <2>3. said \in Seq(V \X Speakers)
    BY TagType DEF Said, Heard
  <2>. HIDE DEF front, last
  <2>4. Extend(last, u) \in Turns(V) /\ Spoken(V)[Extend(last, u)] = Spoken(V)[last] \o said
    BY <2>1, <2>2, ExtendType
  <2>5. M(turns) = M(front) \o Spoken(V)[last] /\ M(new) = M(front) \o (Spoken(V)[last] \o said)
    BY <1>0, <2>1, <2>2, <2>4 DEF f
  <2>6. M(front) \in Seq(V \X Speakers) /\ Spoken(V)[last] \in Seq(V \X Speakers)
    BY <2>1, <1>3, MappedType DEF M, Maps, f
  <2>7. (M(front) \o Spoken(V)[last]) \o said = M(front) \o (Spoken(V)[last] \o said)
    <3>1. \A x, y, z \in Seq(V \X Speakers) : (x \o y) \o z = x \o (y \o z)
      BY ConcatAssociative
    <3>. HIDE DEF said
    <3>. QED BY <2>3, <2>6, <3>1
  <2>8. new \in Seq(Turns(V))
    BY <1>0, <2>1, <2>2, <2>4
  <2>. QED BY <2>5, <2>7, <2>8 DEF M, f
<1>. QED BY <1>1, <1>2 DEF Adds

-----------------------------------------------------------------------------
(* GroupBySpeaker.                                                         *)

(* turns holds what us says, r[i] the speaker of us[i].                    *)
Holds(turns, us, r, V) ==
    /\ turns \in Seq(Turns(V))
    /\ Mapped(Spoken(V), turns) = FlattenSeq([i \in DOMAIN us |-> Tag(us[i].words, r[i])])

(* The recursion of GroupBySpeaker.                                        *)
Groups(g, us, r) ==
    g = [i \in 0..Len(us) |-> IF i = 0 THEN <<>> ELSE AddUtterance(g[i - 1], us[i], r[i])]

(* GroupBySpeaker is the last value of its recursion.                      *)
LEMMA GroupsUnfold ==
    ASSUME NEW us, NEW r
    PROVE  GroupBySpeaker(us, r) = (CHOOSE g : Groups(g, us, r))[Len(us)]
BY DEF GroupBySpeaker, Groups

(* And the recursion has a solution.                                       *)
LEMMA GroupsExist ==
    ASSUME NEW us, NEW r, Len(us) \in Nat
    PROVE  \E g : Groups(g, us, r)
<1>. DEFINE n == Len(us)
            Value(g, i) == IF i = 0 THEN <<>> ELSE AddUtterance(g[i - 1], us[i], r[i])
            Upto == {k \in Nat : k <= n => \E g : /\ DOMAIN g = 0..n
                                                  /\ \A i \in 0..k : g[i] = Value(g, i)}
<1>1. 0 \in Upto
  <2>. DEFINE g == [i \in 0..n |-> <<>>]
  <2>1. DOMAIN g = 0..n /\ \A i \in 0..0 : i = 0 /\ i \in 0..n
    OBVIOUS
  <2>2. \A i \in 0..0 : g[i] = Value(g, i)
    BY <2>1
  <2>. HIDE DEF g, Value
  <2>. QED BY <2>1, <2>2
<1>2. ASSUME NEW k \in Nat, k \in Upto PROVE k + 1 \in Upto
  <2>. SUFFICES ASSUME k + 1 <= n
                PROVE  \E g : DOMAIN g = 0..n /\ \A i \in 0..(k + 1) : g[i] = Value(g, i)
    OBVIOUS
  <2>1. PICK g : DOMAIN g = 0..n /\ \A i \in 0..k : g[i] = Value(g, i)
    BY <1>2
  <2>. DEFINE h == [i \in 0..n |-> IF i = k + 1 THEN Value(g, i) ELSE g[i]]
  <2>2. \A i \in 0..(k + 1) : i # k + 1 => h[i] = g[i] /\ i \in 0..k
    OBVIOUS
  <2>3. \A i \in 0..(k + 1) : i # 0 => h[i - 1] = g[i - 1]
    OBVIOUS
  <2>4. h[k + 1] = Value(g, k + 1)
    <3>1. k + 1 \in 0..n
      OBVIOUS
    <3>. HIDE DEF Value, n
    <3>. QED BY <3>1
  <2>5. DOMAIN h = 0..n
    OBVIOUS
  <2>. HIDE DEF h
  <2>6. ASSUME NEW i \in 0..(k + 1) PROVE h[i] = Value(h, i)
    <3>1. h[i] = Value(g, i)
      <4>. HIDE DEF Value
      <4>. QED BY <2>1, <2>2, <2>4
    <3>. QED BY <2>3, <3>1
  <2>. HIDE DEF Value
  <2>. QED BY <2>5, <2>6
<1>3. n \in Upto
  <2>. HIDE DEF Upto
  <2>. QED BY <1>1, <1>2, Induct
<1>4. PICK g : DOMAIN g = 0..n /\ \A i \in 0..n : g[i] = Value(g, i)
  BY <1>3
<1>. DEFINE h == [i \in 0..n |-> g[i]]
<1>5. \A i \in 0..n : h[i] = g[i] /\ (i # 0 => h[i - 1] = g[i - 1])
  OBVIOUS
<1>6. h = [i \in 0..n |-> h[i]]
  OBVIOUS
<1>. HIDE DEF h
<1>7. \A i \in 0..n : h[i] = Value(h, i)
  BY <1>4, <1>5
<1>8. h = [i \in 0..n |-> Value(h, i)]
  <2>. HIDE DEF Value
  <2>. QED BY <1>6, <1>7
<1>. QED BY <1>8 DEF Groups

(* Turns to which utterances are added one by one hold what they say.      *)
LEMMA Adding ==
    ASSUME NEW V, NEW us \in Seq(Said(V)), NEW r, \A i \in 1..Len(us) : r[i] \in Speakers,
           NEW g, g[0] = <<>>,
           \A i \in 1..Len(us) : \/ us[i].words = <<>> /\ g[i] = g[i - 1]
                                 \/ Adds(g[i], g[i - 1], us[i], r[i])
    PROVE  Holds(g[Len(us)], us, r, V)
<1>. DEFINE n == Len(us)
            S == V \X Speakers
            f == Spoken(V)
            said == [i \in DOMAIN us |-> Tag(us[i].words, r[i])]
<1>0. n \in Nat /\ DOMAIN us = 1..n /\ \A i \in 1..n : us[i] \in Said(V) /\ us[i].words \in Seq(V)
  <2>1. n \in Nat /\ DOMAIN us = 1..n /\ \A i \in 1..n : us[i] \in Said(V)
    OBVIOUS
  <2>2. \A u \in Said(V) : u.words \in Seq(V)
    BY DEF Said
  <2>. QED BY <2>1, <2>2
<1>1. \A i \in 1..n : r[i] \in Speakers
  OBVIOUS
<1>2. \A i \in 1..n : \/ us[i].words = <<>> /\ g[i] = g[i - 1]
                     \/ Adds(g[i], g[i - 1], us[i], r[i])
  OBVIOUS
<1>. HIDE DEF n
<1>3. said \in Seq(Seq(S)) /\ Len(said) = n /\ \A i \in 1..n : said[i] = Tag(us[i].words, r[i])
  <2>1. said = [i \in 1..n |-> said[i]] /\ \A i \in 1..n : said[i] = Tag(us[i].words, r[i])
    BY <1>0
  <2>2. ASSUME NEW i \in 1..n PROVE said[i] \in Seq(S)
    <3>. DEFINE w == us[i].words
                q == r[i]
    <3>1. w \in Seq(V) /\ q \in Speakers /\ said[i] = Tag(w, q)
      BY <1>0, <1>1, <2>1
    <3>. HIDE DEF w, q, said
    <3>. QED BY <3>1, TagType
  <2>. HIDE DEF said, S
  <2>3. said \in Seq(Seq(S)) /\ Len(said) = n
    BY <1>0, <2>1, <2>2, ListType
  <2>. QED BY <2>1, <2>3
<1>4. Maps(f, Turns(V), S)
  BY SpokenMap
<1>. HIDE DEF said, f, S
<1>. DEFINE Typed == {i \in Nat : i <= n => g[i] \in Seq(Turns(V))}
<1>5. ASSUME NEW i \in 1..n, g[i - 1] \in Seq(Turns(V))
      PROVE  g[i] \in Seq(Turns(V)) /\ Mapped(f, g[i]) = Mapped(f, g[i - 1]) \o said[i]
  <2>. DEFINE u == us[i]
              q == r[i]
              old == g[i - 1]
              new == g[i]
  <2>1. u \in Said(V) /\ q \in Speakers /\ old \in Seq(Turns(V)) /\ said[i] = Tag(u.words, q)
    BY <1>0, <1>1, <1>3, <1>5
  <2>2. (u.words = <<>> /\ new = old) \/ Adds(new, old, u, q)
    BY <1>2
  <2>. HIDE DEF u, q, old, new
  <2>3. CASE u.words = <<>> /\ new = old
    <3>1. Tag(u.words, q) = <<>>
      <4>1. [j \in DOMAIN <<>> |-> <<<<>>[j], q>>] = <<>>
        OBVIOUS
      <4>. QED BY <2>3, <4>1 DEF Tag
    <3>2. Mapped(f, old) \in Seq(S)
      BY <1>4, <2>1, MappedType
    <3>3. Mapped(f, old) \o <<>> = Mapped(f, old)
      BY <3>2, ConcatEmptySeq
    <3>. QED BY <2>1, <2>3, <3>1, <3>3 DEF old, new
  <2>4. CASE Adds(new, old, u, q)
    <3>0. u \in Heard(V)
      BY <2>1, <2>4 DEF Heard, Adds
    <3>1. new \in Seq(Turns(V)) /\ Mapped(f, new) = Mapped(f, old) \o Tag(u.words, q)
      BY <2>1, <2>4, <3>0, Added DEF f
    <3>. QED BY <2>1, <3>1 DEF old, new
  <2>. QED BY <2>2, <2>3, <2>4
<1>6. \A i \in 0..n : g[i] \in Seq(Turns(V))
  <2>1. 0 \in Typed
    <3>1. g[0] \in Seq(Turns(V))
      OBVIOUS
    <3>. QED BY <3>1
  <2>2. ASSUME NEW i \in Nat, i \in Typed PROVE i + 1 \in Typed
    <3>. SUFFICES ASSUME i + 1 <= n PROVE g[i + 1] \in Seq(Turns(V))
      OBVIOUS
    <3>1. g[i] \in Seq(Turns(V)) /\ i + 1 \in 1..n /\ (i + 1) - 1 = i
      BY <1>0, <2>2
    <3>. QED BY <1>5, <3>1
  <2>3. Nat \subseteq Typed
    <3>. HIDE DEF Typed
    <3>. QED BY <2>1, <2>2, Induct
  <2>. QED BY <1>0, <2>3
<1>. DEFINE h == [i \in 0..n |-> Mapped(f, g[i])]
<1>7. \A i \in 0..n : h[i] = Mapped(f, g[i])
  OBVIOUS
<1>. HIDE DEF h
<1>8. FlattenSeq(said) = h[n]
  <2>1. h[0] = <<>>
    <3>1. 0 \in 0..n
      BY <1>0
    <3>2. [i \in DOMAIN <<>> |-> f[<<>>[i]]] = <<>>
      OBVIOUS
    <3>3. Mapped(f, <<>>) = <<>>
      BY <3>2 DEF Mapped, FlattenSeq
    <3>. QED BY <1>7, <3>1, <3>3
  <2>2. \A i \in 1..Len(said) : h[i] = h[i - 1] \o said[i]
    <3>. TAKE i \in 1..Len(said)
    <3>1. i \in 1..n /\ i \in 0..n /\ i - 1 \in 0..n
      BY <1>0, <1>3
    <3>2. Mapped(f, g[i]) = Mapped(f, g[i - 1]) \o said[i]
      BY <1>5, <1>6, <3>1
    <3>. QED BY <1>7, <3>1, <3>2
  <2>3. FlattenSeq(said) = h[Len(said)]
    BY <1>3, <2>1, <2>2, FlattenIs
  <2>. QED BY <1>3, <2>3
<1>9. n \in 0..n
  BY <1>0
<1>10. g[n] \in Seq(Turns(V)) /\ Mapped(f, g[n]) = FlattenSeq(said)
  BY <1>6, <1>7, <1>8, <1>9
<1>. QED BY <1>10 DEF Holds, f, said, n

(* Grouping keeps what is said.                                            *)
LEMMA GroupsHold ==
    ASSUME NEW V, NEW us \in Seq(Said(V)), NEW r, \A i \in 1..Len(us) : r[i] \in Speakers
    PROVE  Holds(GroupBySpeaker(us, r), us, r, V)
<1>. DEFINE n == Len(us)
            g == CHOOSE g : Groups(g, us, r)
<1>0. n \in Nat /\ \A i \in 1..n : r[i] \in Speakers
  OBVIOUS
<1>1. Groups(g, us, r) /\ GroupBySpeaker(us, r) = g[n]
  BY <1>0, GroupsExist, GroupsUnfold
<1>. HIDE DEF g, n
<1>2. g[0] = <<>> /\ \A i \in 1..n : g[i] = AddUtterance(g[i - 1], us[i], r[i])
  <2>. DEFINE h == [i \in 0..n |-> IF i = 0 THEN <<>> ELSE AddUtterance(g[i - 1], us[i], r[i])]
  <2>1. h[0] = <<>> /\ \A i \in 1..n : h[i] = AddUtterance(g[i - 1], us[i], r[i])
    BY <1>0
  <2>2. g = h
    BY <1>1 DEF Groups, n
  <2>. HIDE DEF h
  <2>. QED BY <2>1, <2>2
<1>3. ASSUME NEW i \in 1..n
      PROVE  \/ us[i].words = <<>> /\ g[i] = g[i - 1]
             \/ Adds(g[i], g[i - 1], us[i], r[i])
  <2>. DEFINE u == us[i]
              old == g[i - 1]
  <2>1. g[i] = AddUtterance(old, u, r[i])
    BY <1>2
  <2>. HIDE DEF u, old
  <2>2. (u.words = <<>> /\ g[i] = old) \/ Adds(g[i], old, u, r[i])
    BY <2>1 DEF AddUtterance, Adds
  <2>. QED BY <2>2 DEF u, old
<1>4. Holds(g[Len(us)], us, r, V)
  BY <1>0, <1>2, <1>3, Adding DEF n
<1>. QED BY <1>1, <1>4 DEF n

-----------------------------------------------------------------------------
(* Expand.                                                                 *)

(* The smaller and the larger of two numbers.                              *)
LEMMA OfTwo ==
    ASSUME NEW a \in Int, NEW b \in Int
    PROVE  Min({a, b}) = (IF a <= b THEN a ELSE b) /\ Max({a, b}) = (IF a >= b THEN a ELSE b)
<1>1. \E x \in {a, b} : \A y \in {a, b} : x <= y
  OBVIOUS
<1>2. \E x \in {a, b} : \A y \in {a, b} : x >= y
  OBVIOUS
<1>3. Min({a, b}) \in {a, b} /\ \A y \in {a, b} : Min({a, b}) <= y
  BY <1>1 DEF Min
<1>4. Max({a, b}) \in {a, b} /\ \A y \in {a, b} : Max({a, b}) >= y
  BY <1>2 DEF Max
<1>. QED BY <1>3, <1>4

(* Cutting an utterance into chunks keeps its words.                       *)
LEMMA ExpandHolds ==
    ASSUME NEW V, NEW u \in Heard(V), NEW max \in Nat \ {0}
    PROVE  Expand(u, max) \in Seq(Heard(V)) /\ Mapped(Words(V), Expand(u, max)) = u.words
<1>. DEFINE w == u.words
            L == Len(w)
            duration == u.end - u.start
            count == Max({2, (duration + max - 1) \div max})
            perChunk == Max({1, L \div count})
            cut(n) == IF n = count THEN L ELSE Min({n * perChunk, L})
            time(n) == u.start + (duration * n) \div L
            chunk(n) == [words |-> SubSeq(w, cut(n) + 1, cut(n + 1)),
                         start |-> time(cut(n)), end |-> Max({time(cut(n + 1)), time(cut(n)) + 1})]
            parts == [n \in 1..count |-> IF chunk(n - 1).words = <<>> THEN <<>> ELSE <<chunk(n - 1)>>]
            f == Words(V)
<1>1. Expand(u, max) = IF duration <= max \/ L < 2 THEN <<u>> ELSE FlattenSeq(parts)
  BY DEF Expand
<1>2. w \in Seq(V) /\ L \in Nat /\ u.start \in Int /\ u.end \in Int /\ duration \in Int
  BY DEF Said, Heard
<1>3. Maps(f, Said(V), V) /\ f[u] = w /\ u \in Said(V)
  BY WordsMap DEF Words, Heard
<1>0. \A s : s \in Seq(Heard(V)) => s \in Seq(Said(V))
  <2>1. Heard(V) \subseteq Said(V)
    BY DEF Heard
  <2>. QED BY <2>1, SeqMonotonic
<1>4. CASE duration <= max \/ L < 2
  <2>1. <<u>> \in Seq(Heard(V))
    OBVIOUS
  <2>. HIDE DEF f
  <2>2. Mapped(f, <<u>>) = w
    BY <1>3, MappedOne
  <2>. HIDE DEF parts, duration
  <2>. QED BY <1>1, <1>4, <2>1, <2>2 DEF f
<1>5. CASE ~(duration <= max \/ L < 2)
  <2>1. count \in Nat /\ count >= 2
    <3>. DEFINE x == (duration + max - 1) \div max
    <3>1. duration + max - 1 \in Nat
      BY <1>2, <1>5
    <3>. HIDE DEF duration
    <3>2. x \in Int
      BY <3>1, Division
    <3>. HIDE DEF x
    <3>4. 2 \in Int /\ Max({2, x}) = IF 2 >= x THEN 2 ELSE x
      BY <3>2, OfTwo
    <3>3. Max({2, x}) \in Nat /\ Max({2, x}) >= 2
      BY <3>2, <3>4
    <3>. QED BY <3>3 DEF x
  <2>. HIDE DEF count, L, duration, w
  <2>2. perChunk \in Nat
    <3>. DEFINE x == L \div count
    <3>1. count \in Nat \ {0}
      BY <2>1
    <3>2. x \in Nat
      BY <1>2, <3>1, Division
    <3>. HIDE DEF x
    <3>4. 1 \in Int /\ x \in Int
      BY <3>2
    <3>5. Max({1, x}) = IF 1 >= x THEN 1 ELSE x
      BY <3>4, OfTwo
    <3>3. Max({1, x}) \in Nat
      BY <3>2, <3>5
    <3>. QED BY <3>3 DEF x
  <2>. HIDE DEF perChunk
  <2>. DEFINE low(n) == Min({n * perChunk, L})
  <2>3. ASSUME NEW n \in Nat PROVE low(n) \in 0..L /\ low(n) <= low(n + 1)
    <3>. DEFINE x == n * perChunk
                y == (n + 1) * perChunk
    <3>1. x \in Nat /\ y \in Nat /\ x <= y
      BY <2>2
    <3>. HIDE DEF x, y
    <3>2. Min({x, L}) = (IF x <= L THEN x ELSE L) /\ Min({y, L}) = IF y <= L THEN y ELSE L
      BY <1>2, <3>1, OfTwo
    <3>3. Min({x, L}) \in 0..L /\ Min({x, L}) <= Min({y, L})
      BY <1>2, <3>1, <3>2
    <3>. QED BY <3>3 DEF x, y
  <2>4. low(0) = 0
    <3>1. 0 * perChunk = 0
      BY <2>2
    <3>2. Min({0, L}) = 0
      BY <1>2, OfTwo
    <3>. QED BY <3>1, <3>2
  <2>. HIDE DEF low
  <2>0. \A n : cut(n) = IF n = count THEN L ELSE low(n)
    BY DEF low
  <2>. HIDE DEF cut
  <2>5. /\ \A n \in 0..count : cut(n) \in 0..L
        /\ \A n \in 0..(count - 1) : cut(n) <= cut(n + 1)
        /\ cut(0) = 0 /\ cut(count) = L
    <3>1. L \in 0..L
      BY <1>2
    <3>2. \A n \in 0..count : cut(n) \in 0..L
      BY <2>0, <2>1, <2>3, <3>1
    <3>3. ASSUME NEW n \in 0..(count - 1) PROVE cut(n) <= cut(n + 1)
      <4>1. n \in Nat /\ n # count /\ low(n) \in 0..L /\ low(n) <= low(n + 1)
        BY <2>1, <2>3
      <4>2. cut(n) = low(n) /\ (cut(n + 1) = L \/ cut(n + 1) = low(n + 1))
        BY <2>0, <4>1
      <4>. QED BY <1>2, <4>1, <4>2
    <3>4. cut(0) = 0 /\ cut(count) = L
      BY <2>0, <2>1, <2>4
    <3>. QED BY <3>2, <3>3, <3>4
  <2>6. ASSUME NEW n \in 0..(count - 1)
        PROVE  chunk(n) \in Said(V) /\ chunk(n).words = SubSeq(w, cut(n) + 1, cut(n + 1))
    <3>1. n \in 0..count /\ n + 1 \in 0..count
      BY <2>1
    <3>. DEFINE a == cut(n)
                b == cut(n + 1)
    <3>2. a \in 0..L /\ b \in 0..L
      BY <2>5, <3>1
    <3>. HIDE DEF a, b
    <3>3. ASSUME NEW k \in 0..L PROVE time(k) \in Int
      <4>1. duration * k \in Nat /\ L \in Nat \ {0}
        BY <1>2, <1>5
      <4>2. (duration * k) \div L \in Nat
        BY <4>1, Division
      <4>. QED BY <1>2, <4>2
    <3>. DEFINE s == time(a)
                e == time(b)
    <3>4. s \in Int /\ e \in Int
      BY <3>2, <3>3
    <3>. HIDE DEF s, e
    <3>5. Max({e, s + 1}) \in Int
      <4>1. s + 1 \in Int
        BY <3>4
      <4>. QED BY <3>4, <4>1, OfTwo
    <3>6. SubSeq(w, a + 1, b) \in Seq(V)
      <4>1. a + 1 \in 1..(Len(w) + 1) /\ b \in 0..Len(w)
        BY <1>2, <3>2 DEF L
      <4>. QED BY <1>2, <4>1, StretchOccurs
    <3>7. chunk(n) = [words |-> SubSeq(w, a + 1, b), start |-> s, end |-> Max({e, s + 1})]
      BY DEF a, b, s, e
    <3>. DEFINE q == SubSeq(w, a + 1, b)
                m == Max({e, s + 1})
                c == chunk(n)
    <3>9. q \in Seq(V) /\ m \in Int /\ c = [words |-> q, start |-> s, end |-> m]
      BY <3>5, <3>6, <3>7
    <3>. HIDE DEF q, m, c
    <3>10. c \in Said(V) /\ c.words = q
      BY <3>4, <3>9 DEF Said
    <3>8. chunk(n) \in Said(V) /\ chunk(n).words = SubSeq(w, a + 1, b)
      BY <3>10 DEF c, q
    <3>. HIDE DEF chunk
    <3>. QED BY <3>8 DEF a, b
  <2>. HIDE DEF chunk, f
  <2>7. ASSUME NEW n \in 1..count
        PROVE  parts[n] \in Seq(Heard(V)) /\ Mapped(f, parts[n]) = SubSeq(w, cut(n - 1) + 1, cut(n))
    <3>. DEFINE c == chunk(n - 1)
    <3>1. n - 1 \in 0..(count - 1) /\ (n - 1) + 1 = n
      BY <2>1
    <3>2. c \in Said(V) /\ c.words = SubSeq(w, cut(n - 1) + 1, cut((n - 1) + 1))
      BY <2>6, <3>1
    <3>3. parts[n] = IF c.words = <<>> THEN <<>> ELSE <<c>>
      OBVIOUS
    <3>. HIDE DEF c, parts
    <3>4. f[c] = c.words
      BY <3>2 DEF f, Words
    <3>5. Mapped(f, <<>>) = <<>> /\ Mapped(f, <<c>>) = f[c]
      BY <1>3, <3>2, MappedOne
    <3>6. <<>> \in Seq(Heard(V)) /\ (c.words # <<>> => <<c>> \in Seq(Heard(V)))
      <4>1. c.words # <<>> => c \in Heard(V)
        BY <3>2 DEF Heard
      <4>. QED BY <4>1
    <3>7. parts[n] \in Seq(Heard(V)) /\ Mapped(f, parts[n]) = c.words
      BY <3>3, <3>4, <3>5, <3>6
    <3>. QED BY <3>1, <3>2, <3>7
  <2>8. parts \in Seq(Seq(Heard(V))) /\ parts \in Seq(Seq(Said(V))) /\ DOMAIN parts = 1..count
    <3>1. parts = [n \in 1..count |-> parts[n]] /\ DOMAIN parts = 1..count
      OBVIOUS
    <3>. HIDE DEF parts
    <3>2. \A n \in 1..count : parts[n] \in Seq(Said(V))
      BY <1>0, <2>7
    <3>. QED BY <2>1, <2>7, <3>1, <3>2, ListType
  <2>. HIDE DEF parts
  <2>9. FlattenSeq(parts) \in Seq(Heard(V))
    BY <2>8, FlattenType
  <2>. DEFINE maps == MappedEach(f, parts)
              h == [n \in 0..count |-> SubSeq(w, 1, cut(n))]
  <2>10. Mapped(f, FlattenSeq(parts)) = FlattenSeq(maps)
    BY <1>3, <2>8, MappedFlatten
  <2>11. maps \in Seq(Seq(V)) /\ Len(maps) = count /\ \A n \in 1..count : maps[n] = Mapped(f, parts[n])
    <3>1. maps = [n \in 1..count |-> maps[n]] /\ \A n \in 1..count : maps[n] = Mapped(f, parts[n])
      BY <2>8 DEF MappedEach
    <3>2. \A n \in 1..count : Mapped(f, parts[n]) \in Seq(V)
      <4>. TAKE n \in 1..count
      <4>1. parts[n] \in Seq(Said(V))
        BY <1>0, <2>7
      <4>. QED BY <1>3, <4>1, MappedType
    <3>. HIDE DEF maps
    <3>3. \A n \in 1..count : maps[n] \in Seq(V)
      BY <3>1, <3>2
    <3>4. maps \in Seq(Seq(V)) /\ Len(maps) = count
      BY <2>1, <3>1, <3>3, ListType
    <3>. QED BY <3>1, <3>4
  <2>12. \A n \in 0..count : h[n] = SubSeq(w, 1, cut(n))
    OBVIOUS
  <2>. HIDE DEF maps, h
  <2>13. h[0] = <<>>
    <3>1. 0 \in 0..count
      BY <2>1
    <3>. QED BY <2>5, <2>12, <3>1
  <2>14. ASSUME NEW n \in 1..count PROVE h[n] = h[n - 1] \o maps[n]
    <3>1. n \in 0..count /\ n - 1 \in 0..count /\ n - 1 \in 0..(count - 1) /\ (n - 1) + 1 = n
      BY <2>1
    <3>. DEFINE a == cut(n - 1)
                b == cut(n)
    <3>2. a \in 0..L /\ b \in 0..L /\ a <= b
      <4>1. cut(n - 1) <= cut((n - 1) + 1)
        BY <2>5, <3>1
      <4>. QED BY <2>5, <3>1, <4>1
    <3>3. maps[n] = SubSeq(w, a + 1, b)
      BY <2>7, <2>11
    <3>. HIDE DEF a, b
    <3>4. SubSeq(w, 1, a) \o SubSeq(w, a + 1, b) = SubSeq(w, 1, b)
      <4>1. 1 \in 1..(Len(w) + 1) /\ a \in (1 - 1)..Len(w) /\ b \in a..Len(w)
        BY <1>2, <3>2 DEF L
      <4>. QED BY <1>2, <4>1, ConcatAdjacentSubSeq
    <3>5. h[n] = SubSeq(w, 1, b) /\ h[n - 1] = SubSeq(w, 1, a)
      BY <2>12, <3>1 DEF a, b
    <3>. QED BY <3>3, <3>4, <3>5
  <2>15. FlattenSeq(maps) = w
    <3>1. \A n \in 1..Len(maps) : h[n] = h[n - 1] \o maps[n]
      BY <2>11, <2>14
    <3>2. FlattenSeq(maps) = h[Len(maps)]
      BY <2>11, <2>13, <3>1, FlattenIs
    <3>3. h[count] = SubSeq(w, 1, L)
      <4>1. count \in 0..count
        BY <2>1
      <4>. QED BY <2>5, <2>12, <4>1
    <3>4. SubSeq(w, 1, L) = w
      BY <1>2, SubSeqFull DEF L
    <3>. QED BY <2>11, <3>2, <3>3, <3>4
  <2>. QED BY <1>1, <1>5, <2>9, <2>10, <2>15 DEF f, w
<1>. QED BY <1>4, <1>5

-----------------------------------------------------------------------------
(* SplitTurn and BuildSpeakerTurns.                                        *)

(* The turns of one speaker, or of any, that keep to the limit.            *)
BoundedTurns(V, max) ==
    {t \in Turns(V) : Len(t.parts) > 1 => t.end - t.start <= max}
TurnsOf(V, max, role) == {t \in BoundedTurns(V, max) : t.speaker = role}

(* The recursion of SplitTurn.                                             *)
Cuts(g, parts, role, max) ==
    g = [i \in 0..Len(parts) |-> IF i = 0 THEN <<>> ELSE AddPart(g[i - 1], parts[i], role, max)]

PartsOf(turn, max) == FlattenSeq([i \in DOMAIN turn.parts |-> Expand(turn.parts[i], max)])

(* SplitTurn is the turn itself or the last value of its recursion.        *)
LEMMA CutsUnfold ==
    ASSUME NEW turn, NEW max
    PROVE  SplitTurn(turn, max)
           = IF turn.end - turn.start <= max THEN <<turn>>
             ELSE (CHOOSE g : Cuts(g, PartsOf(turn, max), turn.speaker, max))[Len(PartsOf(turn, max))]
BY DEF SplitTurn, Cuts, PartsOf

(* And the recursion has a solution.                                       *)
LEMMA CutsExist ==
    ASSUME NEW parts, NEW role, NEW max, Len(parts) \in Nat
    PROVE  \E g : Cuts(g, parts, role, max)
<1>. DEFINE n == Len(parts)
            Value(g, i) == IF i = 0 THEN <<>> ELSE AddPart(g[i - 1], parts[i], role, max)
            Upto == {k \in Nat : k <= n => \E g : /\ DOMAIN g = 0..n
                                                  /\ \A i \in 0..k : g[i] = Value(g, i)}
<1>1. 0 \in Upto
  <2>. DEFINE g == [i \in 0..n |-> <<>>]
  <2>1. DOMAIN g = 0..n /\ \A i \in 0..0 : i = 0 /\ i \in 0..n
    OBVIOUS
  <2>2. \A i \in 0..0 : g[i] = Value(g, i)
    BY <2>1
  <2>. HIDE DEF g, Value
  <2>. QED BY <2>1, <2>2
<1>2. ASSUME NEW k \in Nat, k \in Upto PROVE k + 1 \in Upto
  <2>. SUFFICES ASSUME k + 1 <= n
                PROVE  \E g : DOMAIN g = 0..n /\ \A i \in 0..(k + 1) : g[i] = Value(g, i)
    OBVIOUS
  <2>1. PICK g : DOMAIN g = 0..n /\ \A i \in 0..k : g[i] = Value(g, i)
    BY <1>2
  <2>. DEFINE h == [i \in 0..n |-> IF i = k + 1 THEN Value(g, i) ELSE g[i]]
  <2>2. \A i \in 0..(k + 1) : i # k + 1 => h[i] = g[i] /\ i \in 0..k
    OBVIOUS
  <2>3. \A i \in 0..(k + 1) : i # 0 => h[i - 1] = g[i - 1]
    OBVIOUS
  <2>4. h[k + 1] = Value(g, k + 1)
    <3>1. k + 1 \in 0..n
      OBVIOUS
    <3>. HIDE DEF Value, n
    <3>. QED BY <3>1
  <2>5. DOMAIN h = 0..n
    OBVIOUS
  <2>. HIDE DEF h
  <2>6. ASSUME NEW i \in 0..(k + 1) PROVE h[i] = Value(h, i)
    <3>1. h[i] = Value(g, i)
      <4>. HIDE DEF Value
      <4>. QED BY <2>1, <2>2, <2>4
    <3>. QED BY <2>3, <3>1
  <2>. HIDE DEF Value
  <2>. QED BY <2>5, <2>6
<1>3. n \in Upto
  <2>. HIDE DEF Upto
  <2>. QED BY <1>1, <1>2, Induct
<1>4. PICK g : DOMAIN g = 0..n /\ \A i \in 0..n : g[i] = Value(g, i)
  BY <1>3
<1>. DEFINE h == [i \in 0..n |-> g[i]]
<1>5. \A i \in 0..n : h[i] = g[i] /\ (i # 0 => h[i - 1] = g[i - 1])
  OBVIOUS
<1>6. h = [i \in 0..n |-> h[i]]
  OBVIOUS
<1>. HIDE DEF h
<1>7. \A i \in 0..n : h[i] = Value(h, i)
  BY <1>4, <1>5
<1>8. h = [i \in 0..n |-> Value(h, i)]
  <2>. HIDE DEF Value
  <2>. QED BY <1>6, <1>7
<1>. QED BY <1>8 DEF Cuts

(* A part goes on with the last turn within the limit, or starts a turn.   *)
LEMMA AddPartType ==
    ASSUME NEW V, NEW max \in Nat, NEW role \in Speakers, NEW old \in Seq(TurnsOf(V, max, role)),
           NEW u \in Heard(V)
    PROVE  /\ AddPart(old, u, role, max) \in Seq(TurnsOf(V, max, role))
           /\ Adds(AddPart(old, u, role, max), old, u, role)
<1>. DEFINE B == TurnsOf(V, max, role)
            new == AddPart(old, u, role, max)
            last == Last(old)
            front == Front(old)
<1>1. \A t \in B : t \in Turns(V) /\ t.speaker = role
  BY DEF TurnsOf, BoundedTurns
<1>0. u.words # <<>>
  BY DEF Heard
<1>2. CASE old # <<>> /\ u.end - last.start <= max
  <2>1. new = Append(front, Extend(last, u))
    BY <1>2 DEF AddPart
  <2>2. front \in Seq(B) /\ last \in B
    BY <1>2, FrontLast
  <2>. HIDE DEF last, front
  <2>3. /\ Extend(last, u) \in Turns(V) /\ Extend(last, u).speaker = role
        /\ Extend(last, u).start = last.start /\ Extend(last, u).end = u.end
    BY <1>1, <2>2, ExtendType
  <2>4. Extend(last, u) \in B
    BY <1>2, <2>3 DEF TurnsOf, BoundedTurns
  <2>. HIDE DEF B
  <2>5. Append(front, Extend(last, u)) \in Seq(B)
    BY <2>2, <2>4, AppendProperties
  <2>6. Adds(Append(front, Extend(last, u)), old, u, role)
    BY <1>0, <1>1, <1>2, <2>2 DEF Adds, last, front
  <2>. QED BY <2>1, <2>5, <2>6 DEF B
<1>3. CASE ~(old # <<>> /\ u.end - last.start <= max)
  <2>1. new = Append(old, Turn(u, role))
    BY <1>3 DEF AddPart
  <2>2. Turn(u, role) \in Turns(V) /\ Turn(u, role).speaker = role /\ Len(Turn(u, role).parts) = 1
    BY TurnType
  <2>3. Turn(u, role) \in B
    <3>. DEFINE x == Turn(u, role)
    <3>. HIDE DEF x
    <3>1. x \in Turns(V) /\ x.speaker = role /\ ~(Len(x.parts) > 1)
      BY <2>2 DEF x
    <3>2. x \in BoundedTurns(V, max)
      BY <3>1 DEF BoundedTurns
    <3>3. x \in B
      BY <3>1, <3>2 DEF TurnsOf
    <3>. QED BY <3>3 DEF x
  <2>. HIDE DEF B
  <2>4. Append(old, Turn(u, role)) \in Seq(B)
    BY <2>3, AppendProperties DEF B
  <2>5. Adds(Append(old, Turn(u, role)), old, u, role)
    BY <1>0 DEF Adds
  <2>. QED BY <2>1, <2>4, <2>5 DEF B
<1>. QED BY <1>2, <1>3

(* The tags of what is joined are joined.                                  *)
LEMMA TagFlatten ==
    ASSUME NEW V, NEW seqs \in Seq(Seq(V)), NEW r \in Speakers,
           NEW tags \in Seq(Seq(V \X Speakers)), Len(tags) = Len(seqs),
           \A i \in 1..Len(seqs) : tags[i] = Tag(seqs[i], r)
    PROVE  FlattenSeq(tags) = Tag(FlattenSeq(seqs), r)
<1>. DEFINE n == Len(seqs)
<1>0. n \in Nat /\ \A i \in 1..n : seqs[i] \in Seq(V)
  OBVIOUS
<1>1. PICK g : Flattening(g, seqs, V)
  BY FlattenStep
<1>2. /\ g[0] = <<>> /\ FlattenSeq(seqs) = g[n] /\ \A i \in 0..n : g[i] \in Seq(V)
      /\ \A i \in 1..n : g[i] = g[i - 1] \o seqs[i]
  BY <1>1 DEF Flattening
<1>3. Len(tags) = n /\ \A i \in 1..n : tags[i] = Tag(seqs[i], r)
  OBVIOUS
<1>. HIDE DEF n
<1>. DEFINE h == [i \in 0..n |-> Tag(g[i], r)]
<1>4. \A i \in 0..n : h[i] = Tag(g[i], r)
  OBVIOUS
<1>. HIDE DEF h
<1>5. h[0] = <<>>
  <2>1. [j \in DOMAIN <<>> |-> <<<<>>[j], r>>] = <<>>
    OBVIOUS
  <2>2. 0 \in 0..n
    BY <1>0
  <2>. QED BY <1>2, <1>4, <2>1, <2>2 DEF Tag
<1>6. ASSUME NEW i \in 1..n PROVE h[i] = h[i - 1] \o tags[i]
  <2>. DEFINE a == g[i - 1]
              b == seqs[i]
  <2>1. i \in 0..n /\ i - 1 \in 0..n
    BY <1>0
  <2>2. a \in Seq(V) /\ b \in Seq(V) /\ g[i] = a \o b
    BY <1>0, <1>2, <2>1
  <2>3. h[i] = Tag(g[i], r) /\ h[i - 1] = Tag(a, r) /\ tags[i] = Tag(b, r)
    BY <1>3, <1>4, <2>1
  <2>. HIDE DEF a, b
  <2>4. Tag(a \o b, r) = Tag(a, r) \o Tag(b, r)
    BY <2>2, TagConcat
  <2>. QED BY <2>2, <2>3, <2>4
<1>7. FlattenSeq(tags) = h[Len(tags)]
  BY <1>3, <1>5, <1>6, FlattenIs
<1>8. n \in 0..n
  BY <1>0
<1>. QED BY <1>2, <1>3, <1>4, <1>7, <1>8

(* The parts of a turn hold its words.                                     *)
LEMMA PartsHold ==
    ASSUME NEW V, NEW max \in Nat \ {0}, NEW turn \in Turns(V)
    PROVE  PartsOf(turn, max) \in Seq(Heard(V)) /\ Mapped(Words(V), PartsOf(turn, max)) = WordsOf(turn)
<1>. DEFINE ps == turn.parts
            n == Len(ps)
            f == Words(V)
            cuts == [i \in DOMAIN ps |-> Expand(ps[i], max)]
<1>0. ps \in Seq(Heard(V))
  BY DEF Turns
<1>1. PartsOf(turn, max) = FlattenSeq(cuts)
  BY DEF PartsOf
<1>2. Maps(f, Said(V), V) /\ WordsOf(turn) = Mapped(f, ps)
  BY WordsMap
<1>3. \A u \in Said(V) : f[u] = u.words
  BY DEF Words
<1>11. Heard(V) \subseteq Said(V)
  BY DEF Heard
<1>. HIDE DEF ps, f
<1>4. n \in Nat /\ DOMAIN ps = 1..n /\ \A i \in 1..n : ps[i] \in Heard(V)
  BY <1>0
<1>. HIDE DEF n
<1>5. /\ cuts = [i \in 1..n |-> cuts[i]] /\ DOMAIN cuts = 1..n
      /\ \A i \in 1..n : cuts[i] = Expand(ps[i], max)
  BY <1>4
<1>. HIDE DEF cuts
<1>6. ASSUME NEW i \in 1..n PROVE cuts[i] \in Seq(Heard(V)) /\ Mapped(f, cuts[i]) = f[ps[i]]
  <2>. DEFINE u == ps[i]
  <2>1. u \in Heard(V) /\ cuts[i] = Expand(u, max)
    BY <1>4, <1>5
  <2>. HIDE DEF u
  <2>2. Expand(u, max) \in Seq(Heard(V)) /\ Mapped(f, Expand(u, max)) = u.words
    BY <2>1, ExpandHolds DEF f
  <2>. QED BY <1>3, <1>11, <2>1, <2>2 DEF u
<1>7. cuts \in Seq(Seq(Heard(V))) /\ cuts \in Seq(Seq(Said(V)))
  <2>1. \A i \in 1..n : cuts[i] \in Seq(Said(V))
    BY <1>6, <1>11, SeqMonotonic
  <2>. QED BY <1>4, <1>5, <1>6, <2>1, ListType
<1>8. FlattenSeq(cuts) \in Seq(Heard(V))
  BY <1>7, FlattenType
<1>9. Mapped(f, FlattenSeq(cuts)) = FlattenSeq(MappedEach(f, cuts))
  BY <1>2, <1>7, MappedFlatten
<1>10. MappedEach(f, cuts) = [i \in DOMAIN ps |-> f[ps[i]]]
  BY <1>4, <1>5, <1>6 DEF MappedEach
<1>. QED BY <1>1, <1>2, <1>8, <1>9, <1>10 DEF f, Mapped

(* Splitting a turn keeps what is said, and the limit.                     *)
LEMMA SplitHolds ==
    ASSUME NEW V, NEW max \in Nat \ {0}, NEW turn \in Turns(V)
    PROVE  /\ SplitTurn(turn, max) \in Seq(BoundedTurns(V, max))
           /\ Mapped(Spoken(V), SplitTurn(turn, max)) = Spoken(V)[turn]
<1>. DEFINE parts == PartsOf(turn, max)
            n == Len(parts)
            role == turn.speaker
            S == V \X Speakers
            f == Words(V)
            r == [i \in 1..n |-> role]
            g == CHOOSE g : Cuts(g, parts, role, max)
            B == TurnsOf(V, max, role)
<1>0. role \in Speakers /\ Spoken(V)[turn] = Tag(WordsOf(turn), role)
  BY DEF Turns, Spoken
<1>1. /\ parts \in Seq(Heard(V)) /\ parts \in Seq(Said(V))
      /\ Mapped(f, parts) = WordsOf(turn)
  <2>. HIDE DEF parts, f
  <2>1. parts \in Seq(Heard(V)) /\ Mapped(f, parts) = WordsOf(turn)
    BY PartsHold DEF parts, f
  <2>2. Heard(V) \subseteq Said(V)
    BY DEF Heard
  <2>. QED BY <2>1, <2>2, SeqMonotonic
<1>2. SplitTurn(turn, max) = IF turn.end - turn.start <= max THEN <<turn>> ELSE g[n]
  BY CutsUnfold
<1>3. CASE turn.end - turn.start <= max
  <2>1. turn \in BoundedTurns(V, max)
    BY <1>3 DEF BoundedTurns
  <2>2. <<turn>> \in Seq(BoundedTurns(V, max))
    BY <2>1
  <2>3. Mapped(Spoken(V), <<turn>>) = Spoken(V)[turn]
    <3>. DEFINE s == Spoken(V)
    <3>1. Maps(s, Turns(V), S)
      BY SpokenMap
    <3>. HIDE DEF s, S
    <3>2. Mapped(s, <<turn>>) = s[turn]
      BY <3>1, MappedOne
    <3>. QED BY <3>2 DEF s
  <2>. HIDE DEF g
  <2>. QED BY <1>2, <1>3, <2>2, <2>3
<1>4. CASE ~(turn.end - turn.start <= max)
  <2>. HIDE DEF parts, role
  <2>0. n \in Nat /\ \A i \in 1..n : parts[i] \in Heard(V)
    BY <1>1
  <2>1. Cuts(g, parts, role, max)
    BY <2>0, CutsExist
  <2>. HIDE DEF g
  <2>2. g[0] = <<>> /\ \A i \in 1..n : g[i] = AddPart(g[i - 1], parts[i], role, max)
    <3>. DEFINE h == [i \in 0..n |-> IF i = 0 THEN <<>> ELSE AddPart(g[i - 1], parts[i], role, max)]
    <3>1. h[0] = <<>> /\ \A i \in 1..n : h[i] = AddPart(g[i - 1], parts[i], role, max)
      BY <2>0
    <3>2. g = h
      BY <2>1 DEF Cuts
    <3>. HIDE DEF h
    <3>. QED BY <3>1, <3>2
  <2>3. \A i \in 1..n : r[i] = role /\ r[i] \in Speakers
    BY <1>0
  <2>. HIDE DEF n, r, B
  <2>. DEFINE Typed == {i \in Nat : i <= n => g[i] \in Seq(B)}
  <2>4. ASSUME NEW i \in 1..n, g[i - 1] \in Seq(B)
        PROVE  g[i] \in Seq(B) /\ Adds(g[i], g[i - 1], parts[i], r[i])
    <3>. DEFINE old == g[i - 1]
                u == parts[i]
    <3>1. old \in Seq(B) /\ u \in Heard(V) /\ g[i] = AddPart(old, u, role, max) /\ r[i] = role
      BY <2>0, <2>2, <2>3, <2>4
    <3>. HIDE DEF old, u
    <3>2. AddPart(old, u, role, max) \in Seq(B) /\ Adds(AddPart(old, u, role, max), old, u, role)
      BY <1>0, <3>1, AddPartType DEF B
    <3>. QED BY <3>1, <3>2 DEF old, u
  <2>5. \A i \in 0..n : g[i] \in Seq(B)
    <3>1. 0 \in Typed
      <4>1. g[0] \in Seq(B)
        BY <2>2
      <4>. QED BY <4>1
    <3>2. ASSUME NEW i \in Nat, i \in Typed PROVE i + 1 \in Typed
      <4>. SUFFICES ASSUME i + 1 <= n PROVE g[i + 1] \in Seq(B)
        OBVIOUS
      <4>1. g[i] \in Seq(B) /\ i + 1 \in 1..n /\ (i + 1) - 1 = i
        BY <2>0, <3>2
      <4>. QED BY <2>4, <4>1
    <3>3. Nat \subseteq Typed
      <4>. HIDE DEF Typed
      <4>. QED BY <3>1, <3>2, Induct
    <3>. QED BY <2>0, <3>3
  <2>6. \A i \in 1..n : Adds(g[i], g[i - 1], parts[i], r[i])
    <3>. TAKE i \in 1..n
    <3>1. i - 1 \in 0..n
      BY <2>0
    <3>. QED BY <2>4, <2>5, <3>1
  <2>7. Holds(g[n], parts, r, V)
    BY <1>1, <2>2, <2>3, <2>6, Adding DEF n
  <2>. DEFINE tags == [i \in DOMAIN parts |-> Tag(parts[i].words, r[i])]
              words == [i \in DOMAIN parts |-> f[parts[i]]]
  <2>8. Mapped(Spoken(V), g[n]) = FlattenSeq(tags)
    BY <2>7 DEF Holds
  <2>9. FlattenSeq(words) = WordsOf(turn) /\ words \in Seq(Seq(V))
    BY <1>1, WordsMap, MappedType DEF Mapped
  <2>10. /\ Len(words) = n /\ DOMAIN tags = 1..n /\ tags = [i \in 1..n |-> tags[i]]
         /\ \A i \in 1..n : words[i] = f[parts[i]] /\ tags[i] = Tag(parts[i].words, r[i])
    <3>1. DOMAIN parts = 1..n
      BY <1>1 DEF n
    <3>. HIDE DEF f
    <3>. QED BY <2>0, <3>1
  <2>11. \A i \in 1..n : f[parts[i]] = parts[i].words
    BY <2>0 DEF Words, Heard
  <2>. HIDE DEF tags, words, f
  <2>12. \A i \in 1..n : words[i] \in Seq(V) /\ tags[i] = Tag(words[i], role) /\ tags[i] \in Seq(S)
    <3>. TAKE i \in 1..n
    <3>1. words[i] \in Seq(V)
      BY <2>9, <2>10
    <3>2. tags[i] = Tag(words[i], role)
      BY <2>3, <2>10, <2>11
    <3>3. Tag(words[i], role) \in Seq(S)
      BY <1>0, <3>1, TagType
    <3>. QED BY <3>1, <3>2, <3>3
  <2>. HIDE DEF S
  <2>13. tags \in Seq(Seq(S)) /\ Len(tags) = n
    BY <2>0, <2>10, <2>12, ListType
  <2>14. FlattenSeq(tags) = Tag(FlattenSeq(words), role)
    <3>1. Len(tags) = Len(words) /\ \A i \in 1..Len(words) : tags[i] = Tag(words[i], role)
      BY <2>10, <2>12, <2>13
    <3>2. tags \in Seq(Seq(V \X Speakers))
      BY <2>13 DEF S
    <3>3. words \in Seq(Seq(V)) /\ role \in Speakers
      BY <1>0, <2>9
    <3>. QED BY <3>1, <3>2, <3>3, TagFlatten
  <2>15. g[n] \in Seq(B) /\ B \subseteq BoundedTurns(V, max)
    <3>1. n \in 0..n
      BY <2>0
    <3>. QED BY <2>5, <3>1 DEF B, TurnsOf
  <2>16. g[n] \in Seq(BoundedTurns(V, max))
    BY <2>15, SeqMonotonic
  <2>. QED BY <1>0, <1>2, <1>4, <2>8, <2>9, <2>14, <2>16
<1>. QED BY <1>3, <1>4

(* Building the turns of a recording keeps what is said, and the limit.    *)
LEMMA BuildHolds ==
    ASSUME NEW V, NEW us \in Seq(Said(V)), NEW r, \A i \in 1..Len(us) : r[i] \in Speakers,
           NEW max \in Nat \ {0}
    PROVE  /\ BuildSpeakerTurns(us, r, max) \in Seq(BoundedTurns(V, max))
           /\ Holds(BuildSpeakerTurns(us, r, max), us, r, V)
<1>. DEFINE turns == GroupBySpeaker(us, r)
            split == [i \in DOMAIN turns |-> SplitTurn(turns[i], max)]
            B == BoundedTurns(V, max)
            f == Spoken(V)
            n == Len(turns)
            said == FlattenSeq([i \in DOMAIN us |-> Tag(us[i].words, r[i])])
<1>1. BuildSpeakerTurns(us, r, max) = FlattenSeq(split)
  BY DEF BuildSpeakerTurns
<1>2. turns \in Seq(Turns(V)) /\ Mapped(f, turns) = said
  BY GroupsHold DEF Holds
<1>. HIDE DEF turns
<1>3. n \in Nat /\ DOMAIN turns = 1..n /\ \A i \in 1..n : turns[i] \in Turns(V)
  BY <1>2
<1>. HIDE DEF n, B, f, said
<1>4. /\ split = [i \in 1..n |-> split[i]] /\ DOMAIN split = 1..n
      /\ \A i \in 1..n : split[i] = SplitTurn(turns[i], max)
  BY <1>3
<1>. HIDE DEF split
<1>5. ASSUME NEW i \in 1..n PROVE split[i] \in Seq(B) /\ Mapped(f, split[i]) = f[turns[i]]
  <2>. DEFINE t == turns[i]
  <2>1. t \in Turns(V) /\ split[i] = SplitTurn(t, max)
    BY <1>3, <1>4
  <2>. HIDE DEF t
  <2>2. SplitTurn(t, max) \in Seq(B) /\ Mapped(f, SplitTurn(t, max)) = f[t]
    BY <2>1, SplitHolds DEF B, f
  <2>. QED BY <2>1, <2>2 DEF t
<1>6. split \in Seq(Seq(B))
  BY <1>3, <1>4, <1>5, ListType
<1>7. FlattenSeq(split) \in Seq(B)
  BY <1>6, FlattenType
<1>8. B \subseteq Turns(V)
  BY DEF B, BoundedTurns
<1>9. FlattenSeq(split) \in Seq(Turns(V))
  BY <1>7, <1>8, SeqMonotonic
<1>10. \A i \in 1..n : split[i] \in Seq(Turns(V))
  BY <1>5, <1>8, SeqMonotonic
<1>11. split \in Seq(Seq(Turns(V)))
  BY <1>3, <1>4, <1>10, ListType
<1>12. Maps(f, Turns(V), V \X Speakers)
  BY SpokenMap DEF f
<1>13. Mapped(f, FlattenSeq(split)) = FlattenSeq(MappedEach(f, split))
  BY <1>11, <1>12, MappedFlatten
<1>14. MappedEach(f, split) = [i \in DOMAIN turns |-> f[turns[i]]]
  BY <1>3, <1>4, <1>5 DEF MappedEach
<1>15. Mapped(f, FlattenSeq(split)) = said
  BY <1>2, <1>13, <1>14 DEF Mapped
<1>. QED BY <1>1, <1>7, <1>9, <1>15 DEF Holds, B, f, said

-----------------------------------------------------------------------------
(* Labelling: ParseReply and LabelBatch.                                   *)

(* What is parsed out of a reply has every required label, and a           *)
(* confidence, for each of the positions.                                  *)
Parsed(parsed, count, required) ==
    /\ DOMAIN parsed = 1..count
    /\ \A i \in 1..count : DOMAIN parsed[i].labels = required /\ parsed[i].confidence \in Nat

(* Whatever the reply, ParseReply is as Parsed has it.                     *)
LEMMA ParseReplyType ==
    ASSUME NEW reply \in Seq(Items), NEW count \in Nat, NEW required
    PROVE  Parsed(ParseReply(reply, count, required), count, required)
<1>. DEFINE items(i) == {j \in Usable(reply, count, required) : reply[j].index = i - 1}
            entry(text, confidence) == [labels |-> [f \in required |-> text], confidence |-> confidence]
            fallback == [i \in 1..count |-> entry("unknown", LOW_CONFIDENCE)]
            given == [i \in 1..count |-> entry("given", ParseConfidence(reply[Max(items(i))]))]
<1>1. ParseReply(reply, count, required) = IF \E i \in 1..count : items(i) = {} THEN fallback ELSE given
  BY DEF ParseReply
<1>2. ASSUME NEW text, NEW c \in Nat
      PROVE  DOMAIN entry(text, c).labels = required /\ entry(text, c).confidence \in Nat
  OBVIOUS
<1>3. Parsed(fallback, count, required)
  <2>1. LOW_CONFIDENCE \in Nat
    BY DEF LOW_CONFIDENCE
  <2>2. DOMAIN fallback = 1..count /\ \A i \in 1..count : fallback[i] = entry("unknown", LOW_CONFIDENCE)
    <3>. HIDE DEF entry
    <3>. QED OBVIOUS
  <2>. HIDE DEF entry, fallback
  <2>. QED BY <1>2, <2>1, <2>2 DEF Parsed
<1>4. ASSUME NEW item \in Items PROVE ParseConfidence(item) \in Nat
  <2>1. item.confidence \in Int
    BY DEF Items
  <2>2. DEFAULT_CONFIDENCE \in Nat
    BY DEF DEFAULT_CONFIDENCE
  <2>. DEFINE c == item.confidence
  <2>3. \/ ParseConfidence(item) \in {DEFAULT_CONFIDENCE, 0, 10000}
        \/ c >= 0 /\ ParseConfidence(item) = c
    BY <2>1 DEF ParseConfidence
  <2>. QED BY <2>1, <2>2, <2>3
<1>5. ASSUME NEW i \in 1..count, items(i) # {}
      PROVE  reply[Max(items(i))] \in Items
  <2>. DEFINE T == items(i)
              b == Len(reply)
  <2>1. b \in Nat /\ DOMAIN reply = 1..b
    OBVIOUS
  <2>2. T \subseteq 1..b
    BY <2>1 DEF Usable
  <2>3. T # {}
    BY <1>5
  <2>. HIDE DEF T, b
  <2>4. T \in SUBSET Nat /\ \A n \in T : n <= b
    BY <2>1, <2>2
  <2>5. Max(T) \in T
    BY <2>1, <2>3, <2>4, MaxIs
  <2>6. Max(T) \in 1..b
    BY <2>2, <2>5
  <2>. QED BY <2>6 DEF T, b
<1>6. ASSUME \A i \in 1..count : items(i) # {} PROVE Parsed(given, count, required)
  <2>1. \A i \in 1..count : ParseConfidence(reply[Max(items(i))]) \in Nat
    <3>. HIDE DEF items
    <3>. QED BY <1>4, <1>5, <1>6
  <2>2. /\ DOMAIN given = 1..count
        /\ \A i \in 1..count : given[i] = entry("given", ParseConfidence(reply[Max(items(i))]))
    <3>. HIDE DEF entry, items
    <3>. QED OBVIOUS
  <2>. HIDE DEF entry, items, given
  <2>. QED BY <1>2, <2>1, <2>2 DEF Parsed
<1>. HIDE DEF fallback, given, items
<1>. QED BY <1>1, <1>3, <1>6

(* A batch labels the segments of its task, with a confidence no segment   *)
(* of it falls short of.                                                   *)
Labels(batch, task, parsed, required) ==
    /\ DOMAIN batch.labels = {task[k] : k \in DOMAIN task}
    /\ \A k \in DOMAIN task : DOMAIN batch.labels[task[k]] = required
    /\ batch.confidence \in Nat
    /\ \A k \in DOMAIN task : parsed[k].confidence \in Nat /\ batch.confidence <= parsed[k].confidence

(* Whatever the reply, LabelBatch is as Labels has it.                     *)
LEMMA LabelBatchLabels ==
    ASSUME NEW task, Len(task) \in Nat \ {0}, DOMAIN task = 1..Len(task),
           NEW reply \in Seq(Items), NEW required
    PROVE  Labels(LabelBatch(task, reply, required), task,
                  ParseReply(reply, Len(task), required), required)
<1>. DEFINE n == Len(task)
            parsed == ParseReply(reply, n, required)
            batch == LabelBatch(task, reply, required)
            where(id) == CHOOSE i \in DOMAIN task : task[i] = id
            T == {parsed[i].confidence : i \in DOMAIN parsed}
<1>1. n \in Nat \ {0} /\ DOMAIN task = 1..n
  OBVIOUS
<1>2. batch = [labels |-> [id \in ToSet(task) |-> parsed[where(id)].labels], confidence |-> Min(T)]
  BY DEF LabelBatch
<1>. HIDE DEF n
<1>3. Parsed(parsed, n, required)
  BY <1>1, ParseReplyType
<1>. HIDE DEF parsed, batch
<1>4. /\ DOMAIN parsed = 1..n
      /\ \A i \in 1..n : DOMAIN parsed[i].labels = required /\ parsed[i].confidence \in Nat
  BY <1>3 DEF Parsed
<1>5. T \in SUBSET Nat /\ T # {}
  <2>1. 1 \in 1..n
    BY <1>1
  <2>. QED BY <1>4, <2>1
<1>6. \A i \in 1..n : parsed[i].confidence \in T
  BY <1>4
<1>. HIDE DEF T
<1>7. Min(T) \in T /\ \A c \in T : Min(T) <= c
  BY <1>5, MinIs
<1>8. \A k \in DOMAIN task : where(task[k]) \in 1..n
  BY <1>1
<1>. HIDE DEF where
<1>9. ToSet(task) = {task[k] : k \in DOMAIN task}
  BY DEF ToSet
<1>10. /\ DOMAIN batch.labels = {task[k] : k \in DOMAIN task} /\ batch.confidence = Min(T)
       /\ \A k \in DOMAIN task : batch.labels[task[k]] = parsed[where(task[k])].labels
  BY <1>2, <1>9
<1>11. \A k \in DOMAIN task : DOMAIN batch.labels[task[k]] = required
  BY <1>4, <1>8, <1>10
<1>12. \A k \in DOMAIN task : parsed[k].confidence \in Nat /\ batch.confidence <= parsed[k].confidence
  BY <1>1, <1>4, <1>6, <1>7, <1>10
<1>13. batch.confidence \in Nat
  BY <1>5, <1>7, <1>10
<1>. QED BY <1>10, <1>11, <1>12, <1>13 DEF Labels, batch, parsed, n

(* A whole is all of it.                                                   *)
LEMMA AllOfIt ==
    ASSUME NEW N \in Nat \ {0}
    PROVE  Percent(N, N) = 10000
<1>. DEFINE a == 20000 * N + N
            z == 2 * N
            q == a \div z
<1>1. a \in Nat /\ z \in Nat \ {0} /\ 10000 * z <= a /\ a < 10001 * z
  OBVIOUS
<1>. HIDE DEF a, z
<1>2. q \in Nat /\ q * z <= a /\ a < q * z + z
  BY <1>1, Division
<1>. HIDE DEF q
<1>3. ~(q < 10000)
  <2>. SUFFICES ASSUME q < 10000 PROVE FALSE
    OBVIOUS
  <2>1. q * z + z <= 10000 * z /\ q * z \in Int /\ 10000 * z \in Int
    BY <1>1, <1>2, Multiples
  <2>. QED BY <1>1, <1>2, <2>1
<1>4. ~(10001 <= q)
  <2>. SUFFICES ASSUME 10001 <= q PROVE FALSE
    OBVIOUS
  <2>1. 10001 * z <= q * z /\ q * z \in Int /\ 10001 * z \in Int
    BY <1>1, <1>2, Multiples
  <2>. QED BY <1>1, <1>2, <2>1
<1>5. q = 10000
  BY <1>2, <1>3, <1>4
<1>. QED BY <1>5 DEF Percent, a, z, q

-----------------------------------------------------------------------------
(* Export: Merge and QcReport.                                             *)

(* The batches label the segments of their tasks.                          *)
Labelled(batch, ts, required) ==
    \A t \in DOMAIN batch :
        /\ DOMAIN batch[t].labels = {ts[t][k] : k \in DOMAIN ts[t]}
        /\ \A k \in DOMAIN ts[t] : DOMAIN batch[t].labels[ts[t][k]] = required
        /\ batch[t].confidence \in Nat

(* A record for each row, in order, with its labels and the confidence of  *)
(* its batch.                                                              *)
Complete(records, S, ts, batch, domain, required) ==
    /\ DOMAIN records = 1..Cardinality(S) /\ Len(records) = Cardinality(S)
    /\ \A i \in 1..Cardinality(S) :
        /\ records[i].segment = SegmentId(InOrder(S)[i])
        /\ DOMAIN records[i].labels = required
        /\ records[i].ms # <<>> =>
               domain = "audio" /\ records[i].speaker = InOrder(S)[i].speaker
        /\ \E t \in DOMAIN ts : \E k \in DOMAIN ts[t] :
               records[i].segment = ts[t][k] /\ records[i].confidence = batch[t].confidence

(* The task of a row is the only one.                                      *)
Placed(s, ts, batch) ==
    \E t \in DOMAIN ts : \E k \in DOMAIN ts[t] :
        SegmentId(s) = ts[t][k] /\ BatchesOf(batch, s) = {t} /\ Max({t}) = t

(* Every row has its batch, and only one.                                  *)
LEMMA OneBatch ==
    ASSUME NEW S, NEW ts, SharesOut(ts, S), NEW batch, DOMAIN batch = DOMAIN ts,
           NEW required, Labelled(batch, ts, required), NEW s \in S
    PROVE  Placed(s, ts, batch)
<1>1. PICK t \in DOMAIN ts : \E k \in DOMAIN ts[t] : ts[t][k] = SegmentId(s)
  BY DEF SharesOut
<1>2. PICK k \in DOMAIN ts[t] : ts[t][k] = SegmentId(s)
  BY <1>1
<1>3. ASSUME NEW n \in DOMAIN batch, SegmentId(s) \in DOMAIN batch[n].labels PROVE n = t
  <2>1. PICK l \in DOMAIN ts[n] : ts[n][l] = SegmentId(s)
    BY <1>3 DEF Labelled
  <2>. QED BY <1>2, <2>1 DEF SharesOut
<1>4. t \in DOMAIN batch /\ SegmentId(s) \in DOMAIN batch[t].labels
  BY <1>2 DEF Labelled
<1>5. BatchesOf(batch, s) = {t}
  BY <1>3, <1>4 DEF BatchesOf
<1>6. t \in Nat
  BY DEF SharesOut
<1>7. Max({t}) = t
  BY <1>6 DEF Max
<1>. QED BY <1>2, <1>5, <1>7 DEF Placed

(* So the merge has a record for each row.                                 *)
LEMMA MergeCompletes ==
    ASSUME NEW S, Rows(S), NEW ts, SharesOut(ts, S), NEW batch, DOMAIN batch = DOMAIN ts,
           NEW required, Labelled(batch, ts, required), NEW domain
    PROVE  Complete(Merge(S, batch, domain), S, ts, batch, domain, required)
<1>. DEFINE labelled == {s \in S : BatchesOf(batch, s) # {}}
            record(s) ==
              LET b == batch[Max(BatchesOf(batch, s))] IN
              [segment |-> SegmentId(s), content |-> s.content,
               labels |-> b.labels[SegmentId(s)], confidence |-> b.confidence,
               ms |-> IF domain = "audio" THEN <<s.start, s.end>> ELSE <<>>,
               speaker |-> IF domain = "audio" THEN s.speaker ELSE "none"]
            N == Cardinality(S)
            q == InOrder(S)
            records == Merge(S, batch, domain)
<1>0. N \in Nat
  BY FS_CardinalityType DEF Rows
<1>1. \A s \in S : Placed(s, ts, batch)
  BY OneBatch
<1>2. labelled = S
  BY <1>1 DEF Placed
<1>3. records = [i \in DOMAIN InOrder(labelled) |-> record(InOrder(labelled)[i])]
  BY DEF Merge
<1>4. DOMAIN q = 1..N /\ \A i \in 1..N : q[i] \in S
  <2>1. Lists(q, S)
    BY InOrderLists
  <2>. HIDE DEF q
  <2>. QED BY <2>1 DEF Lists
<1>5. records = [i \in 1..N |-> record(q[i])]
  <2>. HIDE DEF record, labelled, records
  <2>. QED BY <1>2, <1>3, <1>4
<1>6. ASSUME NEW s \in S
      PROVE  /\ record(s).segment = SegmentId(s)
             /\ DOMAIN record(s).labels = required
             /\ record(s).ms # <<>> => domain = "audio" /\ record(s).speaker = s.speaker
             /\ \E t \in DOMAIN ts : \E k \in DOMAIN ts[t] :
                    record(s).segment = ts[t][k] /\ record(s).confidence = batch[t].confidence
  <2>1. PICK t \in DOMAIN ts : \E k \in DOMAIN ts[t] :
               SegmentId(s) = ts[t][k] /\ BatchesOf(batch, s) = {t} /\ Max({t}) = t
    BY <1>1 DEF Placed
  <2>2. PICK k \in DOMAIN ts[t] : SegmentId(s) = ts[t][k] /\ BatchesOf(batch, s) = {t} /\ Max({t}) = t
    BY <2>1
  <2>. DEFINE b == batch[t]
              id == SegmentId(s)
  <2>3. record(s) = [segment |-> id, content |-> s.content,
                     labels |-> b.labels[id], confidence |-> b.confidence,
                     ms |-> IF domain = "audio" THEN <<s.start, s.end>> ELSE <<>>,
                     speaker |-> IF domain = "audio" THEN s.speaker ELSE "none"]
    BY <2>2
  <2>4. DOMAIN b.labels[id] = required
    BY <2>2 DEF Labelled
  <2>. HIDE DEF b, id, record
  <2>5. /\ record(s).segment = id /\ record(s).labels = b.labels[id] /\ record(s).confidence = b.confidence
        /\ record(s).ms = IF domain = "audio" THEN <<s.start, s.end>> ELSE <<>>
        /\ record(s).speaker = IF domain = "audio" THEN s.speaker ELSE "none"
    BY <2>3
  <2>. QED BY <2>2, <2>4, <2>5 DEF b, id
<1>. HIDE DEF record, records, N, q
<1>7. Len(records) = N
  <2>1. records = [i \in 1..N |-> records[i]] /\ \A i \in 1..N : records[i] \in {records[j] : j \in 1..N}
    BY <1>5
  <2>. QED BY <1>0, <2>1, ListType
<1>8. DOMAIN records = 1..N /\ \A i \in 1..N : records[i] = record(q[i])
  BY <1>5
<1>9. ASSUME NEW i \in 1..N
      PROVE  /\ records[i].segment = SegmentId(q[i])
             /\ DOMAIN records[i].labels = required
             /\ records[i].ms # <<>> => domain = "audio" /\ records[i].speaker = q[i].speaker
             /\ \E t \in DOMAIN ts : \E k \in DOMAIN ts[t] :
                    records[i].segment = ts[t][k] /\ records[i].confidence = batch[t].confidence
  <2>1. q[i] \in S /\ records[i] = record(q[i])
    BY <1>4, <1>8
  <2>. QED BY <1>6, <2>1
<1>. QED BY <1>7, <1>8, <1>9 DEF Complete, records, N, q

(* A complete export is reported as such, and what a batch is not sure of  *)
(* is listed.                                                              *)
Reported(report, records, S) ==
    /\ report.flags \subseteq {"low_confidence_segments"}
    /\ \A i \in 1..Cardinality(S) :
        records[i].confidence < LOW_CONFIDENCE_THRESHOLD => records[i].segment \in report.low

(* QcReport is as Reported has it: full coverage and compliance raise no   *)
(* flag.                                                                   *)
LEMMA QcReports ==
    ASSUME NEW S, Rows(S), S # {}, NEW records, NEW ts, NEW batch, NEW domain, NEW required,
           Complete(records, S, ts, batch, domain, required),
           domain = "audio" => \A s \in S : s.content # <<>>
    PROVE  Reported(QcReport(records, S, required, domain), records, S)
<1>. DEFINE compliant == {i \in DOMAIN records : LabelsComplete(records[i], required)}
            low == {records[i].segment : i \in {j \in DOMAIN records :
                        records[j].confidence < LOW_CONFIDENCE_THRESHOLD}}
            N == Cardinality(S)
            coverage == Percent(Len(records), N)
            compliance == Percent(Cardinality(compliant), Len(records))
            empty == {s \in S : domain = "audio" /\ s.content = <<>>}
            report == QcReport(records, S, required, domain)
<1>0. N \in Nat \ {0}
  BY FS_CardinalityType, FS_EmptySet DEF Rows
<1>1. Len(records) = N /\ DOMAIN records = 1..N
  BY DEF Complete
<1>2. compliant = 1..N
  BY <1>1 DEF Complete, LabelsComplete
<1>3. Cardinality(compliant) = N
  <2>. HIDE DEF N, compliant
  <2>1. 1 \in Int /\ N \in Int /\ ~(1 > N) /\ N - 1 + 1 = N
    BY <1>0
  <2>2. Cardinality(1..N) = N
    BY <2>1, FS_Interval
  <2>. QED BY <1>2, <2>2
<1>4. coverage = 10000 /\ compliance = 10000
  <2>. HIDE DEF N, compliant
  <2>1. Percent(N, N) = 10000
    BY <1>0, AllOfIt
  <2>. QED BY <1>1, <1>3, <2>1
<1>5. /\ report.low = low
      /\ report.flags =
           {flag \in {"incomplete_coverage", "schema_noncompliance",
                        "low_confidence_segments", "empty_transcripts"} :
              \/ flag = "incomplete_coverage" /\ coverage < 10000
              \/ flag = "schema_noncompliance" /\ compliance < 10000
              \/ flag = "low_confidence_segments" /\ low # {}
              \/ flag = "empty_transcripts" /\ empty # {}}
  BY DEF QcReport
<1>8. empty = {}
  OBVIOUS
<1>. HIDE DEF report, coverage, compliance, N, compliant, empty
<1>6. report.flags \subseteq {"low_confidence_segments"}
  <2>. HIDE DEF low
  <2>1. ~(coverage < 10000) /\ ~(compliance < 10000)
    BY <1>4
  <2>. QED BY <1>5, <1>8, <2>1
<1>7. \A i \in 1..N : records[i].confidence < LOW_CONFIDENCE_THRESHOLD => records[i].segment \in report.low
  BY <1>1, <1>5
<1>. QED BY <1>6, <1>7 DEF Reported, report, N

-----------------------------------------------------------------------------
(* What of a sequence another one contains (Matched).                      *)

(* e shows that t contains s in its order: e[j] elements of s are in the   *)
(* first j of t.                                                           *)
Embeds(e, s, t) ==
    /\ e[0] = 0 /\ e[Len(t)] = Len(s)
    /\ \A j \in 0..Len(t) : e[j] \in 0..Len(s)
    /\ \A j \in 1..Len(t) : \/ e[j] = e[j - 1]
                            \/ e[j] = e[j - 1] + 1 /\ t[j] = s[e[j]]
Within(s, t) == \E e : Embeds(e, s, t)

(* The recursion of Matched.                                               *)
Matches(n, s, t) ==
    n = [j \in 0..Len(t) |->
            IF j = 0 THEN 0
            ELSE IF n[j - 1] < Len(s) /\ s[n[j - 1] + 1] = t[j] THEN n[j - 1] + 1 ELSE n[j - 1]]

(* Matched is the last value of its recursion.                             *)
LEMMA MatchedUnfold ==
    ASSUME NEW s, NEW t
    PROVE  Matched(s, t) = (CHOOSE n : Matches(n, s, t))[Len(t)]
BY DEF Matched, Matches

(* And the recursion has a solution.                                       *)
LEMMA MatchesExist ==
    ASSUME NEW s, NEW t, Len(t) \in Nat
    PROVE  \E n : Matches(n, s, t)
<1>. DEFINE l == Len(t)
            Step(x, j) == IF x < Len(s) /\ s[x + 1] = t[j] THEN x + 1 ELSE x
            Value(g, j) == IF j = 0 THEN 0 ELSE Step(g[j - 1], j)
            Upto == {k \in Nat : k <= l => \E g : /\ DOMAIN g = 0..l
                                                  /\ \A j \in 0..k : g[j] = Value(g, j)}
<1>. HIDE DEF Step
<1>1. 0 \in Upto
  <2>. DEFINE g == [j \in 0..l |-> 0]
  <2>1. DOMAIN g = 0..l /\ \A j \in 0..0 : j = 0 /\ j \in 0..l
    OBVIOUS
  <2>2. \A j \in 0..0 : g[j] = Value(g, j)
    BY <2>1
  <2>. HIDE DEF g, Value
  <2>. QED BY <2>1, <2>2
<1>2. ASSUME NEW k \in Nat, k \in Upto PROVE k + 1 \in Upto
  <2>. SUFFICES ASSUME k + 1 <= l
                PROVE  \E g : DOMAIN g = 0..l /\ \A j \in 0..(k + 1) : g[j] = Value(g, j)
    OBVIOUS
  <2>1. PICK g : DOMAIN g = 0..l /\ \A j \in 0..k : g[j] = Value(g, j)
    BY <1>2
  <2>. DEFINE h == [j \in 0..l |-> IF j = k + 1 THEN Value(g, j) ELSE g[j]]
  <2>2. \A j \in 0..(k + 1) : j # k + 1 => h[j] = g[j] /\ j \in 0..k
    OBVIOUS
  <2>3. \A j \in 0..(k + 1) : j # 0 => h[j - 1] = g[j - 1]
    OBVIOUS
  <2>4. h[k + 1] = Value(g, k + 1)
    <3>1. k + 1 \in 0..l
      OBVIOUS
    <3>. HIDE DEF Value, l
    <3>. QED BY <3>1
  <2>5. DOMAIN h = 0..l
    OBVIOUS
  <2>. HIDE DEF h
  <2>6. ASSUME NEW j \in 0..(k + 1) PROVE h[j] = Value(h, j)
    <3>1. h[j] = Value(g, j)
      <4>. HIDE DEF Value
      <4>. QED BY <2>1, <2>2, <2>4
    <3>. QED BY <2>3, <3>1
  <2>. HIDE DEF Value
  <2>. QED BY <2>5, <2>6
<1>3. l \in Upto
  <2>. HIDE DEF Upto
  <2>. QED BY <1>1, <1>2, Induct
<1>4. PICK g : DOMAIN g = 0..l /\ \A j \in 0..l : g[j] = Value(g, j)
  BY <1>3
<1>. DEFINE h == [j \in 0..l |-> g[j]]
<1>5. \A j \in 0..l : h[j] = g[j] /\ (j # 0 => h[j - 1] = g[j - 1])
  OBVIOUS
<1>6. h = [j \in 0..l |-> h[j]]
  OBVIOUS
<1>. HIDE DEF h
<1>7. \A j \in 0..l : h[j] = Value(h, j)
  BY <1>4, <1>5
<1>. QED BY <1>6, <1>7 DEF Matches, Step

(* What t contains of s, Matched finds.                                    *)
LEMMA WithinMatched ==
    ASSUME NEW V, NEW s \in Seq(V), NEW t \in Seq(V), Within(s, t)
    PROVE  Matched(s, t) = Len(s)
<1>. DEFINE l == Len(t)
            m == Len(s)
            n == CHOOSE n : Matches(n, s, t)
<1>0. l \in Nat /\ m \in Nat
  OBVIOUS
<1>1. Matches(n, s, t) /\ Matched(s, t) = n[l]
  BY <1>0, MatchesExist, MatchedUnfold
<1>. HIDE DEF n
<1>2. /\ n[0] = 0
      /\ \A j \in 1..l : n[j] = IF n[j - 1] < m /\ s[n[j - 1] + 1] = t[j] THEN n[j - 1] + 1 ELSE n[j - 1]
  <2>. DEFINE h == [j \in 0..Len(t) |->
            IF j = 0 THEN 0
            ELSE IF n[j - 1] < Len(s) /\ s[n[j - 1] + 1] = t[j] THEN n[j - 1] + 1 ELSE n[j - 1]]
  <2>1. /\ h[0] = 0
        /\ \A j \in 1..l : h[j] = IF n[j - 1] < m /\ s[n[j - 1] + 1] = t[j] THEN n[j - 1] + 1 ELSE n[j - 1]
    BY <1>0
  <2>2. n = h
    BY <1>1 DEF Matches
  <2>. HIDE DEF h, l, m
  <2>. QED BY <2>1, <2>2
<1>3. PICK e : Embeds(e, s, t)
  BY DEF Within
<1>4. /\ e[0] = 0 /\ e[l] = m
      /\ \A j \in 0..l : e[j] \in 0..m
      /\ \A j \in 1..l : e[j] = e[j - 1] \/ (e[j] = e[j - 1] + 1 /\ t[j] = s[e[j]])
  BY <1>3 DEF Embeds
<1>. HIDE DEF l, m
<1>. DEFINE Ahead == {j \in Nat : j <= l => n[j] \in 0..m /\ e[j] <= n[j]}
<1>5. 0 \in Ahead
  BY <1>0, <1>2, <1>4
<1>6. ASSUME NEW j \in Nat, j \in Ahead PROVE j + 1 \in Ahead
  <2>. SUFFICES ASSUME j + 1 <= l PROVE n[j + 1] \in 0..m /\ e[j + 1] <= n[j + 1]
    OBVIOUS
  <2>. DEFINE k == j + 1
  <2>1. k \in 1..l /\ k - 1 = j /\ k \in 0..l /\ j \in 0..l
    BY <1>0
  <2>. HIDE DEF k
  <2>2. n[j] \in 0..m /\ e[j] <= n[j] /\ e[j] \in 0..m /\ e[k] \in 0..m
    BY <1>0, <1>4, <1>6, <2>1
  <2>3. n[k] = IF n[j] < m /\ s[n[j] + 1] = t[k] THEN n[j] + 1 ELSE n[j]
    BY <1>2, <2>1
  <2>4. e[k] = e[j] \/ (e[k] = e[j] + 1 /\ t[k] = s[e[k]])
    BY <1>4, <2>1
  <2>5. n[k] \in 0..m /\ e[k] <= n[k]
    BY <1>0, <2>2, <2>3, <2>4
  <2>. QED BY <2>5 DEF k
<1>7. l \in Ahead
  <2>. HIDE DEF Ahead
  <2>. QED BY <1>0, <1>5, <1>6, Induct
<1>. QED BY <1>0, <1>1, <1>4, <1>7 DEF l, m

(* Everything contains itself, and nothing.                                *)
LEMMA WithinSame ==
    ASSUME NEW V, NEW s \in Seq(V)
    PROVE  Within(s, s) /\ Within(<<>>, s)
<1>0. Len(s) \in Nat
  OBVIOUS
<1>1. Embeds([j \in 0..Len(s) |-> j], s, s)
  BY <1>0 DEF Embeds
<1>2. Embeds([j \in 0..Len(s) |-> 0], <<>>, s)
  BY <1>0 DEF Embeds
<1>. QED BY <1>1, <1>2 DEF Within

(* What two sequences contain, their concatenation contains.               *)
LEMMA WithinConcat ==
    ASSUME NEW V, NEW a \in Seq(V), NEW b \in Seq(V), NEW x \in Seq(V), NEW y \in Seq(V),
           Within(a, x), Within(b, y)
    PROVE  Within(a \o b, x \o y)
<1>. DEFINE p == Len(a)
            q == Len(b)
            l == Len(x)
            m == Len(y)
            s == a \o b
            t == x \o y
<1>0. p \in Nat /\ q \in Nat /\ l \in Nat /\ m \in Nat
  OBVIOUS
<1>1. /\ Len(s) = p + q /\ Len(t) = l + m
      /\ \A i \in 1..(p + q) : s[i] = IF i <= p THEN a[i] ELSE b[i - p]
      /\ \A i \in 1..(l + m) : t[i] = IF i <= l THEN x[i] ELSE y[i - l]
  BY ConcatProperties
<1>2. PICK d : Embeds(d, a, x)
  BY DEF Within
<1>3. PICK e : Embeds(e, b, y)
  BY DEF Within
<1>4. /\ d[0] = 0 /\ d[l] = p /\ \A j \in 0..l : d[j] \in 0..p
      /\ \A j \in 1..l : d[j] = d[j - 1] \/ (d[j] = d[j - 1] + 1 /\ x[j] = a[d[j]])
  BY <1>2 DEF Embeds
<1>5. /\ e[0] = 0 /\ e[m] = q /\ \A j \in 0..m : e[j] \in 0..q
      /\ \A j \in 1..m : e[j] = e[j - 1] \/ (e[j] = e[j - 1] + 1 /\ y[j] = b[e[j]])
  BY <1>3 DEF Embeds
<1>. HIDE DEF p, q, l, m, s, t
<1>. DEFINE f == [j \in 0..(l + m) |-> IF j <= l THEN d[j] ELSE p + e[j - l]]
<1>6. \A j \in 0..(l + m) : f[j] = IF j <= l THEN d[j] ELSE p + e[j - l]
  OBVIOUS
<1>. HIDE DEF f
<1>7. f[0] = 0
  BY <1>0, <1>4, <1>6
<1>8. f[l + m] = p + q
  <2>1. CASE m = 0
    <3>1. l + m = l /\ l \in 0..(l + m) /\ p + q = p
      BY <1>0, <1>5, <2>1
    <3>2. f[l] = d[l]
      BY <1>0, <1>6, <3>1
    <3>. QED BY <1>4, <3>1, <3>2
  <2>2. CASE m # 0
    <3>. DEFINE z == l + m
    <3>1. z - l = m /\ ~(z <= l) /\ z \in 0..(l + m)
      BY <1>0, <2>2
    <3>. HIDE DEF z
    <3>2. f[z] = p + e[z - l]
      BY <1>6, <3>1
    <3>3. f[z] = p + q
      BY <1>5, <3>1, <3>2
    <3>. QED BY <3>3 DEF z
  <2>. QED BY <2>1, <2>2
<1>9. ASSUME NEW j \in 0..(l + m) PROVE f[j] \in 0..(p + q)
  <2>1. CASE j <= l
    <3>1. j \in 0..l
      BY <1>0, <2>1
    <3>2. f[j] = d[j] /\ d[j] \in 0..p
      BY <1>4, <1>6, <2>1, <3>1
    <3>. QED BY <1>0, <3>2
  <2>2. CASE ~(j <= l)
    <3>. DEFINE k == j - l
    <3>1. k \in 0..m
      BY <1>0, <2>2
    <3>2. f[j] = p + e[k]
      BY <1>6, <2>2
    <3>. HIDE DEF k
    <3>3. e[k] \in 0..q
      BY <1>5, <3>1
    <3>. QED BY <1>0, <3>2, <3>3
  <2>. QED BY <2>1, <2>2
<1>10. ASSUME NEW j \in 1..(l + m)
       PROVE  f[j] = f[j - 1] \/ (f[j] = f[j - 1] + 1 /\ t[j] = s[f[j]])
  <2>0. j \in 0..(l + m) /\ j - 1 \in 0..(l + m)
    BY <1>0
  <2>1. CASE j <= l
    <3>1. j \in 1..l /\ j - 1 <= l /\ j - 1 \in 0..l /\ j \in 0..l
      BY <1>0, <2>1
    <3>2. f[j] = d[j] /\ f[j - 1] = d[j - 1] /\ t[j] = x[j]
      BY <1>1, <1>6, <2>0, <2>1, <3>1
    <3>3. d[j] \in 0..p /\ d[j - 1] \in 0..p
      BY <1>4, <3>1
    <3>4. d[j] = d[j - 1] \/ (d[j] = d[j - 1] + 1 /\ x[j] = a[d[j]])
      BY <1>4, <3>1
    <3>5. d[j] = d[j - 1] + 1 => s[d[j]] = a[d[j]]
      BY <1>0, <1>1, <3>3
    <3>. QED BY <3>2, <3>4, <3>5
  <2>2. CASE ~(j <= l)
    <3>. DEFINE k == j - l
    <3>1. k \in 1..m /\ k - 1 \in 0..m /\ k \in 0..m /\ (j - 1) - l = k - 1
          /\ (j - 1 <= l => j - 1 = l /\ k - 1 = 0)
      BY <1>0, <2>2
    <3>2. f[j] = p + e[k] /\ t[j] = y[k]
      BY <1>1, <1>6, <2>0, <2>2
    <3>3. f[j - 1] = p + e[k - 1]
      <4>1. CASE j - 1 <= l
        <5>1. f[j - 1] = d[l] /\ e[k - 1] = 0
          BY <1>5, <1>6, <2>0, <3>1, <4>1
        <5>. QED BY <1>0, <1>4, <5>1
      <4>2. CASE ~(j - 1 <= l)
        BY <1>6, <2>0, <3>1, <4>2
      <4>. QED BY <4>1, <4>2
    <3>. HIDE DEF k
    <3>4. e[k] \in 0..q /\ e[k - 1] \in 0..q
      BY <1>5, <3>1
    <3>5. e[k] = e[k - 1] \/ (e[k] = e[k - 1] + 1 /\ y[k] = b[e[k]])
      BY <1>5, <3>1
    <3>6. e[k] = e[k - 1] + 1 => s[p + e[k]] = b[e[k]]
      <4>. SUFFICES ASSUME e[k] = e[k - 1] + 1 PROVE s[p + e[k]] = b[e[k]]
        OBVIOUS
      <4>. DEFINE i == e[k]
      <4>1. i \in 1..q
        BY <1>0, <3>4
      <4>. HIDE DEF i
      <4>2. p + i \in 1..(p + q) /\ ~(p + i <= p) /\ (p + i) - p = i
        BY <1>0, <4>1
      <4>3. s[p + i] = b[i]
        BY <1>1, <4>2
      <4>. QED BY <4>3 DEF i
    <3>7. CASE e[k] = e[k - 1]
      BY <3>2, <3>3, <3>7
    <3>8. CASE e[k] = e[k - 1] + 1 /\ y[k] = b[e[k]]
      <4>1. f[j] = f[j - 1] + 1
        BY <1>0, <3>2, <3>3, <3>4, <3>8
      <4>2. t[j] = s[f[j]]
        BY <3>2, <3>6, <3>8
      <4>. QED BY <4>1, <4>2
    <3>. QED BY <3>5, <3>7, <3>8
  <2>. QED BY <2>1, <2>2
<1>11. Embeds(f, s, t)
  BY <1>1, <1>7, <1>8, <1>9, <1>10 DEF Embeds
<1>. QED BY <1>11 DEF Within, s, t

(* What many contain, their flattening contains.                           *)
LEMMA WithinFlatten ==
    ASSUME NEW V, NEW a \in Seq(Seq(V)), NEW x \in Seq(Seq(V)), Len(a) = Len(x),
           \A i \in 1..Len(x) : Within(a[i], x[i])
    PROVE  Within(FlattenSeq(a), FlattenSeq(x))
<1>. DEFINE n == Len(x)
<1>0. n \in Nat /\ \A i \in 1..n : a[i] \in Seq(V) /\ x[i] \in Seq(V)
  OBVIOUS
<1>1. PICK g : Flattening(g, a, V)
  BY FlattenStep
<1>2. PICK h : Flattening(h, x, V)
  BY FlattenStep
<1>3. /\ g[0] = <<>> /\ FlattenSeq(a) = g[n] /\ \A i \in 0..n : g[i] \in Seq(V)
      /\ \A i \in 1..n : g[i] = g[i - 1] \o a[i]
  BY <1>1 DEF Flattening
<1>4. /\ h[0] = <<>> /\ FlattenSeq(x) = h[n] /\ \A i \in 0..n : h[i] \in Seq(V)
      /\ \A i \in 1..n : h[i] = h[i - 1] \o x[i]
  BY <1>2 DEF Flattening
<1>5. \A i \in 1..n : Within(a[i], x[i])
  OBVIOUS
<1>. HIDE DEF n
<1>. DEFINE Upto == {i \in Nat : i <= n => Within(g[i], h[i])}
<1>6. 0 \in Upto
  <2>1. <<>> \in Seq(V)
    OBVIOUS
  <2>2. Within(<<>>, <<>>)
    BY <2>1, WithinSame
  <2>. QED BY <1>3, <1>4, <2>2
<1>7. ASSUME NEW i \in Nat, i \in Upto PROVE i + 1 \in Upto
  <2>. SUFFICES ASSUME i + 1 <= n PROVE Within(g[i + 1], h[i + 1])
    OBVIOUS
  <2>. DEFINE k == i + 1
  <2>1. k \in 1..n /\ k - 1 = i /\ i \in 0..n
    BY <1>0
  <2>. HIDE DEF k
  <2>2. g[k] = g[i] \o a[k] /\ h[k] = h[i] \o x[k]
    BY <1>3, <1>4, <2>1
  <2>3. g[i] \in Seq(V) /\ h[i] \in Seq(V) /\ a[k] \in Seq(V) /\ x[k] \in Seq(V)
    BY <1>0, <1>3, <1>4, <2>1
  <2>4. Within(g[i], h[i]) /\ Within(a[k], x[k])
    BY <1>0, <1>5, <1>7, <2>1
  <2>5. Within(g[i] \o a[k], h[i] \o x[k])
    BY <2>3, <2>4, WithinConcat
  <2>. QED BY <2>2, <2>5 DEF k
<1>8. n \in Upto
  <2>. HIDE DEF Upto
  <2>. QED BY <1>0, <1>6, <1>7, Induct
<1>. QED BY <1>0, <1>3, <1>4, <1>8

-----------------------------------------------------------------------------
(* Texts without their line breaks (Inked), stripped and cut into blocks.  *)

(* The symbols of a text that are not line breaks.                         *)
InkMap(V) == [x \in V |-> IF x = NL THEN <<>> ELSE <<x>>]

(* Inked is that map over the text.                                        *)
LEMMA InkMapped ==
    ASSUME NEW V
    PROVE  /\ Maps(InkMap(V), V, V)
           /\ \A text \in Seq(V) : Inked(text) = Mapped(InkMap(V), text) /\ Inked(text) \in Seq(V)
<1>1. Maps(InkMap(V), V, V)
  <2>1. \A x \in V : <<x>> \in Seq(V) /\ <<>> \in Seq(V)
    OBVIOUS
  <2>2. \A x \in V : (IF x = NL THEN <<>> ELSE <<x>>) \in Seq(V)
    BY <2>1
  <2>. QED BY <2>2 DEF Maps, InkMap
<1>2. ASSUME NEW text \in Seq(V)
      PROVE  Inked(text) = Mapped(InkMap(V), text) /\ Inked(text) \in Seq(V)
  <2>1. \A i \in DOMAIN text : text[i] \in V
    OBVIOUS
  <2>2. \A i \in DOMAIN text : InkMap(V)[text[i]] = IF text[i] = NL THEN <<>> ELSE <<text[i]>>
    BY <2>1 DEF InkMap
  <2>3. [i \in DOMAIN text |-> InkMap(V)[text[i]]]
        = [i \in DOMAIN text |-> IF text[i] = NL THEN <<>> ELSE <<text[i]>>]
    BY <2>2
  <2>4. Inked(text) = Mapped(InkMap(V), text)
    BY <2>3 DEF Mapped, Inked
  <2>5. Mapped(InkMap(V), text) \in Seq(V)
    BY <1>1, MappedType
  <2>. QED BY <2>4, <2>5
<1>. QED BY <1>1, <1>2

(* So it distributes over concatenation.                                   *)
LEMMA InkedConcat ==
    ASSUME NEW V, NEW a \in Seq(V), NEW b \in Seq(V)
    PROVE  Inked(a \o b) = Inked(a) \o Inked(b)
<1>1. a \o b \in Seq(V)
  BY ConcatProperties
<1>2. Maps(InkMap(V), V, V)
  BY InkMapped
<1>3. Mapped(InkMap(V), a \o b) = Mapped(InkMap(V), a) \o Mapped(InkMap(V), b)
  BY <1>2, MappedConcat
<1>. QED BY <1>1, <1>3, InkMapped

(* Line breaks leave nothing.                                              *)
LEMMA InkedBlank ==
    ASSUME NEW V, NEW text \in Seq(V), \A i \in 1..Len(text) : text[i] = NL
    PROVE  Inked(text) = <<>>
<1>. DEFINE parts == [i \in DOMAIN text |-> IF text[i] = NL THEN <<>> ELSE <<text[i]>>]
            n == Len(text)
<1>1. n \in Nat /\ DOMAIN text = 1..n
  OBVIOUS
<1>2. parts = [i \in 1..n |-> parts[i]] /\ \A i \in 1..n : parts[i] = <<>> /\ parts[i] \in Seq(V)
  BY <1>1
<1>3. Inked(text) = FlattenSeq(parts)
  BY DEF Inked
<1>. HIDE DEF parts, n
<1>4. parts \in Seq(Seq(V)) /\ Len(parts) = n
  BY <1>1, <1>2, ListType
<1>. DEFINE h == [i \in 0..n |-> <<>>]
<1>5. \A i \in 0..n : h[i] = <<>>
  OBVIOUS
<1>. HIDE DEF h
<1>6. h[0] = <<>> /\ h[n] = <<>>
  BY <1>1, <1>5
<1>7. <<>> \o <<>> = <<>>
  <2>1. <<>> \in Seq(V)
    OBVIOUS
  <2>. QED BY <2>1, ConcatEmptySeq
<1>8. ASSUME NEW i \in 1..Len(parts) PROVE h[i] = h[i - 1] \o parts[i]
  <2>1. i \in 0..n /\ i - 1 \in 0..n /\ i \in 1..n
    BY <1>1, <1>4
  <2>2. h[i] = <<>> /\ h[i - 1] = <<>> /\ parts[i] = <<>>
    BY <1>2, <1>5, <2>1
  <2>. QED BY <1>7, <2>2
<1>9. FlattenSeq(parts) = h[Len(parts)]
  BY <1>4, <1>6, <1>8, FlattenIs
<1>. QED BY <1>3, <1>4, <1>6, <1>9

(* A stretch can be taken in two parts.                                    *)
LEMMA InTwo ==
    ASSUME NEW V, NEW text \in Seq(V), NEW k \in 0..Len(text), NEW i \in 0..k, NEW j \in i..k
    PROVE  /\ SubSeq(text, i + 1, k) = SubSeq(text, i + 1, j) \o SubSeq(text, j + 1, k)
           /\ SubSeq(text, i + 1, j) \in Seq(V) /\ SubSeq(text, j + 1, k) \in Seq(V)
<1>. DEFINE x == SubSeq(text, i + 1, j)
            y == SubSeq(text, j + 1, k)
            z == SubSeq(text, i + 1, k)
            n == Len(text)
            l == j - i
            m == k - j
<1>0. n \in Nat /\ l \in Nat /\ m \in Nat /\ i \in 0..(n - l) /\ j \in 0..(n - m) /\ i \in 0..(n - (l + m))
      /\ l + m \in Nat /\ i + l = j /\ j + m = k /\ i + (l + m) = k
  OBVIOUS
<1>1. x \in Seq(V) /\ Len(x) = l /\ \A p \in 1..l : x[p] = text[i + p]
  <2>1. /\ SubSeq(text, i + 1, i + l) \in Seq(V) /\ Len(SubSeq(text, i + 1, i + l)) = l
        /\ \A p \in 1..l : SubSeq(text, i + 1, i + l)[p] = text[i + p]
    <3>. HIDE DEF l, m
    <3>. QED BY <1>0, Cut
  <2>. QED BY <1>0, <2>1
<1>2. y \in Seq(V) /\ Len(y) = m /\ \A p \in 1..m : y[p] = text[j + p]
  <2>1. /\ SubSeq(text, j + 1, j + m) \in Seq(V) /\ Len(SubSeq(text, j + 1, j + m)) = m
        /\ \A p \in 1..m : SubSeq(text, j + 1, j + m)[p] = text[j + p]
    <3>. HIDE DEF l, m
    <3>. QED BY <1>0, Cut
  <2>. QED BY <1>0, <2>1
<1>3. z \in Seq(V) /\ Len(z) = l + m /\ \A p \in 1..(l + m) : z[p] = text[i + p]
  <2>. DEFINE w == l + m
  <2>1. /\ SubSeq(text, i + 1, i + w) \in Seq(V) /\ Len(SubSeq(text, i + 1, i + w)) = w
        /\ \A p \in 1..w : SubSeq(text, i + 1, i + w)[p] = text[i + p]
    <3>0. w \in Nat /\ i \in 0..(Len(text) - w)
      BY <1>0
    <3>. HIDE DEF w
    <3>. QED BY <3>0, Cut
  <2>2. i + w = k
    BY <1>0
  <2>. QED BY <2>1, <2>2
<1>. HIDE DEF x, y, z
<1>4. /\ x \o y \in Seq(V) /\ Len(x \o y) = Len(x) + Len(y)
      /\ \A p \in 1..(Len(x) + Len(y)) : (x \o y)[p] = IF p <= Len(x) THEN x[p] ELSE y[p - Len(x)]
  BY <1>1, <1>2, ConcatProperties
<1>5. \A p \in 1..(l + m) : (x \o y)[p] = IF p <= l THEN x[p] ELSE y[p - l]
  BY <1>1, <1>2, <1>4
<1>6. ASSUME NEW p \in 1..(l + m) PROVE z[p] = (x \o y)[p]
  <2>. HIDE DEF l, m
  <2>1. CASE p <= l
    <3>1. p \in 1..l
      BY <1>0, <2>1
    <3>. QED BY <1>1, <1>3, <1>5, <2>1, <3>1
  <2>2. CASE ~(p <= l)
    <3>. DEFINE q == p - l
    <3>1. q \in 1..m /\ j + q = i + p
      BY <1>0, <2>2
    <3>2. (x \o y)[p] = y[q]
      BY <1>5, <2>2
    <3>. HIDE DEF q
    <3>. QED BY <1>2, <1>3, <3>1, <3>2
  <2>. QED BY <2>1, <2>2
<1>7. z = x \o y
  <2>1. Len(z) = Len(x \o y) /\ \A p \in 1..Len(z) : z[p] = (x \o y)[p]
    BY <1>1, <1>2, <1>3, <1>4, <1>6
  <2>. QED BY <1>3, <1>4, <2>1, SeqEqual
<1>. QED BY <1>1, <1>2, <1>7 DEF x, y, z

(* Stripping a text takes no ink from it, and a stripped text starts with  *)
(* some.                                                                   *)
LEMMA StripKeeps ==
    ASSUME NEW V, NEW text \in Seq(V)
    PROVE  Inked(Strip(text)) = Inked(text) /\ (Strip(text) # <<>> => Strip(text)[1] # NL)
<1>. DEFINE inked == {i \in DOMAIN text : text[i] # NL}
            n == Len(text)
<1>0. n \in Nat /\ DOMAIN text = 1..n
  OBVIOUS
<1>1. Strip(text) = IF inked = {} THEN <<>> ELSE SubSeq(text, Min(inked), Max(inked))
  BY DEF Strip
<1>2. CASE inked = {}
  <2>1. \A i \in 1..Len(text) : text[i] = NL
    BY <1>0, <1>2
  <2>2. Inked(text) = <<>>
    BY <2>1, InkedBlank
  <2>3. [i \in DOMAIN <<>> |-> IF <<>>[i] = NL THEN <<>> ELSE <<<<>>[i]>>] = <<>>
    OBVIOUS
  <2>4. Inked(<<>>) = <<>>
    BY <2>3 DEF Inked, FlattenSeq
  <2>. QED BY <1>1, <1>2, <2>2, <2>4
<1>3. CASE inked # {}
  <2>. DEFINE a == Min(inked)
              b == Max(inked)
  <2>1. inked \in SUBSET Nat /\ inked \subseteq 1..n
    BY <1>0
  <2>2. \A i \in 1..n : i \notin inked => text[i] = NL
    BY <1>0
  <2>3. \A i \in inked : text[i] # NL
    OBVIOUS
  <2>. HIDE DEF inked, n
  <2>4. a \in inked /\ \A i \in inked : a <= i
    BY <1>3, <2>1, MinIs
  <2>5. \A i \in inked : i <= n
    BY <1>0, <2>1
  <2>6. b \in inked /\ \A i \in inked : i <= b
    BY <1>0, <1>3, <2>1, <2>5, MaxIs
  <2>. HIDE DEF a, b
  <2>. DEFINE z == a - 1
              x == SubSeq(text, 0 + 1, z)
              y == SubSeq(text, z + 1, b)
              w == SubSeq(text, b + 1, n)
  <2>7. a \in 1..n /\ b \in 1..n /\ a <= b /\ z + 1 = a /\ z \in 0..n /\ z \in 0..b /\ b \in z..n
        /\ n \in 0..n /\ 0 \in 0..n
    BY <1>0, <2>1, <2>4, <2>6
  <2>. HIDE DEF z
  <2>8. SubSeq(text, 0 + 1, n) = x \o SubSeq(text, z + 1, n) /\ x \in Seq(V) /\ SubSeq(text, z + 1, n) \in Seq(V)
    BY <2>7, InTwo DEF n
  <2>9. SubSeq(text, z + 1, n) = y \o w /\ y \in Seq(V) /\ w \in Seq(V)
    BY <2>7, InTwo DEF n
  <2>10. SubSeq(text, 0 + 1, n) = text
    BY DEF n
  <2>11. Inked(text) = Inked(x) \o (Inked(y) \o Inked(w))
    <3>. HIDE DEF x, y, w
    <3>1. Inked(text) = Inked(x) \o Inked(y \o w)
      BY <2>8, <2>9, <2>10, InkedConcat
    <3>2. Inked(y \o w) = Inked(y) \o Inked(w)
      BY <2>9, InkedConcat
    <3>. QED BY <3>1, <3>2
  <2>12. Inked(x) = <<>>
    <3>1. Len(x) = z /\ \A i \in 1..z : x[i] = text[0 + i]
      <4>1. z \in Nat /\ 0 \in 0..(Len(text) - z) /\ 0 + z = z
        BY <2>7 DEF n
      <4>. QED BY <4>1, Cut
    <3>2. \A i \in 1..z : i \in 1..n /\ i \notin inked /\ 0 + i = i
      BY <1>0, <2>4, <2>7
    <3>3. \A i \in 1..Len(x) : x[i] = NL
      BY <2>2, <3>1, <3>2
    <3>. HIDE DEF x
    <3>. QED BY <2>8, <3>3, InkedBlank
  <2>13. Inked(w) = <<>>
    <3>. DEFINE l == n - b
    <3>1. l \in Nat /\ b \in 0..(Len(text) - l) /\ b + l = n
      BY <1>0, <2>7 DEF n
    <3>2. \A i \in 1..l : b + i \in 1..n /\ b + i \notin inked
      BY <1>0, <2>1, <2>6, <2>7
    <3>. HIDE DEF l
    <3>3. Len(w) = l /\ \A i \in 1..l : w[i] = text[b + i]
      BY <3>1, Cut
    <3>4. \A i \in 1..Len(w) : w[i] = NL
      BY <2>2, <3>2, <3>3
    <3>. HIDE DEF w
    <3>. QED BY <2>9, <3>4, InkedBlank
  <2>14. Inked(text) = Inked(y)
    <3>. HIDE DEF x, y, w
    <3>1. Inked(y) \in Seq(V)
      BY <2>9, InkMapped
    <3>. QED BY <2>11, <2>12, <2>13, <3>1, ConcatEmptySeq
  <2>15. Strip(text) = y
    BY <1>1, <1>3, <2>7 DEF a, b
  <2>16. y[1] # NL
    <3>. DEFINE l == b - z
    <3>1. l \in Nat /\ z \in 0..(Len(text) - l) /\ z + l = b /\ 1 \in 1..l
      BY <1>0, <2>7 DEF n
    <3>. HIDE DEF l
    <3>2. y[1] = text[z + 1]
      BY <3>1, Cut
    <3>. QED BY <2>3, <2>4, <2>7, <3>2
  <2>. QED BY <2>14, <2>15, <2>16
<1>. QED BY <1>2, <1>3

(* The n-th number of a finite set.                                        *)
NthOf(S, n) == CHOOSE i \in S : Cardinality({j \in S : j < i}) = n - 1

(* The numbers of a finite set, in order.                                  *)
LEMMA NthRise ==
    ASSUME NEW S \in SUBSET Nat, IsFiniteSet(S)
    PROVE  /\ Cardinality(S) \in Nat
           /\ \A n \in 1..Cardinality(S) : NthOf(S, n) \in S
           /\ \A n \in 1..(Cardinality(S) - 1) : NthOf(S, n) < NthOf(S, n + 1)
           /\ \A i \in S : Cardinality(S) # 0 /\ NthOf(S, 1) <= i
<1>. DEFINE R == {r \in Nat \X Nat : r[1] < r[2]}
            N == Cardinality(S)
            nth(n) == NthOf(S, n)
            rank(i) == Rank(R, S, i)
<1>0. N \in Nat
  BY FS_CardinalityType
<1>1. \A i, j \in S : <<i, j>> \in R <=> i < j
  OBVIOUS
<1>. HIDE DEF R
<1>2. Orders(R, S)
  BY <1>1 DEF Orders
<1>3. /\ \A i \in S : rank(i) \in 0..(N - 1)
      /\ \A i, j \in S : i < j => rank(i) < rank(j)
      /\ \A n \in 1..N : \E i \in S : rank(i) = n - 1
  BY <1>1, <1>2, Ranked
<1>4. \A i \in S : rank(i) = Cardinality({j \in S : j < i})
  <2>. TAKE i \in S
  <2>1. {j \in S : j < i} = {j \in S : <<j, i>> \in R}
    BY <1>1
  <2>. QED BY <2>1 DEF Rank
<1>. HIDE DEF N, rank
<1>5. ASSUME NEW n \in 1..N PROVE nth(n) \in S /\ rank(nth(n)) = n - 1
  BY <1>3, <1>4 DEF NthOf
<1>. HIDE DEF nth
<1>6. ASSUME NEW n \in 1..(N - 1) PROVE nth(n) < nth(n + 1)
  <2>1. n \in 1..N /\ n + 1 \in 1..N
    BY <1>0
  <2>2. nth(n) \in S /\ nth(n + 1) \in S /\ rank(nth(n)) = n - 1 /\ rank(nth(n + 1)) = n
    BY <1>5, <2>1
  <2>3. nth(n) # nth(n + 1)
    BY <2>2
  <2>. DEFINE a == nth(n)
              b == nth(n + 1)
  <2>5. a \in S /\ b \in S /\ rank(a) = n - 1 /\ rank(b) = n
    BY <2>2
  <2>. HIDE DEF a, b
  <2>4. ~(b < a)
    <3>1. b < a => rank(b) < rank(a)
      BY <1>3, <2>5
    <3>2. rank(a) \in 0..(N - 1) /\ rank(b) \in 0..(N - 1)
      BY <1>3, <2>5
    <3>. QED BY <1>0, <2>5, <3>1, <3>2
  <2>6. a # b
    BY <2>3 DEF a, b
  <2>7. a < b
    BY <2>4, <2>5, <2>6
  <2>. QED BY <2>7 DEF a, b
<1>7. ASSUME NEW i \in S PROVE N # 0 /\ nth(1) <= i
  <2>1. rank(i) \in 0..(N - 1)
    BY <1>3
  <2>2. N # 0 /\ 1 \in 1..N
    BY <1>0, <2>1
  <2>3. nth(1) \in S /\ rank(nth(1)) = 0
    BY <1>5, <2>2
  <2>. DEFINE a == nth(1)
  <2>4. a \in S /\ rank(a) = 0
    BY <2>3
  <2>. HIDE DEF a
  <2>5. i < a => rank(i) < rank(a)
    BY <1>3, <2>4
  <2>6. a <= i
    BY <1>0, <2>1, <2>4, <2>5
  <2>. QED BY <2>2, <2>6 DEF a
<1>. QED BY <1>0, <1>5, <1>6, <1>7 DEF N, nth

(* The ink of a stripped text is in its blocks.                            *)
LEMMA InkedBlocks ==
    ASSUME NEW V, NEW text \in Seq(V), text # <<>> => text[1] # NL, NEW kind
    PROVE  Inked(text)
           = FlattenSeq([n \in DOMAIN Blocks(text, kind) |-> Inked(Blocks(text, kind)[n])])
<1>. DEFINE starts == {i \in DOMAIN text : StartsBlock(text, kind, i)}
            N == Cardinality(starts)
            start(n) == NthOf(starts, n)
            L == Len(text)
            stop(n) == IF n = N THEN L ELSE start(n + 1) - 1
            blocks == [n \in 1..N |-> Strip(SubSeq(text, start(n), stop(n)))]
            parts == [n \in 1..N |-> Inked(blocks[n])]
<1>0. L \in Nat /\ DOMAIN text = 1..L
  OBVIOUS
<1>1. Blocks(text, kind) = blocks
  BY DEF Blocks, NthOf
<1>2. IsFiniteSet(starts) /\ starts \in SUBSET Nat /\ starts \subseteq 1..L
  <2>1. starts \subseteq 1..L
    BY <1>0
  <2>. HIDE DEF starts, L
  <2>2. IsFiniteSet(1..L)
    BY <1>0, FS_Interval
  <2>3. IsFiniteSet(starts)
    BY <2>1, <2>2, FS_Subset
  <2>4. starts \in SUBSET Nat
    BY <1>0, <2>1
  <2>. QED BY <2>1, <2>3, <2>4
<1>3. L # 0 => 1 \in starts
  <2>. SUFFICES ASSUME L # 0 PROVE 1 \in starts
    OBVIOUS
  <2>1. text[1] # NL
    OBVIOUS
  <2>2. 1 \in DOMAIN text
    BY <1>0
  <2>. QED BY <2>1, <2>2 DEF StartsBlock
<1>. HIDE DEF starts
<1>4. /\ N \in Nat
      /\ \A n \in 1..N : start(n) \in starts
      /\ \A n \in 1..(N - 1) : start(n) < start(n + 1)
      /\ \A i \in starts : N # 0 /\ start(1) <= i
  BY <1>2, NthRise
<1>. HIDE DEF start, N
<1>5. CASE L = 0
  <2>1. N = 0
    <3>1. \A n \in 1..N : start(n) \in 1..0
      BY <1>2, <1>4, <1>5
    <3>2. 1..0 = {}
      OBVIOUS
    <3>3. 1 \notin 1..N
      BY <3>1, <3>2
    <3>. QED BY <1>4, <3>3
  <2>2. text = <<>>
    BY <1>5
  <2>. HIDE DEF stop, L
  <2>3. parts = <<>>
    <3>. HIDE DEF blocks
    <3>. QED BY <2>1
  <2>4. Inked(<<>>) = <<>>
    <3>1. [i \in DOMAIN <<>> |-> IF <<>>[i] = NL THEN <<>> ELSE <<<<>>[i]>>] = <<>>
      OBVIOUS
    <3>. QED BY <3>1 DEF Inked, FlattenSeq
  <2>5. FlattenSeq(parts) = <<>>
    <3>. HIDE DEF parts
    <3>. QED BY <2>3 DEF FlattenSeq
  <2>6. [n \in DOMAIN Blocks(text, kind) |-> Inked(Blocks(text, kind)[n])] = parts
    <3>1. DOMAIN blocks = 1..N
      OBVIOUS
    <3>. HIDE DEF blocks
    <3>. QED BY <1>1, <3>1
  <2>. HIDE DEF parts, blocks
  <2>. QED BY <2>2, <2>4, <2>5, <2>6
<1>6. CASE L # 0
  <2>1. N \in Nat \ {0} /\ start(1) = 1
    <3>1. 1 \in starts
      BY <1>3, <1>6
    <3>2. N # 0 /\ start(1) <= 1
      BY <1>4, <3>1
    <3>3. 1 \in 1..N
      BY <1>4, <3>2
    <3>4. start(1) \in 1..L
      BY <1>2, <1>4, <3>3
    <3>. QED BY <1>4, <3>2, <3>4
  <2>. HIDE DEF L
  <2>2. ASSUME NEW n \in 1..N
        PROVE  /\ start(n) \in 1..L /\ stop(n) \in start(n)..L
               /\ n # 1 => stop(n - 1) = start(n) - 1
               /\ (n = N => stop(n) = L)
    <3>1. start(n) \in 1..L
      BY <1>2, <1>4
    <3>2. n # N => n + 1 \in 1..N /\ n \in 1..(N - 1)
      BY <2>1
    <3>3. n # N => start(n + 1) \in 1..L /\ start(n) < start(n + 1)
      BY <1>2, <1>4, <3>2
    <3>4. stop(n) \in start(n)..L
      BY <1>0, <3>1, <3>3
    <3>5. n # 1 => n - 1 # N /\ (n - 1) + 1 = n
      BY <2>1
    <3>. QED BY <3>1, <3>4, <3>5
  <2>. HIDE DEF stop
  <2>. DEFINE part(n) == SubSeq(text, start(n), stop(n))
              front(n) == SubSeq(text, 0 + 1, stop(n))
  <2>3. ASSUME NEW n \in 1..N
        PROVE  /\ part(n) \in Seq(V) /\ front(n) \in Seq(V)
               /\ n = 1 => front(n) = part(n)
               /\ n # 1 => front(n - 1) \in Seq(V) /\ front(n) = front(n - 1) \o part(n)
    <3>1. start(n) \in 1..L /\ stop(n) \in start(n)..L
      BY <2>2
    <3>. DEFINE k == stop(n)
                j == start(n) - 1
    <3>2. k \in 0..L /\ 0 \in 0..k /\ j \in 0..k /\ j + 1 = start(n)
      BY <1>0, <3>1
    <3>. HIDE DEF k, j
    <3>3. /\ SubSeq(text, 0 + 1, k) = SubSeq(text, 0 + 1, j) \o SubSeq(text, j + 1, k)
          /\ SubSeq(text, 0 + 1, j) \in Seq(V) /\ SubSeq(text, j + 1, k) \in Seq(V)
      BY <3>2, InTwo DEF L
    <3>4. SubSeq(text, 0 + 1, j) \o SubSeq(text, j + 1, k) \in Seq(V)
      BY <3>3, ConcatProperties
    <3>5. part(n) = SubSeq(text, j + 1, k) /\ front(n) = SubSeq(text, 0 + 1, k)
      BY <3>2 DEF k
    <3>6. n = 1 => front(n) = part(n)
      <4>1. SubSeq(text, 0 + 1, k) = SubSeq(text, 1, k)
        OBVIOUS
      <4>2. n = 1 => start(n) = 1
        BY <2>1
      <4>. QED BY <3>5, <4>1, <4>2 DEF k
    <3>7. n # 1 => front(n - 1) = SubSeq(text, 0 + 1, j)
      BY <2>2 DEF j
    <3>. QED BY <3>3, <3>4, <3>5, <3>6, <3>7
  <2>4. front(N) = text
    <3>1. stop(N) = L
      BY <2>1, <2>2
    <3>. QED BY <3>1 DEF L
  <2>5. ASSUME NEW n \in 1..N
        PROVE  blocks[n] \in Seq(V) /\ parts[n] \in Seq(V) /\ parts[n] = Inked(part(n))
    <3>1. blocks[n] = Strip(part(n)) /\ parts[n] = Inked(blocks[n])
      OBVIOUS
    <3>. HIDE DEF part, blocks, parts
    <3>2. part(n) \in Seq(V)
      BY <2>3
    <3>3. Strip(part(n)) \in Seq(V) /\ Inked(Strip(part(n))) = Inked(part(n))
      BY <3>2, Strips, StripKeeps
    <3>4. Inked(part(n)) \in Seq(V)
      BY <3>2, InkMapped
    <3>. QED BY <3>1, <3>3, <3>4
  <2>6. parts = [n \in 1..N |-> parts[n]] /\ DOMAIN blocks = 1..N
    <3>. HIDE DEF part
    <3>. QED OBVIOUS
  <2>7. [n \in DOMAIN Blocks(text, kind) |-> Inked(Blocks(text, kind)[n])] = parts
    <3>. HIDE DEF blocks
    <3>. QED BY <1>1, <2>6
  <2>. HIDE DEF parts, part, front, blocks
  <2>8. parts \in Seq(Seq(V)) /\ Len(parts) = N
    BY <1>4, <2>5, <2>6, ListType
  <2>. DEFINE h == [n \in 0..N |-> IF n = 0 THEN <<>> ELSE Inked(front(n))]
  <2>9. h[0] = <<>> /\ \A n \in 1..N : h[n] = Inked(front(n))
    BY <1>4
  <2>. HIDE DEF h
  <2>10. ASSUME NEW n \in 1..N PROVE h[n] = h[n - 1] \o parts[n]
    <3>1. CASE n = 1
      <4>1. h[n] = parts[n] /\ h[n - 1] = <<>> /\ parts[n] \in Seq(V)
        BY <2>3, <2>5, <2>9, <3>1
      <4>. QED BY <4>1, ConcatEmptySeq
    <3>2. CASE n # 1
      <4>1. n - 1 \in 1..N
        BY <1>4, <3>2
      <4>2. /\ front(n - 1) \in Seq(V) /\ part(n) \in Seq(V)
            /\ front(n) = front(n - 1) \o part(n)
        BY <2>3, <3>2
      <4>3. Inked(front(n)) = Inked(front(n - 1)) \o Inked(part(n))
        BY <4>2, InkedConcat
      <4>4. h[n] = Inked(front(n)) /\ h[n - 1] = Inked(front(n - 1)) /\ parts[n] = Inked(part(n))
        BY <2>5, <2>9, <4>1
      <4>. QED BY <4>3, <4>4
    <3>. QED BY <3>1, <3>2
  <2>11. FlattenSeq(parts) = h[N]
    <3>1. \A n \in 1..Len(parts) : h[n] = h[n - 1] \o parts[n]
      BY <2>8, <2>10
    <3>2. FlattenSeq(parts) = h[Len(parts)]
      BY <2>8, <2>9, <3>1, FlattenIs
    <3>. QED BY <2>8, <3>2
  <2>12. h[N] = Inked(text)
    BY <2>1, <2>4, <2>9
  <2>. QED BY <2>7, <2>11, <2>12
<1>. QED BY <1>5, <1>6

-----------------------------------------------------------------------------
(* What the windows of a text contain of it.                               *)

(* A set of sequences that is closed under concatenation is closed under   *)
(* flattening.                                                             *)
LEMMA FlattenIn ==
    ASSUME NEW V, NEW S \in SUBSET Seq(V), <<>> \in S, \A a, b \in S : a \o b \in S,
           NEW seqs \in Seq(S)
    PROVE  FlattenSeq(seqs) \in S
<1>. DEFINE n == Len(seqs)
<1>0. n \in Nat /\ \A i \in 1..n : seqs[i] \in S
  OBVIOUS
<1>1. seqs \in Seq(Seq(V))
  BY SeqMonotonic
<1>2. PICK g : Flattening(g, seqs, V)
  BY <1>1, FlattenStep
<1>3. g[0] = <<>> /\ FlattenSeq(seqs) = g[n] /\ \A i \in 1..n : g[i] = g[i - 1] \o seqs[i]
  BY <1>2 DEF Flattening
<1>. HIDE DEF n
<1>. DEFINE Upto == {i \in Nat : i <= n => g[i] \in S}
<1>4. 0 \in Upto
  BY <1>3
<1>5. ASSUME NEW i \in Nat, i \in Upto PROVE i + 1 \in Upto
  <2>. SUFFICES ASSUME i + 1 <= n PROVE g[i + 1] \in S
    OBVIOUS
  <2>. DEFINE k == i + 1
  <2>1. k \in 1..n /\ k - 1 = i /\ i <= n
    BY <1>0
  <2>. HIDE DEF k
  <2>2. g[i] \in S /\ seqs[k] \in S
    BY <1>0, <1>5, <2>1
  <2>3. g[k] = g[i] \o seqs[k]
    BY <1>3, <2>1
  <2>. QED BY <2>2, <2>3 DEF k
<1>6. n \in Upto
  <2>. HIDE DEF Upto
  <2>. QED BY <1>0, <1>4, <1>5, Induct
<1>. QED BY <1>0, <1>3, <1>6

(* Every symbol that begins has as many tokens after it as it takes.       *)
Ended(tokens) ==
    \A i \in 1..Len(tokens) : tokens[i][2] = 1 => i + Tokens(tokens[i][1]) - 1 <= Len(tokens)

(* Concatenation cuts no symbol.                                           *)
LEMMA EndedConcat ==
    ASSUME NEW T, NEW a \in Seq(T), NEW b \in Seq(T), Ended(a), Ended(b)
    PROVE  Ended(a \o b)
<1>. DEFINE p == Len(a)
            q == Len(b)
            s == a \o b
<1>0. p \in Nat /\ q \in Nat
  OBVIOUS
<1>1. Len(s) = p + q /\ \A i \in 1..(p + q) : s[i] = IF i <= p THEN a[i] ELSE b[i - p]
  BY ConcatProperties
<1>2. \A i \in 1..p : a[i][2] = 1 => i + Tokens(a[i][1]) - 1 <= p
  BY DEF Ended
<1>3. \A i \in 1..q : b[i][2] = 1 => i + Tokens(b[i][1]) - 1 <= q
  BY DEF Ended
<1>. HIDE DEF p, q, s
<1>4. ASSUME NEW i \in 1..(p + q), s[i][2] = 1
      PROVE  i + Tokens(s[i][1]) - 1 <= p + q
  <2>. DEFINE t == Tokens(s[i][1])
  <2>0. t \in Nat
    BY TokensCount
  <2>1. CASE i <= p
    <3>1. i \in 1..p /\ s[i] = a[i]
      BY <1>0, <1>1, <2>1
    <3>2. i + t - 1 <= p
      BY <1>2, <1>4, <3>1
    <3>. HIDE DEF t
    <3>3. i + t - 1 <= p + q
      BY <1>0, <2>0, <3>2
    <3>. QED BY <3>3 DEF t
  <2>2. CASE ~(i <= p)
    <3>. DEFINE j == i - p
    <3>1. j \in 1..q /\ s[i] = b[j] /\ i = j + p
      BY <1>0, <1>1, <2>2
    <3>. HIDE DEF j
    <3>2. j + t - 1 <= q
      BY <1>3, <1>4, <3>1
    <3>. HIDE DEF t
    <3>3. i + t - 1 <= p + q
      BY <1>0, <2>0, <3>1, <3>2
    <3>. QED BY <3>3 DEF t
  <2>. QED BY <2>1, <2>2
<1>. QED BY <1>1, <1>4 DEF Ended, s

(* The symbols that tokens begin, but for line breaks.                     *)
First(V) == [t \in TokensOf(V) |-> IF t[2] > 1 \/ t[1] = NL THEN <<>> ELSE <<t[1]>>]

(* First maps tokens to texts.                                             *)
LEMMA FirstMaps ==
    ASSUME NEW V
    PROVE  Maps(First(V), TokensOf(V), V)
<1>1. ASSUME NEW t \in TokensOf(V) PROVE (IF t[2] > 1 \/ t[1] = NL THEN <<>> ELSE <<t[1]>>) \in Seq(V)
  <2>1. t[1] \in V
    BY DEF TokensOf
  <2>2. <<t[1]>> \in Seq(V) /\ <<>> \in Seq(V)
    BY <2>1
  <2>. QED BY <2>2
<1>. QED BY <1>1 DEF Maps, First

(* An encoded symbol ends, and begins itself.                              *)
LEMMA CodedKeeps ==
    ASSUME NEW V, NEW x \in V
    PROVE  Ended(Coded(x)) /\ Mapped(First(V), Coded(x)) = InkMap(V)[x]
<1>. DEFINE n == Tokens(x)
            c == Coded(x)
            f == First(V)
            T == TokensOf(V)
            ink == InkMap(V)[x]
            map == [k \in DOMAIN c |-> f[c[k]]]
            h == [k \in 0..n |-> IF k = 0 THEN <<>> ELSE ink]
<1>1. n \in Nat \ {0}
  BY TokensCount
<1>2. c \in Seq(T) /\ Len(c) = n /\ \A k \in 1..n : c[k] = <<x, k>> /\ <<x, k>> \in T
  BY CodedType
<1>3. Maps(f, T, V)
  BY FirstMaps
<1>4. ink = (IF x = NL THEN <<>> ELSE <<x>>) /\ ink \in Seq(V)
  BY InkMapped DEF Maps, InkMap
<1>5. \A t \in T : f[t] = IF t[2] > 1 \/ t[1] = NL THEN <<>> ELSE <<t[1]>>
  BY DEF First
<1>6. h[0] = <<>> /\ \A k \in 1..n : h[k] = ink
  BY <1>1
<1>7. Mapped(f, c) = FlattenSeq(map) /\ map \in Seq(Seq(V))
  BY <1>2, <1>3, MappedType DEF Mapped
<1>8. Len(map) = n /\ \A k \in 1..n : map[k] = f[c[k]]
  BY <1>2
<1>. HIDE DEF n, c, f, T, ink, map, h
<1>9. Ended(c)
  <2>1. ASSUME NEW i \in 1..n, c[i][2] = 1 PROVE i + Tokens(c[i][1]) - 1 <= n
    <3>0. c[i] = <<x, i>>
      BY <1>2
    <3>1. c[i][1] = x /\ i = 1
      BY <2>1, <3>0
    <3>2. Tokens(x) = n
      BY DEF n
    <3>3. 1 + n - 1 <= n
      BY <1>1
    <3>. QED BY <3>1, <3>2, <3>3
  <2>. QED BY <1>2, <2>1 DEF Ended
<1>10. ASSUME NEW k \in 1..n PROVE map[k] = IF k = 1 THEN ink ELSE <<>>
  <2>1. map[k] = f[<<x, k>>] /\ <<x, k>> \in T /\ <<x, k>>[1] = x /\ <<x, k>>[2] = k
    BY <1>2, <1>8
  <2>2. f[<<x, k>>] = IF k > 1 \/ x = NL THEN <<>> ELSE <<x>>
    BY <1>5, <2>1
  <2>3. k \in Nat /\ (k > 1 <=> k # 1)
    BY <1>1
  <2>. QED BY <1>4, <2>1, <2>2, <2>3
<1>11. ASSUME NEW k \in 1..n PROVE h[k] = h[k - 1] \o map[k]
  <2>1. CASE k = 1
    <3>1. h[k - 1] = <<>> /\ map[k] = ink /\ h[k] = ink
      BY <1>6, <1>10, <2>1
    <3>. QED BY <1>4, <3>1, ConcatEmptySeq
  <2>2. CASE k # 1
    <3>1. k - 1 \in 1..n
      BY <1>1, <2>2
    <3>2. h[k - 1] = ink /\ map[k] = <<>> /\ h[k] = ink
      BY <1>6, <1>10, <2>2, <3>1
    <3>. QED BY <1>4, <3>2, ConcatEmptySeq
  <2>. QED BY <2>1, <2>2
<1>12. FlattenSeq(map) = h[n]
  <2>1. \A k \in 1..Len(map) : h[k] = h[k - 1] \o map[k]
    BY <1>8, <1>11
  <2>2. FlattenSeq(map) = h[Len(map)]
    BY <1>6, <1>7, <2>1, FlattenIs
  <2>. QED BY <1>8, <2>2
<1>13. n \in 1..n
  BY <1>1
<1>. QED BY <1>6, <1>7, <1>9, <1>12, <1>13 DEF c, f, ink

(* An encoded text has all its tokens, and begins the symbols of the text. *)
LEMMA EncodeKeeps ==
    ASSUME NEW V, NEW text \in Seq(V)
    PROVE  Ended(Encode(text)) /\ Mapped(First(V), Encode(text)) = Inked(text)
<1>. DEFINE code == [i \in DOMAIN text |-> Coded(text[i])]
            T == TokensOf(V)
            S == {s \in Seq(T) : Ended(s)}
            n == Len(text)
            f == First(V)
            each == MappedEach(f, code)
            ink == [i \in DOMAIN text |-> InkMap(V)[text[i]]]
<1>0. n \in Nat /\ DOMAIN text = 1..n /\ \A i \in 1..n : text[i] \in V
  OBVIOUS
<1>1. Encode(text) = FlattenSeq(code)
  BY DEF Encode, Coded
<1>3. Maps(f, T, V)
  BY FirstMaps
<1>4. ASSUME NEW i \in 1..n
      PROVE  code[i] \in Seq(T) /\ Ended(code[i]) /\ Mapped(f, code[i]) = InkMap(V)[text[i]]
  <2>. DEFINE x == text[i]
  <2>1. x \in V /\ code[i] = Coded(x)
    BY <1>0
  <2>. HIDE DEF x, code
  <2>2. Coded(x) \in Seq(T) /\ Ended(Coded(x)) /\ Mapped(f, Coded(x)) = InkMap(V)[x]
    BY <2>1, CodedType, CodedKeeps
  <2>. QED BY <2>1, <2>2 DEF x
<1>5. code = [i \in 1..n |-> code[i]]
  BY <1>0
<1>6. DOMAIN code = 1..n
  BY <1>0
<1>. HIDE DEF code, T, f, n
<1>7. code \in Seq(S) /\ Len(code) = n /\ code \in Seq(Seq(T))
  <2>1. \A i \in 1..n : code[i] \in S /\ code[i] \in Seq(T)
    BY <1>4
  <2>. HIDE DEF S
  <2>. QED BY <1>0, <1>5, <2>1, ListType
<1>8. Ended(Encode(text))
  <2>1. <<>> \in S
    BY DEF Ended
  <2>2. \A a, b \in S : a \o b \in S
    <3>. TAKE a, b \in S
    <3>1. a \in Seq(T) /\ b \in Seq(T) /\ Ended(a) /\ Ended(b)
      OBVIOUS
    <3>2. a \o b \in Seq(T)
      BY <3>1, ConcatProperties
    <3>3. Ended(a \o b)
      BY <3>1, EndedConcat
    <3>. QED BY <3>2, <3>3
  <2>3. S \in SUBSET Seq(T)
    OBVIOUS
  <2>4. FlattenSeq(code) \in S
    <3>. HIDE DEF S
    <3>. QED BY <1>7, <2>1, <2>2, <2>3, FlattenIn
  <2>. QED BY <1>1, <2>4
<1>9. Mapped(f, Encode(text)) = FlattenSeq(each)
  BY <1>1, <1>3, <1>7, MappedFlatten
<1>10. each = ink
  <2>1. each = [i \in 1..n |-> Mapped(f, code[i])]
    BY <1>6 DEF MappedEach
  <2>2. ink = [i \in 1..n |-> InkMap(V)[text[i]]]
    BY <1>0
  <2>. QED BY <1>4, <2>1, <2>2
<1>11. Inked(text) = FlattenSeq(ink)
  BY InkMapped DEF Mapped
<1>. QED BY <1>8, <1>9, <1>10, <1>11 DEF f

(* A stretch of tokens keeps the symbols it begins when it is decoded with *)
(* what follows it, if they end there.                                     *)
LEMMA DecodeKeeps ==
    ASSUME NEW V, BROKEN \in V, NEW a \in Seq(TokensOf(V)), NEW b \in Seq(TokensOf(V)),
           \A i \in 1..Len(a) : (a \o b)[i][2] = 1 => i + Tokens((a \o b)[i][1]) - 1 <= Len(a \o b)
    PROVE  Within(Mapped(First(V), a), Decode(a \o b))
<1>. DEFINE T == TokensOf(V)
            w == a \o b
            l == Len(w)
            c == Len(a)
            f == First(V)
            ends(i) == i + Tokens(w[i][1]) - 1 <= l
            symbol(i) ==
              CASE w[i][2] = 1 -> IF ends(i) THEN <<w[i][1]>> ELSE <<BROKEN>>
                [] w[i][2] > 1 -> IF w[i][2] <= i THEN <<>> ELSE <<BROKEN>>
            code == [i \in DOMAIN w |-> symbol(i)]
            first == [i \in DOMAIN a |-> f[a[i]]]
            x == SubSeq(code, 0 + 1, c)
            y == SubSeq(code, c + 1, l)
<1>0. /\ w \in Seq(T) /\ l \in Nat /\ c \in 0..l /\ DOMAIN w = 1..l /\ DOMAIN a = 1..c
      /\ \A i \in 1..c : w[i] = a[i]
  <2>1. /\ Len(a \o b) = Len(a) + Len(b)
        /\ \A i \in 1..(Len(a) + Len(b)) : (a \o b)[i] = IF i <= Len(a) THEN a[i] ELSE b[i - Len(a)]
    BY ConcatProperties
  <2>2. w \in Seq(T) /\ Len(a) \in Nat /\ Len(b) \in Nat
    BY ConcatProperties
  <2>3. \A i \in 1..c : i \in 1..(Len(a) + Len(b)) /\ i <= Len(a)
    BY <2>2
  <2>4. c \in 0..l /\ l \in Nat
    BY <2>1, <2>2
  <2>5. DOMAIN w = 1..l /\ DOMAIN a = 1..c
    BY <2>2
  <2>. QED BY <2>1, <2>2, <2>3, <2>4, <2>5
<1>1. \A i \in 1..c : w[i][2] = 1 => ends(i)
  OBVIOUS
<1>2. Decode(w) = FlattenSeq(code)
  BY DEF Decode
<1>3. Maps(f, T, V)
  BY FirstMaps
<1>4. Mapped(f, a) = FlattenSeq(first) /\ first \in Seq(Seq(V))
  BY <1>3, MappedType DEF Mapped
<1>5. \A i \in 1..c : first[i] = f[a[i]]
  BY <1>0
<1>6. Len(first) = c
  BY <1>0
<1>7. \A t \in T : f[t] = (IF t[2] > 1 \/ t[1] = NL THEN <<>> ELSE <<t[1]>>) /\ t[1] \in V /\ t[2] \in Nat \ {0}
  BY DEF First, TokensOf
<1>. HIDE DEF f, first, w, l, c, T
<1>8. ASSUME NEW i \in 1..l
      PROVE  code[i] \in Seq(V) /\ (i <= c => Within(first[i], code[i]))
  <2>1. code[i] = symbol(i) /\ w[i] \in T
    <3>1. i \in DOMAIN w /\ w[i] \in T
      BY <1>0
    <3>. HIDE DEF symbol
    <3>. QED BY <3>1
  <2>. HIDE DEF ends, code
  <2>2. w[i][1] \in V /\ w[i][2] \in Nat \ {0}
    BY <1>7, <2>1
  <2>0. (w[i][2] = 1 /\ ~(w[i][2] > 1)) \/ (w[i][2] # 1 /\ w[i][2] > 1)
    BY <2>2
  <2>3. symbol(i) \in {<<w[i][1]>>, <<BROKEN>>, <<>>}
    BY <2>0, Zenon
  <2>4. \A v \in V : <<v>> \in Seq(V)
    OBVIOUS
  <2>5. code[i] \in Seq(V)
    BY <2>1, <2>2, <2>3, <2>4
  <2>6. ASSUME i <= c PROVE Within(first[i], code[i])
    <3>1. i \in 1..c
      BY <1>0, <2>6
    <3>2. first[i] = (IF w[i][2] > 1 \/ w[i][1] = NL THEN <<>> ELSE <<w[i][1]>>)
      BY <1>0, <1>5, <1>7, <2>1, <3>1
    <3>3. ~(w[i][2] > 1) => code[i] = <<w[i][1]>>
      BY <1>1, <2>0, <2>1, <3>1
    <3>4. first[i] = <<>> \/ first[i] = code[i]
      BY <3>2, <3>3
    <3>. QED BY <2>5, <3>4, WithinSame
  <2>. QED BY <2>5, <2>6
<1>9. code = [i \in 1..l |-> code[i]]
  <2>. HIDE DEF symbol
  <2>. QED BY <1>0
<1>. HIDE DEF code, x, y
<1>10. code \in Seq(Seq(V)) /\ Len(code) = l
  BY <1>0, <1>8, <1>9, ListType
<1>11. code = x \o y /\ x \in Seq(Seq(V)) /\ y \in Seq(Seq(V))
  <2>1. l \in 0..Len(code) /\ 0 \in 0..l /\ c \in 0..l
    BY <1>0, <1>10
  <2>2. SubSeq(code, 0 + 1, l) = x \o y /\ x \in Seq(Seq(V)) /\ y \in Seq(Seq(V))
    BY <1>10, <2>1, InTwo DEF x, y
  <2>3. SubSeq(code, 0 + 1, l) = code
    BY <1>10
  <2>. QED BY <2>2, <2>3
<1>12. Len(x) = c /\ \A i \in 1..c : x[i] = code[i]
  <2>1. /\ Len(SubSeq(code, 0 + 1, 0 + c)) = c
        /\ \A i \in 1..c : SubSeq(code, 0 + 1, 0 + c)[i] = code[0 + i]
    <3>1. c \in Nat /\ 0 \in 0..(Len(code) - c)
      BY <1>0, <1>10
    <3>. QED BY <1>10, <3>1, Cut
  <2>2. 0 + c = c /\ \A i \in 1..c : 0 + i = i
    BY <1>0
  <2>. QED BY <2>1, <2>2 DEF x
<1>13. Within(FlattenSeq(first), FlattenSeq(x))
  <2>1. \A i \in 1..Len(x) : i \in 1..l /\ i <= c
    BY <1>0, <1>12
  <2>2. \A i \in 1..Len(x) : Within(first[i], x[i])
    BY <1>8, <1>12, <2>1
  <2>. QED BY <1>4, <1>6, <1>11, <1>12, <2>2, WithinFlatten
<1>14. FlattenSeq(first) \in Seq(V) /\ FlattenSeq(x) \in Seq(V) /\ FlattenSeq(y) \in Seq(V) /\ <<>> \in Seq(V)
  BY <1>4, <1>11, FlattenType
<1>15. Within(<<>>, FlattenSeq(y))
  BY <1>14, WithinSame
<1>16. Within(FlattenSeq(first) \o <<>>, FlattenSeq(x) \o FlattenSeq(y))
  BY <1>13, <1>14, <1>15, WithinConcat
<1>17. FlattenSeq(first) \o <<>> = FlattenSeq(first)
  BY <1>14, ConcatEmptySeq
<1>18. FlattenSeq(code) = FlattenSeq(x) \o FlattenSeq(y)
  BY <1>11, FlattenConcat
<1>. QED BY <1>2, <1>4, <1>16, <1>17, <1>18 DEF f, w

DecodeMap(V) == [w \in Seq(TokensOf(V)) |-> Decode(w)]

(* DecodeMap maps windows to texts.                                        *)
LEMMA DecodeMaps ==
    ASSUME NEW V, BROKEN \in V
    PROVE  /\ Maps(DecodeMap(V), Seq(TokensOf(V)), V)
           /\ \A w \in Seq(TokensOf(V)) : DecodeMap(V)[w] = Decode(w)
<1>1. \A w \in Seq(TokensOf(V)) : Decode(w) \in Seq(V)
  BY DecodeType
<1>. QED BY <1>1 DEF DecodeMap, Maps

(* Decoded one after the other, the windows have the symbols that the      *)
(* tokens begin: a window may end inside a symbol, but the next one then   *)
(* starts at its first token or before.                                    *)
LEMMA WindowsKeep ==
    ASSUME NEW V, BROKEN \in V, NEW tokens \in Seq(TokensOf(V)), Ended(tokens),
           NEW size \in Nat, NEW overlap \in Nat, overlap < size,
           \A x \in V : Tokens(x) - 1 <= overlap
    PROVE  Within(Mapped(First(V), tokens),
                  Mapped(DecodeMap(V), TokenWindows(tokens, size, overlap)))
<1>. DEFINE from == CHOOSE from : Slides(from, tokens, size, overlap)
            n == Len(tokens)
            T == TokensOf(V)
            f == First(V)
            d == DecodeMap(V)
            rest(s) == SubSeq(tokens, s + 1, n)
            Kept == {k \in Nat : \A s \in 0..n : s + k >= n =>
                        /\ from[s] \in Seq(Seq(T))
                        /\ Within(Mapped(f, rest(s)), Mapped(d, from[s]))}
<1>0. n \in Nat
  OBVIOUS
<1>1. TokenWindows(tokens, size, overlap) = from[0]
  BY WindowsUnfold
<1>2. Slides(from, tokens, size, overlap)
  BY SlidesExist
<1>. HIDE DEF from
<1>3. ASSUME NEW s \in Nat PROVE from[s] = Window(from, s, tokens, size, overlap)
  <2>. DEFINE h == [start \in Nat |-> Window(from, start, tokens, size, overlap)]
  <2>1. h[s] = Window(from, s, tokens, size, overlap)
    OBVIOUS
  <2>2. from = h
    BY <1>2 DEF Slides
  <2>. HIDE DEF h
  <2>. QED BY <2>1, <2>2
<1>4. /\ Maps(f, T, V) /\ Maps(d, Seq(T), V)
      /\ \A w \in Seq(T) : d[w] = Decode(w)
  BY FirstMaps, DecodeMaps
<1>5. ASSUME NEW i \in 1..n
      PROVE  /\ Tokens(tokens[i][1]) \in Nat /\ Tokens(tokens[i][1]) - 1 <= overlap
             /\ tokens[i][2] = 1 => i + Tokens(tokens[i][1]) - 1 <= n
  <2>1. tokens[i][1] \in V
    <3>1. tokens[i] \in TokensOf(V)
      OBVIOUS
    <3>. QED BY <3>1 DEF TokensOf
  <2>. QED BY <2>1, TokensCount DEF Ended
<1>. HIDE DEF f, d
(* One window, of which the first c tokens count.                          *)
<1>6. ASSUME NEW s \in 0..n, NEW j \in s..n, NEW k \in j..n, j + overlap <= k \/ k = n
      PROVE  /\ SubSeq(tokens, s + 1, k) \in Seq(T)
             /\ SubSeq(tokens, s + 1, j) \in Seq(T)
             /\ Within(Mapped(f, SubSeq(tokens, s + 1, j)), Decode(SubSeq(tokens, s + 1, k)))
  <2>. DEFINE a == SubSeq(tokens, s + 1, j)
              b == SubSeq(tokens, j + 1, k)
              w == SubSeq(tokens, s + 1, k)
              c == j - s
              l == k - s
  <2>1. w = a \o b /\ a \in Seq(T) /\ b \in Seq(T)
    <3>1. k \in 0..Len(tokens) /\ s \in 0..k /\ j \in s..k
      BY <1>0
    <3>. HIDE DEF T, n
    <3>. QED BY <3>1, InTwo DEF T
  <2>2. /\ c \in Nat /\ s \in 0..(n - c) /\ s + c = j
        /\ l \in Nat /\ s \in 0..(n - l) /\ s + l = k /\ c <= l
        /\ (c + overlap <= l \/ s + l = n)
    BY <1>0, <1>6
  <2>3. Len(a) = c /\ \A i \in 1..c : a[i] = tokens[s + i]
    <3>1. /\ Len(SubSeq(tokens, s + 1, s + c)) = c
          /\ \A i \in 1..c : SubSeq(tokens, s + 1, s + c)[i] = tokens[s + i]
      <4>. HIDE DEF c, l
      <4>. QED BY <2>2, Cut
    <3>. QED BY <2>2, <3>1
  <2>4. w \in Seq(T) /\ Len(w) = l /\ \A i \in 1..l : w[i] = tokens[s + i]
    <3>1. /\ SubSeq(tokens, s + 1, s + l) \in Seq(T) /\ Len(SubSeq(tokens, s + 1, s + l)) = l
          /\ \A i \in 1..l : SubSeq(tokens, s + 1, s + l)[i] = tokens[s + i]
      <4>. HIDE DEF c, l
      <4>. QED BY <2>2, Cut
    <3>. QED BY <2>2, <3>1
  <2>. HIDE DEF a, b, w, c, l
  <2>5. ASSUME NEW i \in 1..c, w[i][2] = 1
        PROVE  i + Tokens(w[i][1]) - 1 <= l
    <3>. DEFINE p == s + i
                t == Tokens(tokens[p][1])
    <3>1. p \in 1..n /\ i \in 1..l
      BY <1>0, <2>2
    <3>2. w[i] = tokens[p]
      BY <2>4, <3>1
    <3>3. t \in Nat /\ t - 1 <= overlap /\ p + t - 1 <= n
      BY <1>5, <2>5, <3>1, <3>2
    <3>. HIDE DEF t
    <3>4. i + t - 1 <= l
      BY <1>0, <2>2, <3>1, <3>3
    <3>. HIDE DEF p
    <3>. QED BY <3>2, <3>4 DEF t
  <2>6. \A i \in 1..Len(a) : (a \o b)[i][2] = 1 => i + Tokens((a \o b)[i][1]) - 1 <= Len(a \o b)
    BY <2>1, <2>3, <2>4, <2>5
  <2>7. Within(Mapped(f, a), Decode(a \o b))
    <3>. HIDE DEF T
    <3>. QED BY <2>1, <2>6, DecodeKeeps DEF T, f
  <2>. QED BY <2>1, <2>4, <2>7 DEF a, w
<1>7. ASSUME NEW s \in 0..n, s + size >= n
      PROVE  from[s] \in Seq(Seq(T)) /\ Within(Mapped(f, rest(s)), Mapped(d, from[s]))
  <2>1. from[s] = <<rest(s)>>
    <3>1. s \in Nat /\ s + size >= Len(tokens)
      BY <1>0, <1>7
    <3>. QED BY <1>3, <3>1 DEF Window
  <2>2. n \in s..n /\ n \in n..n
    BY <1>0
  <2>3. rest(s) \in Seq(T) /\ Within(Mapped(f, rest(s)), Decode(rest(s)))
    BY <1>6, <2>2
  <2>. HIDE DEF rest, T
  <2>4. Mapped(d, <<rest(s)>>) = Decode(rest(s))
    BY <1>4, <2>3, MappedOne
  <2>5. <<rest(s)>> \in Seq(Seq(T))
    BY <2>3
  <2>. QED BY <2>1, <2>3, <2>4, <2>5
<1>8. 0 \in Kept
  <2>1. \A s \in 0..n : s + 0 >= n => s + size >= n
    BY <1>0
  <2>. HIDE DEF n, rest, T
  <2>. QED BY <1>7, <2>1
<1>9. ASSUME NEW k \in Nat, k \in Kept PROVE k + 1 \in Kept
  <2>. SUFFICES ASSUME NEW s \in 0..n, s + (k + 1) >= n, s + size < n
                PROVE  from[s] \in Seq(Seq(T)) /\ Within(Mapped(f, rest(s)), Mapped(d, from[s]))
    <3>. HIDE DEF n, rest, T
    <3>. QED BY <1>0, <1>7
  <2>. DEFINE j == s + size - overlap
              e == s + size
              a == SubSeq(tokens, s + 1, j)
              w == SubSeq(tokens, s + 1, e)
  <2>1. j \in 0..n /\ j + k >= n /\ j \in s..n /\ e \in j..n /\ j + overlap <= e /\ s \in Nat
    BY <1>0
  <2>2. from[j] \in Seq(Seq(T)) /\ Within(Mapped(f, rest(j)), Mapped(d, from[j]))
    <3>. HIDE DEF j, rest, T
    <3>. QED BY <1>9, <2>1
  <2>3. ~(s + size >= Len(tokens))
    BY <1>0
  <2>4. from[s] = <<w>> \o from[j]
    BY <1>3, <2>1, <2>3 DEF Window
  <2>5. w \in Seq(T) /\ a \in Seq(T) /\ Within(Mapped(f, a), Decode(w))
    <3>. HIDE DEF j, e, n
    <3>. QED BY <1>6, <2>1
  <2>6. rest(s) = a \o rest(j) /\ rest(j) \in Seq(T)
    <3>1. n \in 0..Len(tokens) /\ s \in 0..n /\ j \in s..n
      BY <1>0, <2>1
    <3>. HIDE DEF j, e, T, n
    <3>. QED BY <3>1, InTwo DEF T
  <2>. HIDE DEF j, e, T, a, w, rest, n
  <2>7. Mapped(f, rest(s)) = Mapped(f, a) \o Mapped(f, rest(j))
    BY <1>4, <2>5, <2>6, MappedConcat
  <2>8. <<w>> \in Seq(Seq(T))
    BY <2>5
  <2>9. Mapped(d, from[s]) = Decode(w) \o Mapped(d, from[j])
    <3>. DEFINE v == <<w>>
    <3>1. v \in Seq(Seq(T)) /\ Mapped(d, v) = Decode(w)
      BY <1>4, <2>5, <2>8, MappedOne
    <3>. DEFINE u == from[j]
    <3>2. from[s] = v \o u /\ u \in Seq(Seq(T))
      BY <2>2, <2>4
    <3>. HIDE DEF v, u
    <3>3. Mapped(d, v \o u) = Mapped(d, v) \o Mapped(d, u)
      <4>. DEFINE W == Seq(T)
      <4>1. Maps(d, W, V) /\ v \in Seq(W) /\ u \in Seq(W)
        BY <1>4, <3>1, <3>2
      <4>. HIDE DEF W
      <4>. QED BY <4>1, MappedConcat
    <3>. QED BY <3>1, <3>2, <3>3 DEF u
  <2>10. /\ Mapped(f, a) \in Seq(V) /\ Mapped(f, rest(j)) \in Seq(V)
         /\ Mapped(d, from[j]) \in Seq(V) /\ Decode(w) \in Seq(V)
    <3>1. Mapped(f, a) \in Seq(V)
      BY <1>4, <2>5, MappedType
    <3>2. Mapped(f, rest(j)) \in Seq(V)
      BY <1>4, <2>6, MappedType
    <3>3. Mapped(d, from[j]) \in Seq(V)
      BY <1>4, <2>2, MappedType
    <3>4. Decode(w) \in Seq(V)
      BY <2>5, DecodeType DEF T
    <3>. QED BY <3>1, <3>2, <3>3, <3>4
  <2>11. Within(Mapped(f, a) \o Mapped(f, rest(j)), Decode(w) \o Mapped(d, from[j]))
    BY <2>2, <2>5, <2>10, WithinConcat
  <2>12. from[s] \in Seq(Seq(T))
    <3>. DEFINE v == <<w>>
    <3>1. v \in Seq(Seq(T)) /\ from[s] = v \o from[j]
      BY <2>4, <2>8
    <3>. HIDE DEF v
    <3>. QED BY <2>2, <3>1, ConcatProperties
  <2>. QED BY <2>7, <2>9, <2>11, <2>12
<1>10. n \in Kept
  <2>. HIDE DEF Kept, n
  <2>. QED BY <1>0, <1>8, <1>9, Induct
<1>11. 0 + n >= n /\ 0 \in 0..n
  BY <1>0
<1>12. rest(0) = tokens
  OBVIOUS
<1>. QED BY <1>1, <1>10, <1>11, <1>12 DEF f, d

(* A text contains its ink.                                                *)
LEMMA InkWithin ==
    ASSUME NEW V, NEW text \in Seq(V)
    PROVE  Within(Inked(text), text)
<1>. DEFINE n == Len(text)
            one == [i \in 1..n |-> <<text[i]>>]
            ink == [i \in DOMAIN text |-> IF text[i] = NL THEN <<>> ELSE <<text[i]>>]
            h == [i \in 0..n |-> SubSeq(text, 0 + 1, i)]
<1>0. n \in Nat /\ DOMAIN text = 1..n /\ \A i \in 1..n : text[i] \in V
  OBVIOUS
<1>1. one = [i \in 1..n |-> one[i]] /\ \A i \in 1..n : one[i] = <<text[i]>> /\ one[i] \in Seq(V)
  BY <1>0
<1>2. /\ ink = [i \in 1..n |-> ink[i]]
      /\ \A i \in 1..n : ink[i] = IF text[i] = NL THEN <<>> ELSE <<text[i]>>
  BY <1>0
<1>3. Inked(text) = FlattenSeq(ink)
  BY DEF Inked
<1>4. \A i \in 0..n : h[i] = SubSeq(text, 0 + 1, i)
  OBVIOUS
<1>. HIDE DEF one, ink, h
<1>5. one \in Seq(Seq(V)) /\ Len(one) = n
  <2>. HIDE DEF n
  <2>. QED BY <1>0, <1>1, ListType
<1>6. ink \in Seq(Seq(V)) /\ Len(ink) = n
  <2>1. \A i \in 1..n : ink[i] \in Seq(V)
    <3>1. <<>> \in Seq(V)
      OBVIOUS
    <3>. HIDE DEF n
    <3>. QED BY <1>1, <1>2, <3>1
  <2>. HIDE DEF n
  <2>. QED BY <1>0, <1>2, <2>1, ListType
<1>7. ASSUME NEW i \in 1..n PROVE Within(ink[i], one[i])
  <2>1. one[i] \in Seq(V) /\ (ink[i] = <<>> \/ ink[i] = one[i])
    <3>. HIDE DEF n
    <3>. QED BY <1>1, <1>2
  <2>. QED BY <2>1, WithinSame
<1>8. Within(FlattenSeq(ink), FlattenSeq(one))
  <2>. HIDE DEF n
  <2>. QED BY <1>5, <1>6, <1>7, WithinFlatten
<1>9. h[0] = <<>>
  BY <1>0, <1>4
<1>10. ASSUME NEW i \in 1..n PROVE h[i] = h[i - 1] \o one[i]
  <2>. DEFINE j == i - 1
              last == SubSeq(text, j + 1, i)
  <2>1. i \in 0..Len(text) /\ 0 \in 0..i /\ j \in 0..i /\ i \in 0..n /\ j \in 0..n
        /\ 1 \in Nat /\ j \in 0..(Len(text) - 1) /\ j + 1 = i
    BY <1>0
  <2>. HIDE DEF j, n
  <2>2. SubSeq(text, 0 + 1, i) = SubSeq(text, 0 + 1, j) \o last /\ last \in Seq(V)
    BY <2>1, InTwo
  <2>3. Len(last) = 1 /\ last[1] = text[i]
    <3>1. /\ Len(SubSeq(text, j + 1, j + 1)) = 1
          /\ \A k \in 1..1 : SubSeq(text, j + 1, j + 1)[k] = text[j + k]
      BY <2>1, Cut
    <3>. QED BY <2>1, <3>1
  <2>. HIDE DEF last
  <2>4. last = <<text[i]>>
    BY <2>2, <2>3
  <2>5. h[i] = SubSeq(text, 0 + 1, i) /\ h[j] = SubSeq(text, 0 + 1, j)
    BY <1>4, <2>1
  <2>6. one[i] = last
    BY <1>1, <2>4
  <2>. QED BY <2>2, <2>5, <2>6 DEF j
<1>11. FlattenSeq(one) = h[n]
  <2>1. \A i \in 1..Len(one) : h[i] = h[i - 1] \o one[i]
    BY <1>5, <1>10
  <2>2. FlattenSeq(one) = h[Len(one)]
    BY <1>5, <1>9, <2>1, FlattenIs
  <2>. QED BY <1>5, <2>2
<1>12. h[n] = text
  <2>1. SubSeq(text, 0 + 1, n) = text
    OBVIOUS
  <2>2. n \in 0..n
    BY <1>0
  <2>. HIDE DEF n
  <2>. QED BY <1>4, <2>1, <2>2
<1>. QED BY <1>3, <1>8, <1>11, <1>12

ContentMap(text, V) == [p \in Pieces(text, V) |-> p.content]

(* ContentMap maps pieces to texts.                                        *)
LEMMA ContentMaps ==
    ASSUME NEW V, NEW text
    PROVE  Maps(ContentMap(text, V), Pieces(text, V), V)
BY DEF Maps, ContentMap, Pieces

(* The pieces of a block contain its ink.                                  *)
LEMMA PiecesKeep ==
    ASSUME NEW V, BROKEN \in V, NEW text \in Seq(V), NEW block \in Seq(V), Occurs(text, block),
           NEW size \in Nat, NEW overlap \in Nat, overlap < size,
           \A x \in V : Tokens(x) - 1 <= overlap
    PROVE  Within(Inked(block), Mapped(ContentMap(text, V), PiecesOfBlock(text, block, size, overlap)))
<1>. DEFINE start == Find(text, block)
            tokens == Encode(block)
            windows == TokenWindows(tokens, size, overlap)
            offset(sub) == LET at == Find(block, sub) IN IF at = NONE THEN NONE ELSE start + at
            cut == [i \in DOMAIN windows |-> Piece(Decode(windows[i]), offset(Decode(windows[i])))]
            whole == Piece(block, start)
            pieces == PiecesOfBlock(text, block, size, overlap)
            P == Pieces(text, V)
            f == ContentMap(text, V)
            T == TokensOf(V)
<1>1. pieces = IF Len(tokens) <= size THEN <<whole>> ELSE cut
  BY DEF PiecesOfBlock
<1>2. pieces \in Seq(P)
  BY PiecesOfBlockType
<1>3. Maps(f, P, V) /\ \A p \in P : f[p] = p.content
  BY ContentMaps DEF ContentMap
<1>4. whole.content = block
  BY DEF Piece
<1>. HIDE DEF pieces, P, f, whole, start
<1>5. CASE Len(tokens) <= size
  <2>1. pieces = <<whole>>
    <3>. HIDE DEF cut, tokens
    <3>. QED BY <1>1, <1>5
  <2>2. whole \in P
    <3>1. Len(<<whole>>) = 1 /\ <<whole>>[1] = whole
      OBVIOUS
    <3>2. Len(pieces) = 1 /\ pieces[1] = whole
      BY <2>1, <3>1
    <3>3. \A i \in 1..Len(pieces) : pieces[i] \in P
      BY <1>2
    <3>. QED BY <3>2, <3>3
  <2>3. Mapped(f, pieces) = block
    BY <1>3, <1>4, <2>1, <2>2, MappedOne
  <2>. QED BY <2>3, InkWithin DEF f, pieces
<1>6. CASE ~(Len(tokens) <= size)
  <2>1. pieces = cut
    <3>. HIDE DEF cut, tokens
    <3>. QED BY <1>1, <1>6
  <2>2. tokens \in Seq(T) /\ Ended(tokens) /\ Mapped(First(V), tokens) = Inked(block)
    BY EncodeType, EncodeKeeps
  <2>. HIDE DEF tokens
  <2>3. windows \in Seq(Seq(T))
    BY <2>2, WindowsType
  <2>4. Within(Inked(block), Mapped(DecodeMap(V), windows))
    BY <2>2, WindowsKeep DEF T
  <2>. HIDE DEF windows
  <2>5. Mapped(f, pieces) = Mapped(DecodeMap(V), windows)
    <3>1. DOMAIN pieces = DOMAIN windows
      <4>. HIDE DEF offset
      <4>. QED BY <2>1
    <3>2. ASSUME NEW i \in DOMAIN windows
          PROVE  f[pieces[i]] = DecodeMap(V)[windows[i]]
      <4>1. pieces[i] = Piece(Decode(windows[i]), offset(Decode(windows[i])))
        <5>. HIDE DEF offset
        <5>. QED BY <2>1
      <4>. HIDE DEF offset, cut
      <4>2. pieces[i].content = Decode(windows[i])
        BY <4>1 DEF Piece
      <4>3. pieces[i] \in P /\ windows[i] \in Seq(T)
        BY <1>2, <2>3, <3>1
      <4>4. f[pieces[i]] = pieces[i].content
        BY <1>3, <4>3
      <4>5. DecodeMap(V)[windows[i]] = Decode(windows[i])
        BY <4>3, DecodeMaps DEF T
      <4>. QED BY <4>2, <4>4, <4>5
    <3>3. [i \in DOMAIN pieces |-> f[pieces[i]]] = [i \in DOMAIN windows |-> DecodeMap(V)[windows[i]]]
      BY <3>1, <3>2
    <3>. QED BY <3>3 DEF Mapped
  <2>. QED BY <2>4, <2>5 DEF f, pieces
<1>. QED BY <1>5, <1>6

(* The pieces of a text contain the ink of all of it.                      *)
LEMMA SegmentTextKeeps ==
    ASSUME NEW V, BROKEN \in V, NEW raw \in Seq(V), NEW kind,
           NEW size \in Nat, NEW overlap \in Nat, overlap < size,
           \A x \in V : Tokens(x) - 1 <= overlap
    PROVE  Within(Inked(raw), Mapped(ContentMap(Strip(raw), V), SegmentText(raw, kind, size, overlap)))
<1>. DEFINE text == Strip(raw)
            blocks == Blocks(text, kind)
            pieces == [n \in DOMAIN blocks |-> PiecesOfBlock(text, blocks[n], size, overlap)]
            ink == [n \in DOMAIN blocks |-> Inked(blocks[n])]
            P == Pieces(text, V)
            f == ContentMap(text, V)
            each == MappedEach(f, pieces)
<1>1. SegmentText(raw, kind, size, overlap) = FlattenSeq(pieces)
  BY DEF SegmentText
<1>2. text \in Seq(V) /\ Inked(text) = Inked(raw) /\ (text # <<>> => text[1] # NL)
  BY Strips, StripKeeps
<1>. HIDE DEF text
<1>3. blocks \in Seq(Seq(V)) /\ \A n \in DOMAIN blocks : Occurs(text, blocks[n])
  BY <1>2, BlocksOccur
<1>4. Inked(text) = FlattenSeq(ink)
  BY <1>2, InkedBlocks
<1>5. Maps(f, P, V)
  BY ContentMaps
<1>. HIDE DEF blocks, P, f
<1>6. Len(blocks) \in Nat /\ DOMAIN blocks = 1..Len(blocks) /\ \A n \in 1..Len(blocks) : blocks[n] \in Seq(V)
  BY <1>3
<1>7. ASSUME NEW n \in 1..Len(blocks)
      PROVE  /\ pieces[n] \in Seq(P) /\ ink[n] = Inked(blocks[n]) /\ ink[n] \in Seq(V)
             /\ Within(ink[n], Mapped(f, pieces[n]))
  <2>1. pieces[n] = PiecesOfBlock(text, blocks[n], size, overlap) /\ ink[n] = Inked(blocks[n])
    BY <1>6
  <2>. HIDE DEF pieces, ink
  <2>2. n \in DOMAIN blocks
    BY <1>6
  <2>3. blocks[n] \in Seq(V)
    BY <1>6
  <2>4. Occurs(text, blocks[n])
    BY <1>3, <2>2
  <2>5. pieces[n] \in Seq(P)
    BY <1>2, <2>1, <2>3, <2>4, PiecesOfBlockType DEF P
  <2>6. Within(Inked(blocks[n]), Mapped(f, pieces[n]))
    BY <1>2, <2>1, <2>3, <2>4, PiecesKeep DEF f
  <2>7. Inked(blocks[n]) \in Seq(V)
    BY <2>3, InkMapped
  <2>. QED BY <2>1, <2>5, <2>6, <2>7
<1>8. /\ pieces = [n \in 1..Len(blocks) |-> pieces[n]] /\ DOMAIN pieces = 1..Len(blocks)
      /\ ink = [n \in 1..Len(blocks) |-> ink[n]]
  BY <1>6
<1>. HIDE DEF pieces, ink
<1>9. pieces \in Seq(Seq(P)) /\ Len(pieces) = Len(blocks)
  BY <1>6, <1>7, <1>8, ListType
<1>10. ink \in Seq(Seq(V)) /\ Len(ink) = Len(blocks)
  BY <1>6, <1>7, <1>8, ListType
<1>11. Mapped(f, FlattenSeq(pieces)) = FlattenSeq(each)
  BY <1>5, <1>9, MappedFlatten
<1>12. each = [n \in 1..Len(blocks) |-> each[n]] /\ \A n \in 1..Len(blocks) : each[n] = Mapped(f, pieces[n])
  BY <1>8 DEF MappedEach
<1>. HIDE DEF each
<1>13. each \in Seq(Seq(V)) /\ Len(each) = Len(blocks)
  <2>1. \A n \in 1..Len(blocks) : each[n] \in Seq(V)
    <3>. TAKE n \in 1..Len(blocks)
    <3>1. pieces[n] \in Seq(P)
      BY <1>7
    <3>2. Mapped(f, pieces[n]) \in Seq(V)
      BY <1>5, <3>1, MappedType
    <3>. QED BY <1>12, <3>2
  <2>. QED BY <1>6, <1>12, <2>1, ListType
<1>14. \A n \in 1..Len(each) : Within(ink[n], each[n])
  BY <1>7, <1>12, <1>13
<1>15. Within(FlattenSeq(ink), FlattenSeq(each))
  BY <1>10, <1>13, <1>14, WithinFlatten
<1>. QED BY <1>1, <1>2, <1>4, <1>11, <1>15 DEF f, text

-----------------------------------------------------------------------------
(* Preprocessing: the rows of an asset.                                    *)

(* Numbered rows come in the order of their numbers.                       *)
Numbered(row, l, n) ==
    /\ row = [i \in 1..l |-> row[i]]
    /\ \A i \in 1..l : row[i].asset = n /\ row[i].index = i

(* InOrder gives them back in the order they were made.                    *)
LEMMA NumberedInOrder ==
    ASSUME NEW l \in Nat, NEW n \in Nat, NEW row, Numbered(row, l, n)
    PROVE  /\ IsFiniteSet({row[i] : i \in 1..l})
           /\ InOrder({row[i] : i \in 1..l}) = row
<1>. DEFINE R == {row[i] : i \in 1..l}
            first(j) == {row[k] : k \in 1..j}
<1>0. \A i, j \in 1..l : row[i] = row[j] => i = j
  BY DEF Numbered
<1>1. ASSUME NEW j \in 0..l PROVE IsFiniteSet(first(j)) /\ Cardinality(first(j)) = j
  <2>. DEFINE f == [k \in 1..j |-> row[k]]
              T == first(j)
  <2>1. \A k \in 1..j : k \in 1..l
    OBVIOUS
  <2>2. f \in Bijection(1..j, T)
    BY <1>0, <2>1 DEF Bijection, Injection, IsInjective, Surjection
  <2>. HIDE DEF f, T
  <2>3. ExistsBijection(1..j, T)
    BY <2>2 DEF ExistsBijection
  <2>4. 1 \in Int /\ j \in Int /\ (IF 1 > j THEN 0 ELSE j - 1 + 1) = j
    OBVIOUS
  <2>5. IsFiniteSet(1..j) /\ Cardinality(1..j) = j
    BY <2>4, FS_Interval
  <2>6. IsFiniteSet(T) /\ Cardinality(T) = Cardinality(1..j)
    BY <2>3, <2>5, FS_Bijection
  <2>. QED BY <2>5, <2>6 DEF T
<1>2. l \in 0..l /\ first(l) = R
  OBVIOUS
<1>3. IsFiniteSet(R) /\ Cardinality(R) = l
  <2>. HIDE DEF first, R
  <2>. QED BY <1>1, <1>2
<1>4. ASSUME NEW i \in 1..l PROVE Cardinality({t \in R : Before(t, row[i])}) = i - 1
  <2>1. {t \in R : Before(t, row[i])} = first(i - 1)
    <3>1. ASSUME NEW k \in 1..l PROVE Before(row[k], row[i]) <=> k \in 1..(i - 1)
      BY DEF Before, Numbered
    <3>2. \A k \in 1..(i - 1) : k \in 1..l
      OBVIOUS
    <3>. QED BY <3>1, <3>2
  <2>2. i - 1 \in 0..l
    OBVIOUS
  <2>. HIDE DEF first, R
  <2>. QED BY <1>1, <2>1, <2>2
<1>5. \A i \in 1..l : row[i] \in R
  OBVIOUS
<1>6. \A s \in R : \E k \in 1..l : s = row[k]
  OBVIOUS
<1>7. InOrder(R) = [i \in 1..Cardinality(R) |->
                       CHOOSE s \in R : Cardinality({t \in R : Before(t, s)}) = i - 1]
  BY DEF InOrder
<1>. HIDE DEF R
<1>8. ASSUME NEW i \in 1..l
      PROVE  (CHOOSE s \in R : Cardinality({t \in R : Before(t, s)}) = i - 1) = row[i]
  <2>. DEFINE s == CHOOSE s \in R : Cardinality({t \in R : Before(t, s)}) = i - 1
  <2>1. s \in R /\ Cardinality({t \in R : Before(t, s)}) = i - 1
    BY <1>4, <1>5
  <2>. HIDE DEF s
  <2>2. PICK k \in 1..l : s = row[k]
    BY <1>6, <2>1
  <2>3. k - 1 = i - 1
    BY <1>4, <2>1, <2>2
  <2>4. k = i
    BY <2>3
  <2>. QED BY <2>2, <2>4 DEF s
<1>9. InOrder(R) = row
  BY <1>3, <1>7, <1>8 DEF Numbered
<1>. QED BY <1>3, <1>9 DEF R

(* The rows of an asset in the table: one for each of its indices, and     *)
(* what they hold of it.                                                   *)
SaysAs(rows, us, r) ==
    FlattenSeq([i \in DOMAIN rows |-> Tag(rows[i].content, rows[i].speaker)])
    = FlattenSeq([i \in DOMAIN us |-> Tag(us[i].words, r[i])])

Keeps(rows, asset) == Matched(Inked(asset.text), ContentOf(rows)) = Len(Inked(asset.text))

AssetRows(R, n, asset, r) ==
    /\ IsFiniteSet(R)
    /\ \A s \in R : s.asset = n /\ s.index \in Nat
    /\ \A s, t \in R : s.index = t.index => s = t
    /\ IsAudio(asset) =>
        /\ \A s \in R : /\ s.speaker \in Speakers /\ s.content # <<>>
                        /\ s.utterances > 1 => s.end - s.start <= MaxTurn
        /\ SaysAs(InOrder(R), asset.utterances, r)
    /\ ~IsAudio(asset) =>
        /\ \A s \in R : /\ ~(s.utterances > 1)
                        /\ s.start # NONE => SubSeq(Strip(asset.text), s.start + 1, s.end) = s.content
        /\ OverlapSuffices => Keeps(InOrder(R), asset)

(* Rows numbered from a list: the index of each is its place there.        *)
LEMMA RowsOfList ==
    ASSUME NEW l \in Nat, NEW n \in Nat, NEW row, Numbered(row, l, n)
    PROVE  /\ \A s \in {row[i] : i \in 1..l} : s.asset = n /\ s.index \in Nat
           /\ \A s, t \in {row[i] : i \in 1..l} : s.index = t.index => s = t
BY DEF Numbered

(* The rows of a recording.                                                *)
TurnRow(n, i, turn) ==
    [asset |-> n, index |-> i, content |-> WordsOf(turn), start |-> turn.start, end |-> turn.end,
     speaker |-> turn.speaker, utterances |-> Len(turn.parts)]

(* They hold what was said, by whom, in turns that keep to the limit.      *)
LEMMA RecordingRows ==
    ASSUME NEW V, NEW n \in Nat, NEW asset, IsAudio(asset), asset.utterances \in Seq(Said(V)),
           NEW r, \A i \in 1..Len(asset.utterances) : r[i] \in Speakers, MaxTurn \in Nat \ {0}
    PROVE  AssetRows(SegmentsOf(n, asset, r), n, asset, r)
<1>. DEFINE us == asset.utterances
            turns == BuildSpeakerTurns(us, r, MaxTurn)
            l == Len(turns)
            row == [i \in 1..l |-> TurnRow(n, i, turns[i])]
            R == {row[i] : i \in 1..l}
<1>1. turns \in Seq(BoundedTurns(V, MaxTurn)) /\ Holds(turns, us, r, V)
  <2>. HIDE DEF turns
  <2>. QED BY BuildHolds DEF turns
<1>2. SegmentsOf(n, asset, r) = {TurnRow(n, i, turns[i]) : i \in DOMAIN turns}
  BY DEF SegmentsOf, TurnRow
<1>. HIDE DEF turns
<1>3. l \in Nat /\ DOMAIN turns = 1..l /\ \A i \in 1..l : turns[i] \in BoundedTurns(V, MaxTurn)
  BY <1>1
<1>4. SegmentsOf(n, asset, r) = R
  BY <1>2, <1>3
<1>5. ASSUME NEW i \in 1..l
      PROVE  /\ row[i].asset = n /\ row[i].index = i
             /\ row[i].content = WordsOf(turns[i]) /\ row[i].speaker = turns[i].speaker
             /\ row[i].start = turns[i].start /\ row[i].end = turns[i].end
             /\ row[i].utterances = Len(turns[i].parts)
  BY DEF TurnRow
<1>6. row = [i \in 1..l |-> row[i]]
  OBVIOUS
<1>. HIDE DEF row
<1>7. Numbered(row, l, n)
  BY <1>5, <1>6 DEF Numbered
<1>8. IsFiniteSet(R) /\ InOrder(R) = row
  BY <1>3, <1>7, NumberedInOrder
<1>9. /\ \A s \in R : s.asset = n /\ s.index \in Nat
      /\ \A s, t \in R : s.index = t.index => s = t
  <2>. HIDE DEF l
  <2>. QED BY <1>3, <1>7, RowsOfList
<1>10. ASSUME NEW i \in 1..l
       PROVE  /\ row[i].speaker \in Speakers /\ row[i].content # <<>>
              /\ row[i].utterances > 1 => row[i].end - row[i].start <= MaxTurn
  <2>1. turns[i] \in BoundedTurns(V, MaxTurn)
    BY <1>3
  <2>2. turns[i].speaker \in Speakers
    BY <2>1 DEF BoundedTurns, Turns
  <2>3. Len(turns[i].parts) > 1 => turns[i].end - turns[i].start <= MaxTurn
    BY <2>1 DEF BoundedTurns
  <2>4. WordsOf(turns[i]) # <<>>
    BY <2>1, WordsHeard DEF BoundedTurns
  <2>. QED BY <1>5, <2>2, <2>3, <2>4
<1>11. SaysAs(row, us, r)
  <2>1. DOMAIN row = DOMAIN turns
    BY <1>3, <1>6
  <2>2. ASSUME NEW i \in 1..l
        PROVE  Tag(row[i].content, row[i].speaker) = Spoken(V)[turns[i]]
    <3>1. turns[i] \in Turns(V)
      BY <1>3 DEF BoundedTurns
    <3>2. Spoken(V)[turns[i]] = Tag(WordsOf(turns[i]), turns[i].speaker)
      BY <3>1 DEF Spoken
    <3>. QED BY <1>5, <3>2
  <2>3. [i \in DOMAIN row |-> Tag(row[i].content, row[i].speaker)]
        = [i \in DOMAIN turns |-> Spoken(V)[turns[i]]]
    BY <1>3, <2>1, <2>2
  <2>. QED BY <1>1, <2>3 DEF SaysAs, Holds, Mapped
<1>12. \A s \in R : /\ s.speaker \in Speakers /\ s.content # <<>>
                    /\ s.utterances > 1 => s.end - s.start <= MaxTurn
  BY <1>10
<1>. HIDE DEF R, l
<1>. QED BY <1>4, <1>8, <1>9, <1>11, <1>12 DEF AssetRows

(* The rows of a text.                                                     *)
PieceRow(n, i, piece) ==
    [asset |-> n, index |-> i, content |-> piece.content, start |-> piece.start, end |-> piece.end,
     speaker |-> "none", utterances |-> 0]

(* The offsets of each, if it has any, delimit it in the stripped text.    *)
LEMMA TextRows ==
    ASSUME NEW V, BROKEN \in V, NEW n \in Nat, NEW asset, ~IsAudio(asset), asset.text \in Seq(V),
           NEW r, ChunkSize \in Nat, Overlap \in Nat, Overlap < ChunkSize
    PROVE  AssetRows(SegmentsOf(n, asset, r), n, asset, r)
<1>. DEFINE raw == asset.text
            pieces == SegmentText(raw, SourceKind(asset), ChunkSize, Overlap)
            l == Len(pieces)
            row == [i \in 1..l |-> PieceRow(n, i, pieces[i])]
            R == {row[i] : i \in 1..l}
            f == ContentMap(Strip(raw), V)
<1>1. pieces \in Seq(Pieces(Strip(raw), V))
  BY SegmentTextType
<1>0. ASSUME OverlapSuffices PROVE Within(Inked(raw), Mapped(f, pieces))
  <2>1. \A x \in V : Tokens(x) - 1 <= Overlap
    BY <1>0 DEF OverlapSuffices, Tokens
  <2>. HIDE DEF f, pieces
  <2>. QED BY <2>1, SegmentTextKeeps DEF f, pieces
<1>2. SegmentsOf(n, asset, r) = {PieceRow(n, i, pieces[i]) : i \in DOMAIN pieces}
  BY DEF SegmentsOf, PieceRow
<1>. HIDE DEF pieces
<1>3. l \in Nat /\ DOMAIN pieces = 1..l /\ \A i \in 1..l : pieces[i] \in Pieces(Strip(raw), V)
  BY <1>1
<1>4. SegmentsOf(n, asset, r) = R
  BY <1>2, <1>3
<1>5. ASSUME NEW i \in 1..l
      PROVE  /\ row[i].asset = n /\ row[i].index = i
             /\ row[i].content = pieces[i].content /\ row[i].utterances = 0
             /\ row[i].start = pieces[i].start /\ row[i].end = pieces[i].end
  BY DEF PieceRow
<1>6. row = [i \in 1..l |-> row[i]]
  OBVIOUS
<1>. HIDE DEF row
<1>7. Numbered(row, l, n)
  BY <1>5, <1>6 DEF Numbered
<1>8. IsFiniteSet(R) /\ InOrder(R) = row
  BY <1>3, <1>7, NumberedInOrder
<1>9. /\ \A s \in R : s.asset = n /\ s.index \in Nat
      /\ \A s, t \in R : s.index = t.index => s = t
  <2>. HIDE DEF l
  <2>. QED BY <1>3, <1>7, RowsOfList
<1>10. ASSUME NEW i \in 1..l
       PROVE  /\ ~(row[i].utterances > 1)
              /\ row[i].start # NONE =>
                     SubSeq(Strip(raw), row[i].start + 1, row[i].end) = row[i].content
  <2>1. pieces[i] \in Pieces(Strip(raw), V)
    BY <1>3
  <2>2. pieces[i].start # NONE =>
            SubSeq(Strip(raw), pieces[i].start + 1, pieces[i].end) = pieces[i].content
    BY <2>1 DEF Pieces
  <2>. QED BY <1>5, <2>2
<1>11. \A s \in R : /\ ~(s.utterances > 1)
                    /\ s.start # NONE => SubSeq(Strip(raw), s.start + 1, s.end) = s.content
  BY <1>10
<1>12. ContentOf(row) = Mapped(f, pieces)
  <2>1. DOMAIN row = DOMAIN pieces
    BY <1>3, <1>6
  <2>2. ASSUME NEW i \in DOMAIN pieces PROVE row[i].content = f[pieces[i]]
    <3>1. pieces[i] \in Pieces(Strip(raw), V) /\ row[i].content = pieces[i].content
      BY <1>3, <1>5
    <3>. QED BY <3>1 DEF ContentMap
  <2>. HIDE DEF f
  <2>3. [i \in DOMAIN row |-> row[i].content] = [i \in DOMAIN pieces |-> f[pieces[i]]]
    BY <2>1, <2>2
  <2>. QED BY <2>3 DEF ContentOf, Mapped
<1>13. OverlapSuffices => Keeps(InOrder(R), asset)
  <2>1. Inked(raw) \in Seq(V) /\ Mapped(f, pieces) \in Seq(V)
    BY <1>1, InkMapped, ContentMaps, MappedType
  <2>. HIDE DEF R, f
  <2>2. OverlapSuffices => Matched(Inked(raw), Mapped(f, pieces)) = Len(Inked(raw))
    BY <1>0, <2>1, WithinMatched
  <2>. QED BY <1>8, <1>12, <2>2 DEF Keeps
<1>. HIDE DEF R, l
<1>. QED BY <1>4, <1>8, <1>9, <1>11, <1>13 DEF AssetRows

(* The strings texts are made of, without the provers' own theory of them. *)
Symbols == STRING

(* An upload is a text of strings, or utterances of them.                  *)
LEMMA UploadType ==
    ASSUME NEW asset \in Uploads
    PROVE  asset.text \in Seq(Symbols) /\ asset.utterances \in Seq(Said(Symbols))
<1>1. asset.text \in Seq(Symbols)
  BY Zenon DEF Uploads, Symbols
<1>2. asset.utterances \in Seq(Said(Symbols))
  BY Zenon DEF Uploads, Utterances, Said, Symbols
<1>. QED BY <1>1, <1>2

(* Whatever the upload, its rows are as AssetRows has them.                *)
LEMMA AssetRowsOf ==
    ASSUME NEW asset \in Uploads, NEW n \in Nat, NEW r,
           IsAudio(asset) => RolesValid(r, asset.utterances)
    PROVE  AssetRows(SegmentsOf(n, asset, r), n, asset, r)
<1>1. asset.text \in Seq(Symbols) /\ asset.utterances \in Seq(Said(Symbols))
  BY UploadType
<1>2. CASE IsAudio(asset)
  <2>1. \A i \in 1..Len(asset.utterances) : r[i] \in Speakers
    BY <1>1, <1>2 DEF RolesValid, Speakers
  <2>. QED BY <1>1, <1>2, <2>1, RecordingRows, TurnsLast
<1>3. CASE ~IsAudio(asset)
  <2>. DEFINE V == Symbols \union {BROKEN}
  <2>1. asset.text \in Seq(V) /\ BROKEN \in V
    BY <1>1
  <2>. HIDE DEF V
  <2>. QED BY <1>3, <2>1, TextRows, WindowsAdvance
<1>. QED BY <1>2, <1>3

-----------------------------------------------------------------------------
(* The inductive invariant.                                                *)

(* A submission that was accepted is one of the upload lists, checked      *)
(* against its template.                                                   *)
Accepted ==
    phase \in {"submitted", "segmented", "planned", "exported"} =>
        /\ assets \in UploadLists
        /\ project.domain = DomainOf(project.template)
        /\ \A n \in DOMAIN assets : assets[n].ext \in AllowedExtensions(project.template)

(* The segment rows, asset by asset.                                       *)
Segmented ==
    phase \in {"segmented", "planned", "exported"} =>
        /\ segments # {} /\ Rows(segments)
        /\ \A s \in segments : s.asset \in DOMAIN assets
        /\ \A n \in DOMAIN assets :
               AssetRows({s \in segments : s.asset = n}, n, assets[n], roles[n])

Unlabelled == phase \in {"new", "submitted", "segmented"} => answers = <<>> /\ batches = <<>>

(* The tasks share the rows out, and each batch is what its reply made it. *)
Planned ==
    phase \in {"planned", "exported"} =>
        /\ SharesOut(tasks, segments)
        /\ DOMAIN answers = DOMAIN batches /\ DOMAIN batches \subseteq DOMAIN tasks
        /\ \A t \in DOMAIN batches :
              /\ answers[t] \in Replies
              /\ batches[t] = LabelBatch(tasks[t], answers[t], RequiredFields(project.schema))

Exported ==
    phase = "exported" =>
        /\ DOMAIN batches = DOMAIN tasks
        /\ export.records = Merge(segments, batches, project.domain)
        /\ export.report = QcReport(export.records, segments, RequiredFields(project.schema), project.domain)

IInv == Accepted /\ Segmented /\ Unlabelled /\ Planned /\ Exported

(* The rows of the assets, rows[n] those of as[n], make one table.         *)
EachAsset(rows, N, as, rs) == \A n \in 1..N : AssetRows(rows[n], n, as[n], rs[n])
TableOf(table, rows, N) ==
    /\ Rows(table)
    /\ \A s \in table : s.asset \in 1..N
    /\ \A n \in 1..N : {s \in table : s.asset = n} = rows[n]

(* The table is one of rows with an id each, and holds every asset's own.  *)
LEMMA UnionRows ==
    ASSUME NEW N \in Nat, NEW rows, NEW as, NEW rs, EachAsset(rows, N, as, rs)
    PROVE  TableOf(UNION {rows[n] : n \in 1..N}, rows, N)
<1>. DEFINE parts == {rows[n] : n \in 1..N}
            table == UNION parts
<1>1. \A n \in 1..N : /\ IsFiniteSet(rows[n])
                      /\ \A s \in rows[n] : s.asset = n /\ s.index \in Nat
                      /\ \A s, t \in rows[n] : s.index = t.index => s = t
  BY DEF AssetRows, EachAsset
<1>2. IsFiniteSet(table)
  <2>1. IsFiniteSet(1..N)
    BY FS_Interval
  <2>2. IsFiniteSet(parts)
    <3>. DEFINE f == [n \in 1..N |-> rows[n]]
    <3>1. f \in Surjection(1..N, parts)
      BY DEF Surjection
    <3>. HIDE DEF f, parts
    <3>. QED BY <2>1, <3>1, FS_Surjection
  <2>3. \A part \in parts : IsFiniteSet(part)
    BY <1>1
  <2>. HIDE DEF parts
  <2>. QED BY <2>2, <2>3, FS_UNION
<1>3. \A s \in table : s.asset \in 1..N /\ s.index \in Nat /\ s \in rows[s.asset]
  BY <1>1
<1>4. \A s, t \in table : SegmentId(s) = SegmentId(t) => s = t
  <2>. SUFFICES ASSUME NEW s \in table, NEW t \in table, SegmentId(s) = SegmentId(t)
                PROVE  s = t
    OBVIOUS
  <2>. HIDE DEF table
  <2>1. s.asset = t.asset /\ s.index = t.index
    BY DEF SegmentId
  <2>2. s.asset \in 1..N /\ s \in rows[s.asset] /\ t \in rows[s.asset]
    BY <1>3, <2>1
  <2>. QED BY <1>1, <2>1, <2>2
<1>5. \A n \in 1..N : {s \in table : s.asset = n} = rows[n]
  BY <1>1
<1>6. \A s \in table : s.asset \in Nat
  BY <1>3
<1>7. Rows(table)
  <2>. HIDE DEF table
  <2>. QED BY <1>2, <1>3, <1>4, <1>6 DEF Rows
<1>. HIDE DEF table
<1>. QED BY <1>3, <1>5, <1>7 DEF TableOf, table

-----------------------------------------------------------------------------
(* Its proof.                                                              *)

(* Submit accepts only uploads the template allows                         *)
(* (api/routes/project.py).                                                *)
LEMMA SubmitStep == IInv /\ Submit => IInv'
<1>. SUFFICES ASSUME IInv, Submit PROVE IInv'
  OBVIOUS
<1>. USE DEF IInv
<1>1. phase' \in {"submitted", "refused"} /\ phase = "new"
  BY DEF Submit
<1>2. UNCHANGED <<roles, segments, tasks, answers, batches, export>>
  BY DEF Submit
<1>3. Accepted'
  <2>. SUFFICES ASSUME phase' = "submitted" PROVE Accepted'
    BY <1>1 DEF Accepted
  <2>1. PICK template \in Templates \union {NOTEMPLATE, "unheard_of"},
             override \in Overrides, uploads \in UploadLists :
               /\ Acceptable(template, override, uploads)
               /\ project' = [template |-> template, schema |-> ResolveSchema(template, override),
                              domain |-> DomainOf(template)]
               /\ assets' = uploads
    BY DEF Submit
  <2>2. \A n \in DOMAIN uploads : uploads[n].ext \in AllowedExtensions(template)
    BY <2>1 DEF Acceptable, UploadValid
  <2>. QED BY <2>1, <2>2 DEF Accepted
<1>4. Segmented' /\ Planned' /\ Exported'
  BY <1>1 DEF Segmented, Planned, Exported
<1>5. Unlabelled'
  BY <1>1, <1>2 DEF Unlabelled
<1>. QED BY <1>3, <1>4, <1>5

(* The rows stored for a project are those of its uploads.                 *)
LEMMA PreprocessStep == IInv /\ Preprocess => IInv'
<1>. SUFFICES ASSUME IInv, Preprocess PROVE IInv'
  OBVIOUS
<1>. USE DEF IInv
<1>1. phase' \in {"segmented", "failed"} /\ phase = "submitted"
  BY DEF Preprocess
<1>2. UNCHANGED <<project, assets, tasks, answers, batches, export>>
  BY DEF Preprocess
<1>3. Accepted' /\ Unlabelled' /\ Planned' /\ Exported'
  BY <1>1, <1>2 DEF Accepted, Unlabelled, Planned, Exported
<1>4. Segmented'
  <2>. SUFFICES ASSUME phase' = "segmented" PROVE Segmented'
    BY <1>1 DEF Segmented
  <2>1. PICK chosen :
          LET speakers(n) ==
                IF IsAudio(assets[n]) THEN SubSeq(chosen[n], 1, Len(assets[n].utterances)) ELSE <<>>
              rows == UNION {SegmentsOf(n, assets[n], speakers(n)) : n \in DOMAIN assets}
          IN  /\ \A n \in DOMAIN assets : Extractable(assets[n], speakers(n))
              /\ rows # {} /\ segments' = rows /\ roles' = [n \in DOMAIN assets |-> speakers(n)]
    BY DEF Preprocess
  <2>. DEFINE speakers(n) ==
                IF IsAudio(assets[n]) THEN SubSeq(chosen[n], 1, Len(assets[n].utterances)) ELSE <<>>
              N == Len(assets)
              rows == [n \in 1..N |-> SegmentsOf(n, assets[n], speakers(n))]
              rs == [n \in 1..N |-> speakers(n)]
  <2>2. assets \in Seq(Uploads)
    BY <1>1, UploadsAreLists DEF Accepted
  <2>. HIDE DEF speakers
  <2>3. N \in Nat /\ DOMAIN assets = 1..N /\ \A n \in 1..N : assets[n] \in Uploads
    BY <2>2
  <2>4. /\ \A n \in 1..N : Extractable(assets[n], speakers(n))
        /\ segments' = UNION {SegmentsOf(n, assets[n], speakers(n)) : n \in 1..N}
        /\ segments' # {} /\ roles' = rs
    BY <2>1, <2>3 DEF speakers
  <2>5. ASSUME NEW n \in 1..N PROVE AssetRows(rows[n], n, assets[n], rs[n])
    <3>1. assets[n] \in Uploads /\ n \in Nat
      BY <2>3
    <3>2. IsAudio(assets[n]) => RolesValid(speakers(n), assets[n].utterances)
      BY <2>4 DEF Extractable
    <3>3. AssetRows(SegmentsOf(n, assets[n], speakers(n)), n, assets[n], speakers(n))
      BY <3>1, <3>2, AssetRowsOf
    <3>. QED BY <3>3
  <2>6. segments' = UNION {rows[n] : n \in 1..N}
    BY <2>4
  <2>. HIDE DEF rows, rs, N
  <2>7. /\ Rows(segments') /\ \A s \in segments' : s.asset \in 1..N
        /\ \A n \in 1..N : {s \in segments' : s.asset = n} = rows[n]
    <3>1. EachAsset(rows, N, assets, rs)
      BY <2>5 DEF EachAsset
    <3>2. TableOf(UNION {rows[n] : n \in 1..N}, rows, N)
      BY <2>3, <3>1, UnionRows
    <3>. QED BY <2>6, <3>2 DEF TableOf
  <2>8. \A n \in 1..N : AssetRows({s \in segments' : s.asset = n}, n, assets[n], rs[n])
    BY <2>5, <2>7
  <2>9. assets' = assets
    BY <1>2
  <2>10. /\ \A s \in segments' : s.asset \in DOMAIN assets'
         /\ \A n \in DOMAIN assets' :
               AssetRows({s \in segments' : s.asset = n}, n, assets'[n], roles'[n])
    BY <2>3, <2>4, <2>7, <2>8, <2>9
  <2>. QED BY <2>4, <2>7, <2>10 DEF Segmented
<1>. QED BY <1>3, <1>4

(* The tasks made of a table share it out (task_builder.py).               *)
LEMMA PlanStep == IInv /\ Plan => IInv'
<1>. SUFFICES ASSUME IInv, Plan PROVE IInv'
  OBVIOUS
<1>. USE DEF IInv
<1>1. phase' \in {"planned", "failed"} /\ phase = "segmented"
  BY DEF Plan
<1>2. UNCHANGED <<project, assets, roles, segments, answers, batches, export>>
  BY DEF Plan
<1>3. Accepted' /\ Segmented' /\ Unlabelled' /\ Exported'
  BY <1>1, <1>2 DEF Accepted, Segmented, Unlabelled, Exported
<1>4. Planned'
  <2>. SUFFICES ASSUME phase' = "planned" PROVE Planned'
    BY <1>1 DEF Planned
  <2>1. PICK setting \in TaskSizes :
          tasks' = BuildTasks(segments,
                              IF setting = 0 THEN SegmentsPerTask(project.template) ELSE setting)
    BY DEF Plan
  <2>. DEFINE size == IF setting = 0 THEN SegmentsPerTask(project.template) ELSE setting
  <2>2. size \in Nat \ {0}
    <3>1. SegmentsPerTask(project.template) \in {1, 3, 5}
      BY DEF SegmentsPerTask
    <3>. QED BY <3>1, TaskSizesFit
  <2>3. Rows(segments) /\ segments # {}
    BY <1>1 DEF Segmented
  <2>4. SharesOut(BuildTasks(segments, size), segments)
    <3>. HIDE DEF size
    <3>. QED BY <2>2, <2>3, TasksShareOut
  <2>5. SharesOut(tasks', segments')
    BY <1>2, <2>1, <2>4
  <2>6. answers' = <<>> /\ batches' = <<>>
    BY <1>1, <1>2 DEF Unlabelled
  <2>. QED BY <2>5, <2>6 DEF Planned
<1>. QED BY <1>3, <1>4

(* Labelling a task adds its batch and leaves the others alone             *)
(* (labeler.py).                                                           *)
LEMMA LabelStep == ASSUME NEW t \in DOMAIN tasks PROVE IInv /\ Label(t) => IInv'
<1>. SUFFICES ASSUME IInv, Label(t) PROVE IInv'
  OBVIOUS
<1>. USE DEF IInv
<1>1. phase' \in {"planned", "failed"} /\ phase = "planned" /\ t \notin DOMAIN batches
  BY DEF Label
<1>2. UNCHANGED <<project, assets, roles, segments, tasks, export>>
  BY DEF Label
<1>3. Accepted' /\ Segmented' /\ Unlabelled' /\ Exported'
  BY <1>1, <1>2 DEF Accepted, Segmented, Unlabelled, Exported
<1>4. Planned'
  <2>. SUFFICES ASSUME phase' = "planned" PROVE Planned'
    BY <1>1 DEF Planned
  <2>. DEFINE required == RequiredFields(project.schema)
  <2>1. PICK reply \in Replies :
            /\ batches' = With(batches, t, LabelBatch(tasks[t], reply, required))
            /\ answers' = With(answers, t, reply)
    BY <1>1 DEF Label
  <2>2. DOMAIN answers = DOMAIN batches
    BY <1>1 DEF Planned
  <2>. DEFINE batch == LabelBatch(tasks[t], reply, required)
  <2>3. /\ DOMAIN batches' = DOMAIN batches \union {t} /\ batches'[t] = batch
        /\ \A u \in DOMAIN batches : batches'[u] = batches[u]
    <3>. HIDE DEF batch, required
    <3>. QED BY <1>1, <2>1 DEF With, batch
  <2>4. /\ DOMAIN answers' = DOMAIN batches' /\ answers'[t] = reply
        /\ \A u \in DOMAIN batches : answers'[u] = answers[u]
    BY <1>1, <2>1, <2>2, <2>3 DEF With
  <2>5. \A u \in DOMAIN batches' :
            answers'[u] \in Replies /\ batches'[u] = LabelBatch(tasks[u], answers'[u], required)
    BY <1>1, <2>3, <2>4 DEF Planned
  <2>6. SharesOut(tasks', segments') /\ DOMAIN batches' \subseteq DOMAIN tasks'
    BY <1>1, <1>2, <2>3 DEF Planned
  <2>. QED BY <1>2, <2>4, <2>5, <2>6 DEF Planned
<1>. QED BY <1>3, <1>4

(* The export is the merge of all batches, and its report (export.py).     *)
LEMMA ExportStep == IInv /\ Export => IInv'
<1>. SUFFICES ASSUME IInv, Export PROVE IInv'
  OBVIOUS
<1>. USE DEF IInv
<1>1. phase' = "exported" /\ phase = "planned" /\ DOMAIN batches = DOMAIN tasks
  BY DEF Export
<1>2. UNCHANGED <<project, assets, roles, segments, tasks, answers, batches>>
  BY DEF Export
<1>3. Accepted' /\ Segmented' /\ Unlabelled' /\ Planned'
  BY <1>1, <1>2 DEF Accepted, Segmented, Unlabelled, Planned
<1>4. Exported'
  BY <1>1, <1>2 DEF Export, Exported
<1>. QED BY <1>3, <1>4

(* IInv is inductive: Init establishes it and every step of Next keeps it. *)
THEOREM DatasetInvariant == Spec => []IInv
<1>1. Init => IInv
  BY DEF Init, IInv, Accepted, Segmented, Unlabelled, Planned, Exported
<1>2. IInv /\ [Next]_vars => IInv'
  <2>. SUFFICES ASSUME IInv, [Next]_vars PROVE IInv'
    OBVIOUS
  <2>1. CASE UNCHANGED vars
    BY <2>1 DEF vars, IInv, Accepted, Segmented, Unlabelled, Planned, Exported
  <2>. QED
    BY <2>1, SubmitStep, PreprocessStep, PlanStep, LabelStep, ExportStep DEF Next
<1>. QED BY <1>1, <1>2, PTL DEF Spec

-----------------------------------------------------------------------------
(* What follows from it.                                                   *)

(* The rows of a text have the offsets of what they hold.                  *)
LEMMA OffsetsOfRows == IInv => OffsetsFaithful
<1>. SUFFICES ASSUME IInv, phase = "segmented", NEW s \in segments,
                     ~IsAudio(assets[s.asset]), s.start # NONE
              PROVE  SubSeq(Strip(assets[s.asset].text), s.start + 1, s.end) = s.content
  BY DEF OffsetsFaithful
<1>. DEFINE n == s.asset
            rows == {r \in segments : r.asset = n}
<1>1. AssetRows(rows, n, assets[n], roles[n])
  BY DEF IInv, Segmented
<1>2. s \in rows
  OBVIOUS
<1>. HIDE DEF rows
<1>. QED BY <1>1, <1>2 DEF AssetRows

(* The rows of a recording hold its transcript.                            *)
LEMMA TranscriptOfRows == IInv => TranscriptKept
<1>. SUFFICES ASSUME IInv, phase = "segmented" PROVE TranscriptKept
  BY DEF TranscriptKept
<1>1. ASSUME NEW n \in DOMAIN assets
      PROVE  AssetRows({s \in segments : s.asset = n}, n, assets[n], roles[n])
  BY DEF IInv, Segmented
<1>2. TurnBounded
  <2>. SUFFICES ASSUME NEW s \in segments, s.utterances > 1 PROVE s.end - s.start <= MaxTurn
    BY DEF TurnBounded
  <2>. DEFINE n == s.asset
              rows == {r \in segments : r.asset = n}
  <2>1. AssetRows(rows, n, assets[n], roles[n])
    BY <1>1 DEF IInv, Segmented
  <2>2. s \in rows
    OBVIOUS
  <2>. HIDE DEF rows
  <2>. QED BY <2>1, <2>2 DEF AssetRows
<1>3. ASSUME NEW n \in DOMAIN assets, IsAudio(assets[n])
      PROVE  SaysAs(SegmentsOfAsset(n), assets[n].utterances, roles[n])
  BY <1>1, <1>3 DEF AssetRows, SegmentsOfAsset
<1>. QED BY <1>2, <1>3 DEF TranscriptKept, SaysAs, Tag

(* The rows of a text hold all of it.                                      *)
LEMMA TextOfRows == IInv => NothingLost
<1>. SUFFICES ASSUME IInv, phase = "segmented", OverlapSuffices, NEW n \in DOMAIN assets, ~IsAudio(assets[n])
              PROVE  Keeps(SegmentsOfAsset(n), assets[n])
  BY DEF NothingLost, Keeps
<1>1. AssetRows({s \in segments : s.asset = n}, n, assets[n], roles[n])
  BY DEF IInv, Segmented
<1>. QED BY <1>1 DEF AssetRows, SegmentsOfAsset

(* Only recordings are accepted in the audio domain.                       *)
LEMMA AudioDomain ==
    ASSUME NEW template, NEW asset, DomainOf(template) = "audio",
           asset.ext \in AllowedExtensions(template)
    PROVE  IsAudio(asset)
<1>1. template = "support_call_audio"
  BY DEF DomainOf
<1>. QED BY <1>1 DEF AllowedExtensions, IsAudio

(* The records and the report of an export.                                *)
LEMMA ExportHolds ==
    ASSUME IInv, phase = "exported"
    PROVE  /\ Complete(export.records, segments, tasks, batches, project.domain,
                       RequiredFields(project.schema))
           /\ Reported(export.report, export.records, segments)
           /\ \A t \in DOMAIN tasks :
                 Labels(batches[t], tasks[t],
                        ParseReply(answers[t], Len(tasks[t]), RequiredFields(project.schema)),
                        RequiredFields(project.schema))
<1>. DEFINE required == RequiredFields(project.schema)
            domain == project.domain
<1>. HIDE DEF required, domain
<1>1. /\ DOMAIN batches = DOMAIN tasks
      /\ export.records = Merge(segments, batches, domain)
      /\ export.report = QcReport(export.records, segments, required, domain)
  BY DEF IInv, Exported, required, domain
<1>2. SharesOut(tasks, segments)
  BY DEF IInv, Planned
<1>3. Rows(segments) /\ segments # {}
  BY DEF IInv, Segmented
<1>4. ASSUME NEW t \in DOMAIN tasks
      PROVE  Labels(batches[t], tasks[t], ParseReply(answers[t], Len(tasks[t]), required), required)
  <2>1. answers[t] \in Seq(Items) /\ batches[t] = LabelBatch(tasks[t], answers[t], required)
    BY <1>1, RepliesAreLists DEF IInv, Planned, required
  <2>2. Len(tasks[t]) \in Nat \ {0} /\ DOMAIN tasks[t] = 1..Len(tasks[t])
    BY <1>2 DEF SharesOut
  <2>. QED BY <2>1, <2>2, LabelBatchLabels
<1>5. Labelled(batches, tasks, required)
  <2>1. ASSUME NEW t \in DOMAIN batches
        PROVE  /\ DOMAIN batches[t].labels = {tasks[t][k] : k \in DOMAIN tasks[t]}
               /\ \A k \in DOMAIN tasks[t] : DOMAIN batches[t].labels[tasks[t][k]] = required
               /\ batches[t].confidence \in Nat
    BY <1>1, <1>4 DEF Labels
  <2>. QED BY <2>1 DEF Labelled
<1>6. Complete(Merge(segments, batches, domain), segments, tasks, batches, domain, required)
  BY <1>1, <1>2, <1>3, <1>5, MergeCompletes
<1>7. Complete(export.records, segments, tasks, batches, domain, required)
  BY <1>1, <1>6
<1>9. ASSUME domain = "audio", NEW s \in segments PROVE s.content # <<>>
  <2>. DEFINE n == s.asset
              rows == {r \in segments : r.asset = n}
  <2>1. s \in rows /\ n \in DOMAIN assets /\ AssetRows(rows, n, assets[n], roles[n])
    BY DEF IInv, Segmented
  <2>2. IsAudio(assets[n])
    BY <1>9, <2>1, AudioDomain DEF IInv, Accepted, domain
  <2>. HIDE DEF rows
  <2>. QED BY <2>1, <2>2 DEF AssetRows
<1>8. Reported(QcReport(export.records, segments, required, domain), export.records, segments)
  BY <1>3, <1>7, <1>9, QcReports
<1>. QED BY <1>1, <1>4, <1>7, <1>8 DEF required, domain

(* The rows a table lists are its own.                                     *)
LEMMA Listed ==
    ASSUME NEW S, Rows(S)
    PROVE  /\ DOMAIN InOrder(S) = 1..Cardinality(S)
           /\ \A i \in 1..Cardinality(S) : InOrder(S)[i] \in S
           /\ \A s \in S : \E i \in 1..Cardinality(S) : InOrder(S)[i] = s
BY InOrderLists DEF Lists

(* The merge of a batch for each task is complete, and timed if audio.     *)
LEMMA ExportOfRows == IInv => ExportComplete
<1>. SUFFICES ASSUME IInv, phase = "exported" PROVE ExportComplete
  BY DEF ExportComplete
<1>. DEFINE required == RequiredFields(project.schema)
            domain == project.domain
            records == export.records
            N == Cardinality(segments)
            q == InOrder(segments)
<1>1. /\ Complete(records, segments, tasks, batches, domain, required)
      /\ Reported(export.report, records, segments)
  BY ExportHolds
<1>2. DOMAIN q = 1..N /\ \A i \in 1..N : q[i] \in segments
  BY Listed DEF IInv, Segmented
<1>. HIDE DEF q, N
<1>3. /\ DOMAIN records = 1..N
      /\ \A i \in 1..N :
           /\ records[i].segment = SegmentId(q[i])
           /\ DOMAIN records[i].labels = required
           /\ records[i].ms # <<>> => domain = "audio" /\ records[i].speaker = q[i].speaker
  BY <1>1 DEF Complete, q, N
<1>4. [i \in DOMAIN records |-> records[i].segment] = [i \in DOMAIN q |-> SegmentId(q[i])]
  BY <1>2, <1>3
<1>5. ASSUME NEW i \in DOMAIN records PROVE required \subseteq DOMAIN records[i].labels
  BY <1>3
<1>6. ASSUME NEW i \in DOMAIN records, records[i].ms # <<>>
      PROVE  IsAudio(assets[records[i].segment[1]]) /\ records[i].speaker # "none"
  <2>. DEFINE s == q[i]
              n == s.asset
  <2>1. s \in segments /\ records[i].segment = SegmentId(s)
        /\ domain = "audio" /\ records[i].speaker = s.speaker
    BY <1>2, <1>3, <1>6
  <2>. HIDE DEF s
  <2>2. records[i].segment[1] = n
    BY <2>1 DEF SegmentId
  <2>3. n \in DOMAIN assets /\ AssetRows({r \in segments : r.asset = n}, n, assets[n], roles[n])
    BY <2>1 DEF IInv, Segmented
  <2>4. IsAudio(assets[n])
    BY <2>1, <2>3, AudioDomain DEF IInv, Accepted
  <2>5. s.speaker \in Speakers
    BY <2>1, <2>3, <2>4 DEF AssetRows
  <2>. QED BY <2>1, <2>2, <2>4, <2>5 DEF Speakers
<1>7. TimingsTrue
  BY <1>6 DEF TimingsTrue
<1>8. export.report.flags \subseteq {"low_confidence_segments"}
  BY <1>1 DEF Reported
<1>. QED BY <1>4, <1>5, <1>7, <1>8 DEF ExportComplete, q

(* A position below the threshold pulls its whole batch below it.          *)
LEMMA SuspectsOfRows == IInv => SuspectsFlagged
<1>. SUFFICES ASSUME IInv, phase = "exported", NEW t \in DOMAIN tasks
              PROVE  LET parsed == ParseReply(answers[t], Len(tasks[t]), RequiredFields(project.schema))
                     IN  \A i \in DOMAIN tasks[t] :
                            parsed[i].confidence < LOW_CONFIDENCE_THRESHOLD =>
                                tasks[t][i] \in export.report.low
  BY DEF SuspectsFlagged
<1>. DEFINE required == RequiredFields(project.schema)
            parsed == ParseReply(answers[t], Len(tasks[t]), required)
            records == export.records
            N == Cardinality(segments)
            q == InOrder(segments)
<1>. SUFFICES ASSUME NEW i \in DOMAIN tasks[t], parsed[i].confidence < LOW_CONFIDENCE_THRESHOLD
              PROVE  tasks[t][i] \in export.report.low
  OBVIOUS
<1>1. /\ Complete(records, segments, tasks, batches, project.domain, required)
      /\ Reported(export.report, records, segments)
      /\ Labels(batches[t], tasks[t], parsed, required)
  BY ExportHolds
<1>2. /\ DOMAIN q = 1..N /\ \A s \in segments : \E j \in 1..N : q[j] = s
  BY Listed DEF IInv, Segmented
<1>. HIDE DEF parsed, required
<1>3. SharesOut(tasks, segments)
  BY DEF IInv, Planned
<1>4. PICK s \in segments : tasks[t][i] = SegmentId(s)
  BY <1>3 DEF SharesOut
<1>5. PICK j \in 1..N : q[j] = s
  BY <1>2
<1>6. /\ records[j].segment = SegmentId(s)
      /\ \E u \in DOMAIN tasks : \E k \in DOMAIN tasks[u] :
            records[j].segment = tasks[u][k] /\ records[j].confidence = batches[u].confidence
  BY <1>1, <1>5 DEF Complete
<1>7. PICK u \in DOMAIN tasks : \E k \in DOMAIN tasks[u] :
            records[j].segment = tasks[u][k] /\ records[j].confidence = batches[u].confidence
  BY <1>6
<1>8. u = t
  BY <1>3, <1>4, <1>6, <1>7 DEF SharesOut
<1>9. batches[t].confidence <= parsed[i].confidence /\ parsed[i].confidence \in Nat
  BY <1>1 DEF Labels
<1>10. records[j].confidence < LOW_CONFIDENCE_THRESHOLD
  BY <1>1, <1>7, <1>8, <1>9 DEF Labels, LOW_CONFIDENCE_THRESHOLD
<1>. QED BY <1>1, <1>4, <1>6, <1>10 DEF Reported

(* The offsets a text segment carries delimit its content in the stripped  *)
(* text, whatever the text, the kind of file, the size and overlap of the  *)
(* windows, and how many tokens a symbol takes (segment_text).             *)
THEOREM OffsetsAreFaithful == Spec => []OffsetsFaithful
BY DatasetInvariant, OffsetsOfRows, PTL

(* The segments of a text contain all its symbols in order, whatever the   *)
(* text, the kind of file, the size of the windows and the tokens that     *)
(* symbols take, as long as the overlap is no less than the tokens of any  *)
(* symbol but one (OverlapSuffices): a symbol whose tokens a window cuts   *)
(* apart is whole in the next one (_token_windows, segment_text).          *)
THEOREM NothingIsLost == Spec => []NothingLost
BY DatasetInvariant, TextOfRows, PTL

(* No word of a recording is lost, doubled, moved or given to the other    *)
(* speaker by merging and cutting turns, whatever the utterances and their *)
(* times, and a merged turn keeps to the limit (build_speaker_turns).      *)
THEOREM TranscriptsAreKept == Spec => []TranscriptKept
BY DatasetInvariant, TranscriptOfRows, PTL

(* An exported project holds each of its segments once, in order, with all *)
(* required labels and its own times and speaker, and its report raises no *)
(* flag of incompleteness: for any uploads, task size and replies          *)
(* (task_builder.py, labeler.py, merge.py, export.py).                     *)
THEOREM ExportsAreComplete == Spec => []ExportComplete
BY DatasetInvariant, ExportOfRows, PTL

(* A segment that was labelled with less confidence than the threshold is  *)
(* listed in the report, although a batch stores one confidence only       *)
(* (batch_confidence, build_qc_report).                                    *)
THEOREM SuspectsAreFlagged == Spec => []SuspectsFlagged
BY DatasetInvariant, SuspectsOfRows, PTL
=============================================================================
