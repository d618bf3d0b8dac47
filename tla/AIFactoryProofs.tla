--------------------------- MODULE AIFactoryProofs ---------------------------
(***************************************************************************)
(* Proofs about AIFactory, for any model ids, requests and sample texts:    *)
(* the worker counts what it transcribed, each sample is scored by the text  *)
(* its own request was answered with, and what _edit_distance computes for   *)
(* that score is the least number of edits, for sequences of any length.     *)
(***************************************************************************)
EXTENDS AIFactory, FiniteSetTheorems, SequenceTheorems, WellFoundedInduction, TLAPS

------------------------------------------------------------------------------
(* Least elements *)

\* Every non-empty set of natural numbers has one: what takes the place of
\* induction in the proofs about recursive functions below.
LEMMA LeastNatural ==
    ASSUME NEW T \in SUBSET Nat, T # {}
    PROVE  \E n \in T : \A m \in T : n <= m
<1> DEFINE R == OpToRel(<, Nat)
<1>1. IsWellFoundedOn(R, Nat)
  BY NatLessThanWellFounded
<1>2. PICK n \in T : \A m \in T : ~ (<<m, n>> \in R)
  <2> HIDE DEF R
  <2> QED  BY <1>1, WFMin
<1>3. \A m \in T : ~ (m < n)
  BY <1>2 DEF OpToRel
<1> QED  BY <1>3

\* Min names the least element where there is one.
LEMMA MinIsLeast ==
    ASSUME NEW T \in SUBSET Nat, T # {}
    PROVE  Min(T) \in T /\ \A m \in T : Min(T) <= m
BY LeastNatural DEF Min

------------------------------------------------------------------------------
(* Alignments of prefixes, and what they cost *)

\* No two lines of an alignment cross.
Ordered(m) == \A p, q \in m : (p[1] < q[1]) = (p[2] < q[2])

\* The alignments of the first i places of one sequence with the first j of another.
Aligned(i, j) == {m \in SUBSET ((1..i) \X (1..j)) : Ordered(m)}

\* The places that face something else.
Substituted(a, b, m) == {p \in m : a[p[1]] # b[p[2]]}

\* The edits an alignment stands for.
Edits(a, b, i, j, m) == i + j - 2 * Cardinality(m) + Cardinality(Substituted(a, b, m))

AllEdits(a, b, i, j) == {Edits(a, b, i, j, m) : m \in Aligned(i, j)}

Least(a, b, i, j) == Min(AllEdits(a, b, i, j))

LEMMA OrderedPairs ==
    ASSUME NEW i \in Nat, NEW j \in Nat, NEW m \in Aligned(i, j), NEW p \in m, NEW q \in m
    PROVE  /\ p[1] \in 1..i /\ p[2] \in 1..j /\ p = <<p[1], p[2]>>
           /\ p[1] < q[1] <=> p[2] < q[2]
           /\ p[1] = q[1] <=> p[2] = q[2]
           /\ p[1] = q[1] => p = q
<1>1. /\ p[1] \in 1..i /\ p[2] \in 1..j /\ p = <<p[1], p[2]>>
      /\ q[1] \in 1..i /\ q[2] \in 1..j /\ q = <<q[1], q[2]>>
  BY DEF Aligned
<1>2. (p[1] < q[1] <=> p[2] < q[2]) /\ (q[1] < p[1] <=> q[2] < p[2])
  BY DEF Aligned, Ordered
<1>3. p[1] = q[1] <=> p[2] = q[2]
  BY <1>1, <1>2
<1> QED  BY <1>1, <1>2, <1>3

\* An alignment has at most as many lines as either side has places.
LEMMA AlignedSize ==
    ASSUME NEW i \in Nat, NEW j \in Nat, NEW m \in Aligned(i, j)
    PROVE  /\ IsFiniteSet(m) /\ Cardinality(m) \in Nat
           /\ Cardinality(m) <= i /\ Cardinality(m) <= j
<1>1. /\ IsFiniteSet(1..i) /\ Cardinality(1..i) = i
      /\ IsFiniteSet(1..j) /\ Cardinality(1..j) = j
  <2>1. /\ IsFiniteSet(1..i) /\ Cardinality(1..i) = IF 1 > i THEN 0 ELSE i - 1 + 1
        /\ IsFiniteSet(1..j) /\ Cardinality(1..j) = IF 1 > j THEN 0 ELSE j - 1 + 1
    BY FS_Interval
  <2> QED  BY <2>1
<1> DEFINE f == [p \in m |-> p[1]]
           g == [p \in m |-> p[2]]
<1>2. f \in Injection(m, 1..i) /\ g \in Injection(m, 1..j)
  BY OrderedPairs DEF Injection, IsInjective
<1> HIDE DEF f, g
<1>3. IsFiniteSet(m) /\ Cardinality(m) <= Cardinality(1..i) /\ Cardinality(m) <= Cardinality(1..j)
  BY <1>1, <1>2, FS_Injection
<1>4. Cardinality(m) \in Nat
  BY <1>3, FS_CardinalityType
<1> QED  BY <1>1, <1>3, <1>4

LEMMA EditsIsNat ==
    ASSUME NEW a, NEW b, NEW i \in Nat, NEW j \in Nat, NEW m \in Aligned(i, j)
    PROVE  /\ Cardinality(Substituted(a, b, m)) \in Nat
           /\ Edits(a, b, i, j, m) \in Nat
<1>1. /\ IsFiniteSet(m) /\ Cardinality(m) \in Nat
      /\ Cardinality(m) <= i /\ Cardinality(m) <= j
  BY AlignedSize
<1>2. IsFiniteSet(Substituted(a, b, m))
  <2>1. Substituted(a, b, m) \subseteq m
    BY DEF Substituted
  <2> QED  BY <1>1, <2>1, FS_Subset
<1>3. Cardinality(Substituted(a, b, m)) \in Nat
  BY <1>2, FS_CardinalityType
<1> QED  BY <1>1, <1>3 DEF Edits

LEMMA LeastIsLeast ==
    ASSUME NEW a, NEW b, NEW i \in Nat, NEW j \in Nat
    PROVE  /\ Least(a, b, i, j) \in Nat
           /\ \E m \in Aligned(i, j) : Least(a, b, i, j) = Edits(a, b, i, j, m)
           /\ \A m \in Aligned(i, j) : Least(a, b, i, j) <= Edits(a, b, i, j, m)
<1>1. {} \in Aligned(i, j)
  BY DEF Aligned, Ordered
<1>2. AllEdits(a, b, i, j) \in SUBSET Nat /\ AllEdits(a, b, i, j) # {}
  BY <1>1, EditsIsNat DEF AllEdits
<1>3. /\ Least(a, b, i, j) \in AllEdits(a, b, i, j)
      /\ \A n \in AllEdits(a, b, i, j) : Least(a, b, i, j) <= n
  BY <1>2, MinIsLeast DEF Least
<1> QED  BY <1>2, <1>3 DEF AllEdits

\* A line between equal elements costs nothing, any other a substitution.
Differ(x, y) == IF x = y THEN 0 ELSE 1

LEMMA DifferIs ==
    ASSUME NEW x, NEW y
    PROVE  Differ(x, y) \in {0, 1} /\ (x = y <=> Differ(x, y) = 0)
BY DEF Differ

\* A line more, and what it costs.
LEMMA LineAdded ==
    ASSUME NEW a, NEW b, NEW m, IsFiniteSet(m), NEW p, p \notin m
    PROVE  /\ Cardinality(m \union {p}) = Cardinality(m) + 1
           /\ Cardinality(Substituted(a, b, m \union {p})) =
                  Cardinality(Substituted(a, b, m)) + Differ(a[p[1]], b[p[2]])
<1> DEFINE s == Substituted(a, b, m)
<1>1. Cardinality(m \union {p}) = Cardinality(m) + 1
  BY FS_AddElement
<1>2. s \subseteq m /\ p \notin s
  BY DEF Substituted
<1>3. IsFiniteSet(s)
  BY <1>2, FS_Subset
<1>4. Cardinality(s) \in Nat
  BY <1>3, FS_CardinalityType
<1>5. CASE a[p[1]] = b[p[2]]
  <2>1. Substituted(a, b, m \union {p}) = s
    BY <1>5 DEF Substituted
  <2> QED  BY <1>1, <1>4, <1>5, <2>1 DEF Differ
<1>6. CASE a[p[1]] # b[p[2]]
  <2>1. Substituted(a, b, m \union {p}) = s \union {p}
    BY <1>6 DEF Substituted
  <2> HIDE DEF s
  <2>2. Cardinality(s \union {p}) = Cardinality(s) + 1
    BY <1>2, <1>3, FS_AddElement
  <2> QED  BY <1>1, <1>6, <2>1, <2>2 DEF s, Differ
<1> QED  BY <1>5, <1>6

\* One of the sequences a place longer: the place is deleted or inserted.
LEMMA Longer ==
    ASSUME NEW a, NEW b, NEW i \in Nat, NEW j \in Nat, NEW m \in Aligned(i, j)
    PROVE  /\ m \in Aligned(i + 1, j) /\ m \in Aligned(i, j + 1)
           /\ Edits(a, b, i + 1, j, m) = Edits(a, b, i, j, m) + 1
           /\ Edits(a, b, i, j + 1, m) = Edits(a, b, i, j, m) + 1
<1>1. m \in Aligned(i + 1, j) /\ m \in Aligned(i, j + 1)
  BY DEF Aligned
<1>2. Cardinality(m) \in Nat /\ Cardinality(Substituted(a, b, m)) \in Nat
  BY AlignedSize, EditsIsNat
<1>3. /\ Edits(a, b, i + 1, j, m) = Edits(a, b, i, j, m) + 1
      /\ Edits(a, b, i, j + 1, m) = Edits(a, b, i, j, m) + 1
  BY <1>2 DEF Edits
<1> QED  BY <1>1, <1>3

\* Both a place longer, and a line between the new places.
LEMMA Joined ==
    ASSUME NEW a, NEW b, NEW i \in Nat, NEW j \in Nat, NEW m \in Aligned(i, j)
    PROVE  /\ m \union {<<i + 1, j + 1>>} \in Aligned(i + 1, j + 1)
           /\ Edits(a, b, i + 1, j + 1, m \union {<<i + 1, j + 1>>}) =
                  Edits(a, b, i, j, m) + Differ(a[i + 1], b[j + 1])
<1> DEFINE p == <<i + 1, j + 1>>
<1>1. Cardinality(m) \in Nat /\ Cardinality(Substituted(a, b, m)) \in Nat /\ IsFiniteSet(m)
  BY AlignedSize, EditsIsNat
<1>2. \A q \in m : q[1] \in 1..i /\ q[2] \in 1..j
  BY OrderedPairs
<1>3. p \notin m
  BY <1>2
<1>4. m \union {p} \in Aligned(i + 1, j + 1)
  <2>1. m \union {p} \subseteq (1..(i + 1)) \X (1..(j + 1))
    BY DEF Aligned
  <2>2. Ordered(m \union {p})
    <3> SUFFICES ASSUME NEW q \in m \union {p}, NEW r \in m \union {p}
                 PROVE  (q[1] < r[1]) = (q[2] < r[2])
      BY DEF Ordered
    <3>1. CASE q \in m /\ r \in m
      BY <3>1 DEF Aligned, Ordered
    <3>2. CASE q = p /\ r \in m
      BY <3>2, <1>2
    <3>3. CASE q \in m /\ r = p
      BY <3>3, <1>2
    <3>4. CASE q = p /\ r = p
      BY <3>4
    <3> QED  BY <3>1, <3>2, <3>3, <3>4
  <2> QED  BY <2>1, <2>2 DEF Aligned
<1>5. /\ Cardinality(m \union {p}) = Cardinality(m) + 1
      /\ Cardinality(Substituted(a, b, m \union {p})) =
             Cardinality(Substituted(a, b, m)) + Differ(a[i + 1], b[j + 1])
  <2>1. p[1] = i + 1 /\ p[2] = j + 1
    OBVIOUS
  <2> HIDE DEF p
  <2> QED  BY <1>1, <1>3, <2>1, LineAdded
<1> HIDE DEF p
<1>6. Edits(a, b, i + 1, j + 1, m \union {p}) = Edits(a, b, i, j, m) + Differ(a[i + 1], b[j + 1])
  BY <1>1, <1>5, DifferIs DEF Edits
<1> QED  BY <1>4, <1>6 DEF p

\* What is left of an alignment without one of its lines.
LEMMA LineRemoved ==
    ASSUME NEW a, NEW b, NEW i \in Nat, NEW j \in Nat, NEW m \in Aligned(i, j), NEW p \in m
    PROVE  /\ m \ {p} \in Aligned(i, j)
           /\ Edits(a, b, i, j, m \ {p}) =
                  Edits(a, b, i, j, m) + 2 - Differ(a[p[1]], b[p[2]])
<1> DEFINE n == m \ {p}
<1>1. n \in Aligned(i, j)
  BY DEF Aligned, Ordered
<1>2. Cardinality(n) \in Nat /\ Cardinality(Substituted(a, b, n)) \in Nat /\ IsFiniteSet(n)
  BY <1>1, AlignedSize, EditsIsNat
<1>3. p \notin n /\ m = n \union {p}
  OBVIOUS
<1> HIDE DEF n
<1>4. /\ Cardinality(m) = Cardinality(n) + 1
      /\ Cardinality(Substituted(a, b, m)) =
             Cardinality(Substituted(a, b, n)) + Differ(a[p[1]], b[p[2]])
  BY <1>2, <1>3, LineAdded
<1>5. Edits(a, b, i, j, n) = Edits(a, b, i, j, m) + 2 - Differ(a[p[1]], b[p[2]])
  BY <1>2, <1>4, DifferIs DEF Edits
<1> QED  BY <1>1, <1>5 DEF n

\* An alignment of two sequences joins their last places, or leaves one out.
LEMMA LastPlaces ==
    ASSUME NEW i \in Nat, NEW j \in Nat, NEW m \in Aligned(i + 1, j + 1)
    PROVE  \/ m \in Aligned(i, j + 1)
           \/ m \in Aligned(i + 1, j)
           \/ <<i + 1, j + 1>> \in m /\ m \ {<<i + 1, j + 1>>} \in Aligned(i, j)
<1>0. i + 1 \in Nat /\ j + 1 \in Nat
  OBVIOUS
<1>1. \A p \in m : p[1] \in 1..(i + 1) /\ p[2] \in 1..(j + 1) /\ p = <<p[1], p[2]>>
  BY <1>0, OrderedPairs
<1>2. \A p, q \in m : /\ p[1] < q[1] <=> p[2] < q[2]
                      /\ p[1] = q[1] <=> p[2] = q[2]
                      /\ p[1] = q[1] => p = q
  BY <1>0, OrderedPairs
<1>3. CASE \A p \in m : p[1] # i + 1
  <2>1. \A p \in m : p \in (1..i) \X (1..(j + 1))
    <3> SUFFICES ASSUME NEW p \in m
                 PROVE  p[1] \in 1..i /\ p[2] \in 1..(j + 1) /\ p = <<p[1], p[2]>>
      OBVIOUS
    <3> QED  BY <1>1, <1>3
  <2> QED  BY <2>1 DEF Aligned
<1>4. CASE \A p \in m : p[2] # j + 1
  <2>1. \A p \in m : p \in (1..(i + 1)) \X (1..j)
    <3> SUFFICES ASSUME NEW p \in m
                 PROVE  p[1] \in 1..(i + 1) /\ p[2] \in 1..j /\ p = <<p[1], p[2]>>
      OBVIOUS
    <3> QED  BY <1>1, <1>4
  <2> QED  BY <2>1 DEF Aligned
<1>5. ASSUME NEW p \in m, p[1] = i + 1, NEW q \in m, q[2] = j + 1
      PROVE  <<i + 1, j + 1>> \in m /\ m \ {<<i + 1, j + 1>>} \in Aligned(i, j)
  <2>1. ~(q[1] < p[1])
    <3>1. ~(q[2] < p[2])
      BY <1>1, <1>5
    <3> QED  BY <1>2, <3>1
  <2>2. p[2] = j + 1
    <3>1. q[1] = p[1]
      BY <1>1, <1>5, <2>1
    <3> QED  BY <1>2, <1>5, <3>1
  <2>3. p = <<i + 1, j + 1>>
    BY <1>1, <1>5, <2>2
  <2>4. \A r \in m \ {p} : r \in (1..i) \X (1..j)
    <3> SUFFICES ASSUME NEW r \in m, r # p
                 PROVE  r[1] \in 1..i /\ r[2] \in 1..j /\ r = <<r[1], r[2]>>
      OBVIOUS
    <3>1. r[1] # i + 1 /\ r[2] # j + 1
      BY <1>2, <1>5, <2>2
    <3> QED  BY <1>1, <3>1
  <2>5. Ordered(m \ {p})
    BY DEF Aligned, Ordered
  <2> QED  BY <2>3, <2>4, <2>5 DEF Aligned
<1> QED  BY <1>3, <1>4, <1>5

\* A sequence a place longer needs at most one edit less.
LEMMA OnePlaceLess ==
    ASSUME NEW a, NEW b, NEW i \in Nat, NEW j \in Nat
    PROVE  /\ Least(a, b, i, j) <= Least(a, b, i + 1, j) + 1
           /\ Least(a, b, i, j) <= Least(a, b, i, j + 1) + 1
<1>0. i + 1 \in Nat /\ j + 1 \in Nat
  OBVIOUS
<1>1. /\ Least(a, b, i, j) \in Nat /\ Least(a, b, i + 1, j) \in Nat /\ Least(a, b, i, j + 1) \in Nat
      /\ \A m \in Aligned(i, j) : Least(a, b, i, j) <= Edits(a, b, i, j, m)
  BY <1>0, LeastIsLeast
<1>E. \A n \in Aligned(i, j) : /\ Edits(a, b, i + 1, j, n) = Edits(a, b, i, j, n) + 1
                                /\ Edits(a, b, i, j + 1, n) = Edits(a, b, i, j, n) + 1
  BY Longer
<1>2. Least(a, b, i, j) <= Least(a, b, i + 1, j) + 1
  <2>1. PICK m \in Aligned(i + 1, j) : Least(a, b, i + 1, j) = Edits(a, b, i + 1, j, m)
    BY <1>0, LeastIsLeast
  <2>2. ASSUME NEW n \in Aligned(i, j), 
               Edits(a, b, i + 1, j, n) \in {Edits(a, b, i + 1, j, m) + d : d \in 0..2}
        PROVE  Least(a, b, i, j) <= Least(a, b, i + 1, j) + 1
    <3>1. Edits(a, b, i + 1, j, n) = Edits(a, b, i, j, n) + 1
      BY <1>E
    <3>2. Edits(a, b, i, j, n) \in Nat /\ Least(a, b, i, j) <= Edits(a, b, i, j, n)
      BY <1>1, EditsIsNat
    <3> QED  BY <1>1, <2>1, <2>2, <3>1, <3>2
  <2>3. CASE \A p \in m : p[1] # i + 1
    <3>1. m \in Aligned(i, j)
      <4> SUFFICES ASSUME NEW p \in m
                   PROVE  p[1] \in 1..i /\ p[2] \in 1..j /\ p = <<p[1], p[2]>>
        BY DEF Aligned
      <4>1. p[1] \in 1..(i + 1) /\ p[2] \in 1..j /\ p = <<p[1], p[2]>>
        BY <1>0, OrderedPairs
      <4> QED  BY <2>3, <4>1
    <3>2. Edits(a, b, i + 1, j, m) = Edits(a, b, i + 1, j, m) + 0
      BY <1>1, <2>1
    <3> QED  BY <2>2, <3>1, <3>2
  <2>4. ASSUME NEW p \in m, p[1] = i + 1
        PROVE  Least(a, b, i, j) <= Least(a, b, i + 1, j) + 1
    <3>1. m \ {p} \in Aligned(i, j)
      <4> SUFFICES ASSUME NEW q \in m, q # p
                   PROVE  q[1] \in 1..i /\ q[2] \in 1..j /\ q = <<q[1], q[2]>>
        BY DEF Aligned, Ordered
      <4>1. /\ q[1] \in 1..(i + 1) /\ q[2] \in 1..j /\ q = <<q[1], q[2]>>
            /\ p[1] = q[1] => p = q
        BY <1>0, OrderedPairs
      <4> QED  BY <2>4, <4>1
    <3>2. Edits(a, b, i + 1, j, m \ {p}) =
              Edits(a, b, i + 1, j, m) + 2 - Differ(a[p[1]], b[p[2]])
      <4> SUFFICES ASSUME NEW k \in Nat, m \in Aligned(k, j)
                   PROVE  Edits(a, b, k, j, m \ {p}) =
                              Edits(a, b, k, j, m) + 2 - Differ(a[p[1]], b[p[2]])
        BY <1>0
      <4> QED  BY LineRemoved
    <3>3. Differ(a[p[1]], b[p[2]]) \in {0, 1}
      BY DifferIs
    <3>4. Edits(a, b, i + 1, j, m \ {p})
           \in {Edits(a, b, i + 1, j, m) + 1, Edits(a, b, i + 1, j, m) + 2}
      BY <1>1, <2>1, <3>2, <3>3
    <3> QED  BY <2>2, <3>1, <3>4
  <2> QED  BY <2>3, <2>4
<1>3. Least(a, b, i, j) <= Least(a, b, i, j + 1) + 1
  <2>1. PICK m \in Aligned(i, j + 1) : Least(a, b, i, j + 1) = Edits(a, b, i, j + 1, m)
    BY <1>0, LeastIsLeast
  <2>2. ASSUME NEW n \in Aligned(i, j), 
               Edits(a, b, i, j + 1, n) \in {Edits(a, b, i, j + 1, m) + d : d \in 0..2}
        PROVE  Least(a, b, i, j) <= Least(a, b, i, j + 1) + 1
    <3>1. Edits(a, b, i, j + 1, n) = Edits(a, b, i, j, n) + 1
      BY <1>E
    <3>2. Edits(a, b, i, j, n) \in Nat /\ Least(a, b, i, j) <= Edits(a, b, i, j, n)
      BY <1>1, EditsIsNat
    <3> QED  BY <1>1, <2>1, <2>2, <3>1, <3>2
  <2>3. CASE \A p \in m : p[2] # j + 1
    <3>1. m \in Aligned(i, j)
      <4> SUFFICES ASSUME NEW p \in m
                   PROVE  p[1] \in 1..i /\ p[2] \in 1..j /\ p = <<p[1], p[2]>>
        BY DEF Aligned
      <4>1. p[1] \in 1..i /\ p[2] \in 1..(j + 1) /\ p = <<p[1], p[2]>>
        BY <1>0, OrderedPairs
      <4> QED  BY <2>3, <4>1
    <3>2. Edits(a, b, i, j + 1, m) = Edits(a, b, i, j + 1, m) + 0
      BY <1>1, <2>1
    <3> QED  BY <2>2, <3>1, <3>2
  <2>4. ASSUME NEW p \in m, p[2] = j + 1
        PROVE  Least(a, b, i, j) <= Least(a, b, i, j + 1) + 1
    <3>1. m \ {p} \in Aligned(i, j)
      <4> SUFFICES ASSUME NEW q \in m, q # p
                   PROVE  q[1] \in 1..i /\ q[2] \in 1..j /\ q = <<q[1], q[2]>>
        BY DEF Aligned, Ordered
      <4>1. /\ q[1] \in 1..i /\ q[2] \in 1..(j + 1) /\ q = <<q[1], q[2]>>
            /\ p[1] = q[1] <=> p[2] = q[2]
            /\ p[1] = q[1] => p = q
        BY <1>0, OrderedPairs
      <4> QED  BY <2>4, <4>1
    <3>2. Edits(a, b, i, j + 1, m \ {p}) =
              Edits(a, b, i, j + 1, m) + 2 - Differ(a[p[1]], b[p[2]])
      <4> SUFFICES ASSUME NEW k \in Nat, m \in Aligned(i, k)
                   PROVE  Edits(a, b, i, k, m \ {p}) =
                              Edits(a, b, i, k, m) + 2 - Differ(a[p[1]], b[p[2]])
        BY <1>0
      <4> QED  BY LineRemoved
    <3>3. Differ(a[p[1]], b[p[2]]) \in {0, 1}
      BY DifferIs
    <3>4. Edits(a, b, i, j + 1, m \ {p})
           \in {Edits(a, b, i, j + 1, m) + 1, Edits(a, b, i, j + 1, m) + 2}
      BY <1>1, <2>1, <3>2, <3>3
    <3> QED  BY <2>2, <3>1, <3>4
  <2> QED  BY <2>3, <2>4
<1> QED  BY <1>2, <1>3

\* Nothing can be aligned with the empty sequence.
LEMMA NothingAligned ==
    ASSUME NEW a, NEW b, NEW i \in Nat, NEW j \in Nat, i = 0 \/ j = 0
    PROVE  Least(a, b, i, j) = i + j
<1>1. PICK m \in Aligned(i, j) : Least(a, b, i, j) = Edits(a, b, i, j, m)
  BY LeastIsLeast
<1>2. m = {}
  <2> SUFFICES ASSUME NEW p \in m  PROVE FALSE
    OBVIOUS
  <2>1. p[1] \in 1..i /\ p[2] \in 1..j
    BY OrderedPairs
  <2> QED  BY <2>1
<1>3. Cardinality(m) = 0 /\ Cardinality(Substituted(a, b, m)) = 0
  <2>1. Substituted(a, b, m) = {} /\ Cardinality({}) = 0
    BY <1>2, FS_EmptySet DEF Substituted
  <2> QED  BY <1>2, <2>1
<1> QED  BY <1>1, <1>2, <1>3 DEF Edits

\* Two sequences that end alike need the edits of what comes before.
LEMMA LastPlacesAlike ==
    ASSUME NEW a, NEW b, NEW i \in Nat, NEW j \in Nat, a[i + 1] = b[j + 1]
    PROVE  Least(a, b, i + 1, j + 1) = Least(a, b, i, j)
<1>0. i + 1 \in Nat /\ j + 1 \in Nat
  OBVIOUS
<1> DEFINE p == <<i + 1, j + 1>>
           k == Least(a, b, i, j)
           l == Least(a, b, i + 1, j + 1)
<1>D. Differ(a[i + 1], b[j + 1]) = 0
  BY DifferIs
<1>1. k \in Nat /\ l \in Nat
  BY <1>0, LeastIsLeast
<1>2. l <= k
  <2>1. PICK m \in Aligned(i, j) : k = Edits(a, b, i, j, m)
    BY LeastIsLeast
  <2>2. /\ m \union {p} \in Aligned(i + 1, j + 1)
        /\ Edits(a, b, i + 1, j + 1, m \union {p}) = k + Differ(a[i + 1], b[j + 1])
    <3> HIDE DEF k
    <3> QED  BY <2>1, Joined
  <2>3. l <= Edits(a, b, i + 1, j + 1, m \union {p})
    BY <1>0, <2>2, LeastIsLeast
  <2> HIDE DEF k, l
  <2> QED  BY <1>1, <1>D, <2>2, <2>3
<1>3. k <= l
  <2>1. PICK m \in Aligned(i + 1, j + 1) : l = Edits(a, b, i + 1, j + 1, m)
    BY <1>0, LeastIsLeast
  <2>2. CASE m \in Aligned(i, j + 1)
    <3>1. Edits(a, b, i + 1, j + 1, m) = Edits(a, b, i, j + 1, m) + 1
      BY <1>0, <2>2, Longer
    <3>2. Least(a, b, i, j + 1) \in Nat /\ Least(a, b, i, j + 1) <= Edits(a, b, i, j + 1, m)
      BY <1>0, <2>2, LeastIsLeast
    <3>3. k <= Least(a, b, i, j + 1) + 1 /\ Edits(a, b, i, j + 1, m) \in Nat
      BY <1>0, <2>2, OnePlaceLess, EditsIsNat
    <3> HIDE DEF k, l
    <3> QED  BY <1>1, <2>1, <3>1, <3>2, <3>3
  <2>3. CASE m \in Aligned(i + 1, j)
    <3>1. Edits(a, b, i + 1, j + 1, m) = Edits(a, b, i + 1, j, m) + 1
      BY <1>0, <2>3, Longer
    <3>2. Least(a, b, i + 1, j) \in Nat /\ Least(a, b, i + 1, j) <= Edits(a, b, i + 1, j, m)
      BY <1>0, <2>3, LeastIsLeast
    <3>3. k <= Least(a, b, i + 1, j) + 1 /\ Edits(a, b, i + 1, j, m) \in Nat
      BY <1>0, <2>3, OnePlaceLess, EditsIsNat
    <3> HIDE DEF k, l
    <3> QED  BY <1>1, <2>1, <3>1, <3>2, <3>3
  <2>4. CASE p \in m /\ m \ {p} \in Aligned(i, j)
    <3> DEFINE n == m \ {p}
    <3>1. k <= Edits(a, b, i, j, n)
      BY <2>4, LeastIsLeast
    <3>2. Edits(a, b, i + 1, j + 1, n \union {p})
             = Edits(a, b, i, j, n) + Differ(a[i + 1], b[j + 1])
      <4>1. n \in Aligned(i, j)
        BY <2>4
      <4> HIDE DEF n
      <4> QED  BY <4>1, Joined
    <3>3. n \union {p} = m
      BY <2>4
    <3>4. Edits(a, b, i, j, n) \in Nat
      BY <2>4, EditsIsNat
    <3> HIDE DEF k, l, n
    <3> QED  BY <1>1, <1>D, <2>1, <3>1, <3>2, <3>3, <3>4
  <2> QED  BY <2>2, <2>3, <2>4, LastPlaces
<1> HIDE DEF k, l
<1>4. k = l
  BY <1>1, <1>2, <1>3
<1> QED  BY <1>4 DEF k, l

\* Of two that end differently, one last place is deleted, inserted or substituted.
LEMMA LastPlacesDiffer ==
    ASSUME NEW a, NEW b, NEW i \in Nat, NEW j \in Nat, a[i + 1] # b[j + 1]
    PROVE  Least(a, b, i + 1, j + 1) =
               1 + Min({Least(a, b, i, j + 1), Least(a, b, i + 1, j), Least(a, b, i, j)})
<1>0. i + 1 \in Nat /\ j + 1 \in Nat
  OBVIOUS
<1> DEFINE p == <<i + 1, j + 1>>
           l == Least(a, b, i + 1, j + 1)
           T == {Least(a, b, i, j + 1), Least(a, b, i + 1, j), Least(a, b, i, j)}
<1>D. Differ(a[i + 1], b[j + 1]) = 1
  BY DifferIs
<1>1. l \in Nat /\ T \in SUBSET Nat /\ T # {}
  BY <1>0, LeastIsLeast
<1>2. ASSUME NEW t \in T  PROVE l <= 1 + t
  <2>1. CASE t = Least(a, b, i, j + 1)
    <3>1. PICK m \in Aligned(i, j + 1) : t = Edits(a, b, i, j + 1, m)
      BY <1>0, <2>1, LeastIsLeast
    <3>2. m \in Aligned(i + 1, j + 1) /\ Edits(a, b, i + 1, j + 1, m) = t + 1
      BY <1>0, <3>1, Longer
    <3>3. l <= Edits(a, b, i + 1, j + 1, m)
      BY <1>0, <3>2, LeastIsLeast
    <3> HIDE DEF l, T
    <3> QED  BY <1>1, <3>2, <3>3
  <2>2. CASE t = Least(a, b, i + 1, j)
    <3>1. PICK m \in Aligned(i + 1, j) : t = Edits(a, b, i + 1, j, m)
      BY <1>0, <2>2, LeastIsLeast
    <3>2. m \in Aligned(i + 1, j + 1) /\ Edits(a, b, i + 1, j + 1, m) = t + 1
      BY <1>0, <3>1, Longer
    <3>3. l <= Edits(a, b, i + 1, j + 1, m)
      BY <1>0, <3>2, LeastIsLeast
    <3> HIDE DEF l, T
    <3> QED  BY <1>1, <3>2, <3>3
  <2>3. CASE t = Least(a, b, i, j)
    <3>1. PICK m \in Aligned(i, j) : t = Edits(a, b, i, j, m)
      BY <2>3, LeastIsLeast
    <3>2. /\ m \union {p} \in Aligned(i + 1, j + 1)
          /\ Edits(a, b, i + 1, j + 1, m \union {p}) = t + Differ(a[i + 1], b[j + 1])
      BY <3>1, Joined
    <3>3. l <= Edits(a, b, i + 1, j + 1, m \union {p})
      BY <1>0, <3>2, LeastIsLeast
    <3> HIDE DEF l, T
    <3> QED  BY <1>1, <1>D, <3>2, <3>3
  <2> QED  BY <2>1, <2>2, <2>3
<1>3. \E t \in T : 1 + t <= l
  <2>1. PICK m \in Aligned(i + 1, j + 1) : l = Edits(a, b, i + 1, j + 1, m)
    BY <1>0, LeastIsLeast
  <2>2. CASE m \in Aligned(i, j + 1)
    <3>1. Edits(a, b, i + 1, j + 1, m) = Edits(a, b, i, j + 1, m) + 1
      BY <1>0, <2>2, Longer
    <3>2. /\ Least(a, b, i, j + 1) \in Nat /\ Edits(a, b, i, j + 1, m) \in Nat
          /\ Least(a, b, i, j + 1) <= Edits(a, b, i, j + 1, m)
      BY <1>0, <2>2, LeastIsLeast, EditsIsNat
    <3>3. 1 + Least(a, b, i, j + 1) <= l
      <4> HIDE DEF l
      <4> QED  BY <1>1, <2>1, <3>1, <3>2
    <3> QED  BY <3>3
  <2>3. CASE m \in Aligned(i + 1, j)
    <3>1. Edits(a, b, i + 1, j + 1, m) = Edits(a, b, i + 1, j, m) + 1
      BY <1>0, <2>3, Longer
    <3>2. /\ Least(a, b, i + 1, j) \in Nat /\ Edits(a, b, i + 1, j, m) \in Nat
          /\ Least(a, b, i + 1, j) <= Edits(a, b, i + 1, j, m)
      BY <1>0, <2>3, LeastIsLeast, EditsIsNat
    <3>3. 1 + Least(a, b, i + 1, j) <= l
      <4> HIDE DEF l
      <4> QED  BY <1>1, <2>1, <3>1, <3>2
    <3> QED  BY <3>3
  <2>4. CASE p \in m /\ m \ {p} \in Aligned(i, j)
    <3> DEFINE n == m \ {p}
    <3>1. Least(a, b, i, j) <= Edits(a, b, i, j, n) /\ Least(a, b, i, j) \in Nat
      BY <2>4, LeastIsLeast
    <3>2. Edits(a, b, i + 1, j + 1, n \union {p})
             = Edits(a, b, i, j, n) + Differ(a[i + 1], b[j + 1])
      <4>1. n \in Aligned(i, j)
        BY <2>4
      <4> HIDE DEF n
      <4> QED  BY <4>1, Joined
    <3>3. n \union {p} = m
      BY <2>4
    <3>4. Edits(a, b, i, j, n) \in Nat
      BY <2>4, EditsIsNat
    <3>5. 1 + Least(a, b, i, j) <= l
      <4> HIDE DEF l, n
      <4> QED  BY <1>1, <1>D, <2>1, <3>1, <3>2, <3>3, <3>4
    <3> QED  BY <3>5
  <2> QED  BY <2>2, <2>3, <2>4, LastPlaces
<1> HIDE DEF l, T
<1>4. Min(T) \in T /\ \A t \in T : Min(T) <= t
  BY <1>1, MinIsLeast
<1>5. l = 1 + Min(T)
  <2>1. PICK t \in T : 1 + t <= l
    BY <1>3
  <2>2. l <= 1 + Min(T) /\ Min(T) <= t /\ t \in Nat /\ Min(T) \in Nat
    BY <1>1, <1>2, <1>4
  <2> QED  BY <1>1, <2>1, <2>2
<1> QED  BY <1>5 DEF l, T

------------------------------------------------------------------------------
(* The table _edit_distance fills holds the least numbers of edits *)

\* What the recursion makes of a table.
Filled(a, b, dp) ==
    [p \in (0..Len(a)) \X (0..Len(b)) |->
        LET i == p[1]
            j == p[2]
        IN  IF i = 0 \/ j = 0 THEN i + j
            ELSE IF a[i] = b[j] THEN dp[<<i - 1, j - 1>>]
            ELSE 1 + Min({dp[<<i - 1, j>>], dp[<<i, j - 1>>], dp[<<i - 1, j - 1>>]})]

LeastTable(a, b) == [p \in (0..Len(a)) \X (0..Len(b)) |-> Least(a, b, p[1], p[2])]

LEMMA EditDistanceIsFilled ==
    ASSUME NEW a, NEW b
    PROVE  EditDistance(a, b) = (CHOOSE dp : dp = Filled(a, b, dp))[<<Len(a), Len(b)>>]
BY SMT DEF EditDistance, Filled

LEMMA LeastRecurrence ==
    ASSUME NEW a, NEW b, NEW i \in Nat \ {0}, NEW j \in Nat \ {0}
    PROVE  Least(a, b, i, j) =
               IF a[i] = b[j] THEN Least(a, b, i - 1, j - 1)
               ELSE 1 + Min({Least(a, b, i - 1, j), Least(a, b, i, j - 1),
                             Least(a, b, i - 1, j - 1)})
<1>1. PICK k \in Nat : k = i - 1
  OBVIOUS
<1>2. PICK l \in Nat : l = j - 1
  OBVIOUS
<1>3. i = k + 1 /\ j = l + 1
  BY <1>1, <1>2
<1>4. CASE a[i] = b[j]
  <2>1. a[k + 1] = b[l + 1]
    BY <1>3, <1>4
  <2>2. Least(a, b, k + 1, l + 1) = Least(a, b, k, l)
    BY <2>1, LastPlacesAlike
  <2> QED  BY <1>1, <1>2, <1>3, <1>4, <2>2
<1>5. CASE a[i] # b[j]
  <2>1. Least(a, b, k + 1, l + 1) =
               1 + Min({Least(a, b, k, l + 1), Least(a, b, k + 1, l), Least(a, b, k, l)})
    BY <1>3, <1>5, LastPlacesDiffer
  <2> QED  BY <1>1, <1>2, <1>3, <1>5, <2>1
<1> QED  BY <1>4, <1>5

LEMMA LeastTableIsFilled ==
    ASSUME NEW a, NEW b, Len(a) \in Nat, Len(b) \in Nat
    PROVE  LeastTable(a, b) = Filled(a, b, LeastTable(a, b))
<1> DEFINE L == LeastTable(a, b)
           F == Filled(a, b, L)
<1>1. ASSUME NEW i \in 0..Len(a), NEW j \in 0..Len(b)
      PROVE  L[<<i, j>>] = F[<<i, j>>]
  <2>1. L[<<i, j>>] = Least(a, b, i, j)
    BY DEF LeastTable
  <2>2. F[<<i, j>>] = IF i = 0 \/ j = 0 THEN i + j
                  ELSE IF a[i] = b[j] THEN L[<<i - 1, j - 1>>]
                  ELSE 1 + Min({L[<<i - 1, j>>], L[<<i, j - 1>>], L[<<i - 1, j - 1>>]})
    <3> HIDE DEF L
    <3> QED  BY DEF Filled
  <2>3. CASE i = 0 \/ j = 0
    BY <2>1, <2>2, <2>3, NothingAligned
  <2>4. CASE i # 0 /\ j # 0
    <3>1. i - 1 \in 0..Len(a) /\ j - 1 \in 0..Len(b)
      BY <2>4
    <3>2. /\ L[<<i - 1, j - 1>>] = Least(a, b, i - 1, j - 1)
          /\ L[<<i - 1, j>>] = Least(a, b, i - 1, j)
          /\ L[<<i, j - 1>>] = Least(a, b, i, j - 1)
      BY <3>1 DEF LeastTable
    <3>3. Least(a, b, i, j) =
               IF a[i] = b[j] THEN Least(a, b, i - 1, j - 1)
               ELSE 1 + Min({Least(a, b, i - 1, j), Least(a, b, i, j - 1),
                             Least(a, b, i - 1, j - 1)})
      BY <2>4, LeastRecurrence
    <3> HIDE DEF L, F
    <3> QED  BY <2>1, <2>2, <2>4, <3>2, <3>3
  <2> QED  BY <2>3, <2>4
<1>2. /\ L = [p \in (0..Len(a)) \X (0..Len(b)) |-> L[p]]
      /\ F = [p \in (0..Len(a)) \X (0..Len(b)) |-> F[p]]
  BY DEF LeastTable, Filled
<1>3. \A p \in (0..Len(a)) \X (0..Len(b)) : L[p] = F[p]
  BY <1>1
<1> HIDE DEF L, F
<1>4. L = F
  BY <1>2, <1>3
<1> QED  BY <1>4 DEF L, F

\* By the least place of a table where the two differ.
LEMMA FilledIsUnique ==
    ASSUME NEW a, NEW b, Len(a) \in Nat, Len(b) \in Nat,
           NEW g, g = Filled(a, b, g), NEW h, h = Filled(a, b, h),
           NEW i \in 0..Len(a), NEW j \in 0..Len(b)
    PROVE  g[<<i, j>>] = h[<<i, j>>]
<1> DEFINE Differs(k, l) == g[<<k, l>>] # h[<<k, l>>]
           T == {k \in 0..(Len(a) + Len(b)) :
                    \E m \in 0..Len(a), n \in 0..Len(b) : m + n = k /\ Differs(m, n)}
<1>1. SUFFICES ASSUME Differs(i, j)  PROVE FALSE
  OBVIOUS
<1>2. T \in SUBSET Nat /\ i + j \in T
  BY <1>1
<1>3. PICK k \in T : \A l \in T : k <= l
  BY <1>2, LeastNatural
<1>4. PICK m \in 0..Len(a), n \in 0..Len(b) : m + n = k /\ Differs(m, n)
  BY <1>3
<1>5. \A q \in 0..Len(a), r \in 0..Len(b) : q + r < k => g[<<q, r>>] = h[<<q, r>>]
  <2> SUFFICES ASSUME NEW q \in 0..Len(a), NEW r \in 0..Len(b), q + r < k, Differs(q, r)
               PROVE  FALSE
    OBVIOUS
  <2>1. q + r \in T
    <3>1. q + r \in 0..(Len(a) + Len(b)) /\ q + r = q + r /\ Differs(q, r)
      OBVIOUS
    <3> HIDE DEF Differs
    <3> QED  BY <3>1
  <2>2. k \in Nat /\ k <= q + r
    <3> HIDE DEF T
    <3> QED  BY <1>2, <1>3, <2>1
  <2> HIDE DEF T, Differs
  <2> QED  BY <2>2
<1>6. /\ g[<<m, n>>] = IF m = 0 \/ n = 0 THEN m + n
                   ELSE IF a[m] = b[n] THEN g[<<m - 1, n - 1>>]
                   ELSE 1 + Min({g[<<m - 1, n>>], g[<<m, n - 1>>], g[<<m - 1, n - 1>>]})
      /\ h[<<m, n>>] = IF m = 0 \/ n = 0 THEN m + n
                   ELSE IF a[m] = b[n] THEN h[<<m - 1, n - 1>>]
                   ELSE 1 + Min({h[<<m - 1, n>>], h[<<m, n - 1>>], h[<<m - 1, n - 1>>]})
  BY DEF Filled
<1>7. m = 0 \/ n = 0
  <2> SUFFICES ASSUME m # 0, n # 0  PROVE FALSE
    OBVIOUS
  <2>1. /\ m - 1 \in 0..Len(a) /\ n - 1 \in 0..Len(b)
        /\ (m - 1) + n < k /\ m + (n - 1) < k /\ (m - 1) + (n - 1) < k
    BY <1>4
  <2>2. /\ g[<<m - 1, n>>] = h[<<m - 1, n>>] /\ g[<<m, n - 1>>] = h[<<m, n - 1>>]
        /\ g[<<m - 1, n - 1>>] = h[<<m - 1, n - 1>>]
    BY <1>5, <2>1
  <2> QED  BY <1>4, <1>6, <2>2
<1> QED  BY <1>4, <1>6, <1>7

(* _edit_distance returns the least number of insertions, deletions and      *)
(* substitutions, for any two sequences: of words or of letters.             *)
THEOREM EditDistanceIsLeast ==
    ASSUME NEW a, NEW b, Len(a) \in Nat, Len(b) \in Nat,
           DOMAIN a = 1..Len(a), DOMAIN b = 1..Len(b)
    PROVE  EditDistance(a, b) = LeastEdits(a, b) /\ EditDistance(a, b) \in Nat
<1> DEFINE dp == CHOOSE g : g = Filled(a, b, g)
           L == LeastTable(a, b)
<1>1. L = Filled(a, b, L)
  BY LeastTableIsFilled
<1>2. dp = Filled(a, b, dp)
  <2> HIDE DEF L
  <2> QED  BY <1>1
<1>3. EditDistance(a, b) = dp[<<Len(a), Len(b)>>]
  BY EditDistanceIsFilled
<1>4. dp[<<Len(a), Len(b)>>] = L[<<Len(a), Len(b)>>]
  <2> HIDE DEF L, dp
  <2> QED  BY <1>1, <1>2, FilledIsUnique
<1>5. L[<<Len(a), Len(b)>>] = Least(a, b, Len(a), Len(b))
  BY DEF LeastTable
<1>6. Least(a, b, Len(a), Len(b)) = LeastEdits(a, b)
  <2>1. Alignments(a, b) = Aligned(Len(a), Len(b))
    BY DEF Alignments, Aligned, Ordered
  <2> QED  BY <2>1, Zenon DEF Least, AllEdits, Edits, Substituted, LeastEdits
<1>7. Least(a, b, Len(a), Len(b)) \in Nat
  BY LeastIsLeast
<1> HIDE DEF dp, L
<1> QED  BY <1>3, <1>4, <1>5, <1>6, <1>7

------------------------------------------------------------------------------
(* The letters of a text *)

\* The first k words of a text, each run together with those before it.
RunTogether(t, k, f) == [i \in 1..k |-> IF i = 1 THEN t[i] ELSE f[i - 1] \o t[i]]

LEMMA RunTogetherExists ==
    ASSUME NEW S, NEW t \in Seq(Seq(S)), NEW n \in 0..Len(t)
    PROVE  \E f : f = RunTogether(t, n, f)
<1> DEFINE Exists(k) == \E f : f = RunTogether(t, k, f)
           T == {k \in 0..n : ~Exists(k)}
<1>0. Len(t) \in Nat
  BY LenProperties
<1>1. SUFFICES ASSUME T # {}  PROVE FALSE
  <2>1. n \in 0..n
    BY <1>0
  <2> QED  BY <2>1
<1>2. PICK k \in T : \A l \in T : k <= l
  <2>1. T \in SUBSET Nat
    OBVIOUS
  <2> HIDE DEF T
  <2> QED  BY <1>1, <2>1, LeastNatural
<1>3. k # 0
  <2>1. RunTogether(t, 0, <<>>) = <<>>
    BY DEF RunTogether
  <2>2. Exists(0)
    BY <2>1
  <2> HIDE DEF Exists
  <2> QED  BY <2>2
<1>4. k - 1 \in 0..n /\ k \in 1..n /\ ~(k <= k - 1)
  BY <1>0, <1>3
<1>5. Exists(k - 1)
  <2> HIDE DEF Exists
  <2> QED  BY <1>2, <1>4
<1>6. PICK g : g = RunTogether(t, k - 1, g)
  BY <1>5
<1> DEFINE f == [i \in 1..k |-> IF i = 1 THEN t[i] ELSE g[i - 1] \o t[i]]
<1>7. \A i \in 1..(k - 1) : f[i] = g[i]
  <2> SUFFICES ASSUME NEW i \in 1..(k - 1)  PROVE f[i] = g[i]
    OBVIOUS
  <2>1. i \in 1..k
    BY <1>4
  <2>2. f[i] = IF i = 1 THEN t[i] ELSE g[i - 1] \o t[i]
    BY <2>1
  <2>3. g[i] = IF i = 1 THEN t[i] ELSE g[i - 1] \o t[i]
    <3> HIDE DEF f
    <3> QED  BY <1>6 DEF RunTogether
  <2> QED  BY <2>2, <2>3
<1>8. f = RunTogether(t, k, f)
  <2>1. ASSUME NEW i \in 1..k, i # 1  PROVE f[i - 1] = g[i - 1]
    <3>1. i - 1 \in 1..(k - 1)
      BY <1>4, <2>1
    <3> HIDE DEF f
    <3> QED  BY <1>7, <3>1
  <2>2. ASSUME NEW i \in 1..k
        PROVE  f[i] = RunTogether(t, k, f)[i]
    <3>1. f[i] = IF i = 1 THEN t[i] ELSE g[i - 1] \o t[i]
      OBVIOUS
    <3>2. RunTogether(t, k, f)[i] = IF i = 1 THEN t[i] ELSE f[i - 1] \o t[i]
      <4> HIDE DEF f
      <4> QED  BY DEF RunTogether
    <3> HIDE DEF f
    <3> QED  BY <2>1, <3>1, <3>2
  <2>3. /\ f = [i \in 1..k |-> f[i]]
        /\ RunTogether(t, k, f) = [i \in 1..k |-> RunTogether(t, k, f)[i]]
    BY DEF RunTogether
  <2> HIDE DEF f
  <2> QED  BY <2>2, <2>3
<1>9. Exists(k)
  <2> HIDE DEF f
  <2> QED  BY <1>8
<1> HIDE DEF Exists
<1> QED  BY <1>9

\* The letters of a text are a sequence.
LEMMA FlattenSeqType ==
    ASSUME NEW S, NEW t \in Seq(Seq(S))
    PROVE  FlattenSeq(t) \in Seq(S)
<1>1. Len(t) \in Nat /\ \A i \in 1..Len(t) : t[i] \in Seq(S)
  BY LenProperties, ElementOfSeq
<1>2. CASE Len(t) = 0
  <2>1. t = <<>>
    BY <1>2, EmptySeq
  <2> QED  BY <1>2, <2>1 DEF FlattenSeq
<1>3. CASE Len(t) # 0
  <2> DEFINE f == CHOOSE g : g = RunTogether(t, Len(t), g)
             T == {i \in 1..Len(t) : f[i] \notin Seq(S)}
  <2>1. FlattenSeq(t) = f[Len(t)]
    BY <1>3, Zenon DEF FlattenSeq, RunTogether
  <2>2. f = RunTogether(t, Len(t), f)
    <3>1. Len(t) \in 0..Len(t)
      BY <1>1
    <3> QED  BY <3>1, RunTogetherExists
  <2> HIDE DEF f
  <2>3. \A i \in 1..Len(t) : f[i] = IF i = 1 THEN t[i] ELSE f[i - 1] \o t[i]
    BY <2>2 DEF RunTogether
  <2>4. T = {}
    <3> SUFFICES ASSUME T # {}  PROVE FALSE
      OBVIOUS
    <3>1. T \in SUBSET Nat
      BY <1>1
    <3>2. PICK k \in T : \A l \in T : k <= l
      <4> HIDE DEF T
      <4> QED  BY <3>1, LeastNatural
    <3>3. k # 1
      BY <1>1, <2>3
    <3>4. k - 1 \in 1..Len(t) /\ ~(k <= k - 1)
      BY <1>1, <3>3
    <3>5. f[k - 1] \in Seq(S)
      BY <3>2, <3>4
    <3>6. f[k - 1] \o t[k] \in Seq(S)
      BY <1>1, <3>5, ConcatProperties
    <3> QED  BY <2>3, <3>3, <3>6
  <2>5. Len(t) \in 1..Len(t)
    BY <1>1, <1>3
  <2> QED  BY <2>1, <2>4, <2>5
<1> QED  BY <1>2, <1>3

------------------------------------------------------------------------------
(* The inference worker *)

Stages == {"none", "transcribing", "failed", "answered"}

RequestType ==
    [stage : Stages, model : Models \union {NoModel},
     text : Transcripts \union {<<>>, StubTranscript}, by : Models \union {NoModel}]

Answered == {r \in Requests : request[r].stage = "answered"}

WorkerInv ==
    /\ serving \in BOOLEAN /\ engine \in BOOLEAN
    /\ request \in [Requests -> RequestType]
    /\ \A r \in Requests :
           request[r].by = (IF request[r].stage = "answered" THEN ServedModel ELSE NoModel)
    /\ request_count \in Nat
    /\ request_count = Cardinality(Answered)

LEMMA WorkerStarts ==
    ASSUME WorkerInit  PROVE WorkerInv
<1>1. request \in [Requests -> RequestType]
  BY DEF WorkerInit, NoRequest, RequestType, Stages
<1>2. \A r \in Requests : request[r].stage = "none" /\ request[r].by = NoModel
  BY DEF WorkerInit, NoRequest
<1>3. Answered = {} /\ Cardinality({}) = 0
  BY <1>2, FS_EmptySet DEF Answered
<1> QED  BY <1>1, <1>2, <1>3 DEF WorkerInit, WorkerInv

LEMMA WorkerInvMeaning ==
    ASSUME WorkerInv  PROVE WorkerTypeOK /\ CountsTranscribed
<1>1. \A r \in Requests : request[r].stage \in Stages
  BY DEF WorkerInv, RequestType
<1> QED  BY <1>1 DEF WorkerInv, WorkerTypeOK, CountsTranscribed, Answered, Stages

\* A request moves to another stage, which no answer is involved in.
LEMMA StageChanges ==
    ASSUME WorkerInv, serving' \in BOOLEAN, engine' = engine, request_count' = request_count,
           NEW r \in Requests, NEW new \in RequestType, request' = [request EXCEPT ![r] = new],
           new.by = request[r].by, new.stage = "answered" <=> request[r].stage = "answered"
    PROVE  WorkerInv'
<1>1. request' \in [Requests -> RequestType] /\ request \in [Requests -> RequestType]
  BY DEF WorkerInv
<1>2. /\ request'[r] = new
      /\ \A q \in Requests : q # r => request'[q] = request[q]
  BY <1>1
<1>3. \A q \in Requests : /\ request'[q].by = request[q].by
                          /\ request'[q].stage = "answered" <=> request[q].stage = "answered"
  BY <1>2
<1>4. Answered' = Answered
  BY <1>3 DEF Answered
<1> QED  BY <1>1, <1>3, <1>4 DEF WorkerInv

LEMMA StartWorkerKeeps ==
    ASSUME WorkerInv, StartWorker \/ UNCHANGED workerVars
    PROVE  WorkerInv'
<1>1. request' = request
  BY DEF StartWorker, workerVars
<1>2. Answered' = Answered
  BY <1>1 DEF Answered
<1> QED  BY <1>1, <1>2 DEF WorkerInv, StartWorker, workerVars

LEMMA ReceiveKeeps ==
    ASSUME WorkerInv, NEW r \in Requests, NEW model \in Models \union {NoModel}, NEW content,
           Receive(r, model, content)
    PROVE  WorkerInv'
<1> DEFINE new == [request[r] EXCEPT !.model = model,
                      !.stage = IF content = "audio" THEN "transcribing" ELSE "failed"]
<1>1. request \in [Requests -> RequestType] /\ request[r] \in RequestType
  BY DEF WorkerInv
<1>2. request' = [request EXCEPT ![r] = new]
  BY <1>1 DEF Receive, RequestType
<1>3. /\ new \in RequestType /\ new.by = request[r].by
      /\ new.stage # "answered" /\ request[r].stage # "answered"
  BY <1>1 DEF RequestType, Stages, Receive
<1> HIDE DEF new
<1>4. serving' \in BOOLEAN /\ engine' = engine /\ request_count' = request_count
  BY DEF Receive, WorkerInv
<1> QED  BY <1>2, <1>3, <1>4, StageChanges

LEMMA EngineRaisesKeeps ==
    ASSUME WorkerInv, NEW r \in Requests, EngineRaises(r)
    PROVE  WorkerInv'
<1> DEFINE new == [request[r] EXCEPT !.stage = "failed"]
<1>1. request \in [Requests -> RequestType] /\ request[r] \in RequestType
  BY DEF WorkerInv
<1>2. request' = [request EXCEPT ![r] = new]
  BY <1>1 DEF EngineRaises, RequestType
<1>3. /\ new \in RequestType /\ new.by = request[r].by
      /\ new.stage # "answered" /\ request[r].stage # "answered"
  BY <1>1 DEF RequestType, Stages, EngineRaises
<1> HIDE DEF new
<1>4. serving' \in BOOLEAN /\ engine' = engine /\ request_count' = request_count
  BY DEF EngineRaises, WorkerInv
<1> QED  BY <1>2, <1>3, <1>4, StageChanges

\* The client takes the text of the answer.
TakesText(r) ==
    /\ request[r].stage = "answered"
    /\ request' = [request EXCEPT ![r].text = <<>>]
    /\ UNCHANGED <<serving, engine, request_count>>

LEMMA TakesTextKeeps ==
    ASSUME WorkerInv, NEW r \in Requests, TakesText(r)
    PROVE  WorkerInv'
<1> DEFINE new == [request[r] EXCEPT !.text = <<>>]
<1>1. request \in [Requests -> RequestType] /\ request[r] \in RequestType
  BY DEF WorkerInv
<1>2. request' = [request EXCEPT ![r] = new]
  BY <1>1 DEF TakesText, RequestType
<1>3. new \in RequestType /\ new.by = request[r].by /\ new.stage = request[r].stage
  BY <1>1 DEF RequestType
<1> HIDE DEF new
<1>4. serving' \in BOOLEAN /\ engine' = engine /\ request_count' = request_count
  BY DEF TakesText, WorkerInv
<1> QED  BY <1>2, <1>3, <1>4, StageChanges

\* The one step that counts, and that a request is answered in.
LEMMA TranscribedKeeps ==
    ASSUME WorkerInv, NEW r \in Requests, NEW text, Transcribed(r, text)
    PROVE  WorkerInv'
<1>1. /\ request \in [Requests -> RequestType] /\ request[r] \in RequestType
      /\ request[r].stage = "transcribing" /\ text \in Answers
      /\ request_count \in Nat /\ request_count = Cardinality(Answered)
      /\ request_count' = request_count + 1
  BY DEF WorkerInv, Transcribed
<1>2. text \in Transcripts \union {<<>>, StubTranscript} /\ ServedModel \in Models
  BY <1>1, WorkerAssumption DEF Answers
<1> DEFINE new == [request[r] EXCEPT !.stage = "answered", !.text = text, !.by = ServedModel]
<1>3. request' = [request EXCEPT ![r] = new]
  BY <1>1 DEF Transcribed, RequestType
<1>4. new \in RequestType /\ new.by = ServedModel /\ new.stage = "answered"
  BY <1>1, <1>2 DEF RequestType, Stages
<1> HIDE DEF new
<1>5. /\ request' \in [Requests -> RequestType] /\ request'[r] = new
      /\ \A q \in Requests : q # r => request'[q] = request[q]
  BY <1>1, <1>3, <1>4
<1>6. Answered' = Answered \union {r} /\ r \notin Answered
  BY <1>1, <1>4, <1>5 DEF Answered
<1>7. IsFiniteSet(Answered)
  <2>1. Answered \subseteq Requests
    BY DEF Answered
  <2> QED  BY <2>1, WorkerAssumption, FS_Subset
<1>8. Cardinality(Answered') = Cardinality(Answered) + 1
  BY <1>6, <1>7, FS_AddElement
<1>9. request_count' \in Nat /\ request_count' = Cardinality(Answered')
  BY <1>1, <1>8
<1>10. \A q \in Requests :
          request'[q].by = (IF request'[q].stage = "answered" THEN ServedModel ELSE NoModel)
  BY <1>4, <1>5 DEF WorkerInv
<1> QED  BY <1>5, <1>9, <1>10 DEF WorkerInv, Transcribed

------------------------------------------------------------------------------
(* The metrics' arithmetic *)

Text == Seq(Seq(Letters))

TotalsType == [wer_errors : Nat, words : Nat, cer_errors : Nat, chars : Nat]

\* Max names the larger of two numbers.
LEMMA MaxOfTwo ==
    ASSUME NEW m \in Nat, NEW n \in Nat
    PROVE  Max({m, n}) \in {m, n} /\ Max({m, n}) >= m /\ Max({m, n}) >= n
<1>1. \E x \in {m, n} : \A y \in {m, n} : x >= y
  OBVIOUS
<1> QED  BY <1>1 DEF Max

\* What AddErrors adds for a text and its transcript.
LEMMA AddErrorsAdds ==
    ASSUME NEW t \in TotalsType, NEW ref \in Text, NEW hyp \in Text
    PROVE  LET u == AddErrors(t, ref, hyp)
           IN  /\ u \in TotalsType
               /\ u.wer_errors - t.wer_errors = LeastEdits(ref, hyp)
               /\ u.cer_errors - t.cer_errors = LeastEdits(Chars(ref), Chars(hyp))
               /\ u.words - t.words = Max({Len(ref), 1})
               /\ u.chars - t.chars = Max({Len(Chars(ref)), 1})
<1> DEFINE u == AddErrors(t, ref, hyp)
           w == EditDistance(ref, hyp)
           c == EditDistance(Chars(ref), Chars(hyp))
           m == Max({Len(ref), 1})
           n == Max({Len(Chars(ref)), 1})
<1>1. Chars(ref) \in Seq(Letters) /\ Chars(hyp) \in Seq(Letters)
  BY FlattenSeqType DEF Chars, Text
<1>2. /\ Len(ref) \in Nat /\ DOMAIN ref = 1..Len(ref)
      /\ Len(hyp) \in Nat /\ DOMAIN hyp = 1..Len(hyp)
  BY LenProperties DEF Text
<1>3. /\ Len(Chars(ref)) \in Nat /\ DOMAIN Chars(ref) = 1..Len(Chars(ref))
      /\ Len(Chars(hyp)) \in Nat /\ DOMAIN Chars(hyp) = 1..Len(Chars(hyp))
  BY <1>1, LenProperties
<1>4. w = LeastEdits(ref, hyp) /\ w \in Nat
  BY <1>2, EditDistanceIsLeast
<1>5. c = LeastEdits(Chars(ref), Chars(hyp)) /\ c \in Nat
  BY <1>3, EditDistanceIsLeast
<1>6. m \in Nat /\ n \in Nat
  BY <1>2, <1>3, MaxOfTwo
<1>7. u = [wer_errors |-> t.wer_errors + w, words |-> t.words + m,
           cer_errors |-> t.cer_errors + c, chars |-> t.chars + n]
  BY DEF AddErrors
<1> HIDE DEF u, w, c, m, n
<1>8. /\ t.wer_errors \in Nat /\ t.words \in Nat /\ t.cer_errors \in Nat /\ t.chars \in Nat
  BY DEF TotalsType
<1>9. u \in TotalsType
  BY <1>4, <1>5, <1>6, <1>7, <1>8 DEF TotalsType
<1>10. /\ u.wer_errors - t.wer_errors = w /\ u.cer_errors - t.cer_errors = c
       /\ u.words - t.words = m /\ u.chars - t.chars = n
  BY <1>4, <1>5, <1>6, <1>7, <1>8
<1> QED  BY <1>4, <1>5, <1>9, <1>10 DEF u, m, n

------------------------------------------------------------------------------
(* The evaluations *)

EvaluationType ==
    [stage : {"none", "next", "waiting", "done", "returned"}, model : Models \union {NoModel},
     scored : Nat, totals : TotalsType]

EvaluatorInv ==
    /\ session \in BOOLEAN
    /\ evaluation \in [Evaluations -> EvaluationType]
    /\ \A e \in Evaluations :
           /\ evaluation[e].scored <= Len(Samples[e])
           /\ evaluation[e].stage = "none" => evaluation[e].scored = 0
           /\ evaluation[e].stage \in {"next", "waiting"} =>
                  evaluation[e].scored < Len(Samples[e])
           /\ evaluation[e].stage = "waiting" => session

LEMMA SamplesAreTexts ==
    ASSUME NEW e \in Evaluations
    PROVE  /\ Len(Samples[e]) \in Nat /\ DOMAIN Samples[e] = 1..Len(Samples[e])
           /\ \A i \in 1..Len(Samples[e]) : Samples[e][i] \in References \intersect Text
<1>1. /\ Samples[e] \in Seq(References)
      /\ References \subseteq Text
  BY EvaluatorAssumption DEF Text
<1> QED  BY <1>1, LenProperties, ElementOfSeq

LEMMA EvaluatorStarts ==
    ASSUME EvaluatorInit  PROVE EvaluatorInv
<1>1. evaluation \in [Evaluations -> EvaluationType]
  BY DEF EvaluatorInit, EvaluationType, TotalsType, Zero
<1>2. \A e \in Evaluations : evaluation[e].stage = "none" /\ evaluation[e].scored = 0
  BY DEF EvaluatorInit
<1>3. \A e \in Evaluations : Len(Samples[e]) \in Nat
  BY SamplesAreTexts
<1> QED  BY <1>1, <1>2, <1>3 DEF EvaluatorInit, EvaluatorInv

LEMMA EvaluatorInvMeaning ==
    ASSUME EvaluatorInv  PROVE EvaluatorTypeOK
<1>1. ASSUME NEW e \in Evaluations
      PROVE  /\ evaluation[e].stage \in {"none", "next", "waiting", "done", "returned"}
             /\ evaluation[e].model \in Models \union {NoModel}
             /\ evaluation[e].scored \in 0..Len(Samples[e])
             /\ \A n \in {evaluation[e].totals[f] : f \in DOMAIN Zero} : n \in Nat
  <2>1. evaluation[e] \in EvaluationType /\ evaluation[e].scored <= Len(Samples[e])
    BY DEF EvaluatorInv
  <2>2. evaluation[e].scored \in Nat /\ Len(Samples[e]) \in Nat
    BY <2>1, SamplesAreTexts DEF EvaluationType
  <2>3. evaluation[e].totals \in TotalsType
    BY <2>1 DEF EvaluationType
  <2>4. DOMAIN Zero = {"wer_errors", "words", "cer_errors", "chars"}
    BY DEF Zero
  <2>5. \A f \in {"wer_errors", "words", "cer_errors", "chars"} :
            evaluation[e].totals[f] \in Nat
    BY <2>3 DEF TotalsType
  <2> QED  BY <2>1, <2>2, <2>4, <2>5 DEF EvaluationType
<1> QED  BY <1>1 DEF EvaluatorInv, EvaluatorTypeOK

\* One evaluation becomes another that is as it should be.
LEMMA EvaluationChanges ==
    ASSUME EvaluatorInv, session' = session, NEW e \in Evaluations, NEW new \in EvaluationType,
           evaluation' = [evaluation EXCEPT ![e] = new],
           new.scored <= Len(Samples[e]),
           new.stage = "none" => new.scored = 0,
           new.stage \in {"next", "waiting"} => new.scored < Len(Samples[e]),
           new.stage = "waiting" => session
    PROVE  EvaluatorInv'
<1>1. /\ evaluation' \in [Evaluations -> EvaluationType] /\ evaluation'[e] = new
      /\ \A d \in Evaluations : d # e => evaluation'[d] = evaluation[d]
  BY DEF EvaluatorInv
<1>2. ASSUME NEW d \in Evaluations
      PROVE  /\ evaluation'[d].scored <= Len(Samples[d])
             /\ evaluation'[d].stage = "none" => evaluation'[d].scored = 0
             /\ evaluation'[d].stage \in {"next", "waiting"} =>
                    evaluation'[d].scored < Len(Samples[d])
             /\ evaluation'[d].stage = "waiting" => session'
  <2>1. CASE d = e
    BY <1>1, <2>1
  <2>2. CASE d # e
    BY <1>1, <2>2 DEF EvaluatorInv
  <2> QED  BY <2>1, <2>2
<1> QED  BY <1>1, <1>2 DEF EvaluatorInv

LEMMA BeginEvaluationKeeps ==
    ASSUME EvaluatorInv, NEW e \in Evaluations, NEW model \in Models, BeginEvaluation(e, model)
    PROVE  /\ EvaluatorInv'
           /\ evaluation[e].stage = "none" /\ evaluation'[e].stage \in {"next", "done"}
           /\ evaluation'[e].model = model /\ evaluation'[e].scored = evaluation[e].scored
           /\ \A d \in Evaluations \ {e} : evaluation'[d] = evaluation[d]
<1> DEFINE new == [evaluation[e] EXCEPT !.model = model,
                      !.stage = IF Samples[e] = <<>> THEN "done" ELSE "next"]
<1>1. /\ evaluation \in [Evaluations -> EvaluationType] /\ evaluation[e] \in EvaluationType
      /\ evaluation[e].stage = "none" /\ evaluation[e].scored = 0
  BY DEF EvaluatorInv, BeginEvaluation
<1>2. evaluation' = [evaluation EXCEPT ![e] = new]
  BY <1>1 DEF BeginEvaluation, EvaluationType
<1>3. /\ new \in EvaluationType /\ new.scored = 0 /\ new.model = model
      /\ new.stage = IF Samples[e] = <<>> THEN "done" ELSE "next"
  BY <1>1 DEF EvaluationType
<1>4. Len(Samples[e]) \in Nat /\ (Samples[e] # <<>> => 0 < Len(Samples[e]))
  <2>1. Samples[e] \in Seq(References)
    BY EvaluatorAssumption
  <2> QED  BY <2>1, EmptySeq, LenProperties
<1> HIDE DEF new
<1>5. session' = session
  BY DEF BeginEvaluation
<1>6. EvaluatorInv'
  <2>1. /\ new.scored <= Len(Samples[e]) /\ new.stage \in {"next", "done"}
        /\ new.stage = "next" => new.scored < Len(Samples[e])
    BY <1>3, <1>4
  <2> QED  BY <1>2, <1>3, <1>5, <2>1, EvaluationChanges
<1> QED  BY <1>1, <1>2, <1>3, <1>6

LEMMA MetricsReturnedKeeps ==
    ASSUME EvaluatorInv, NEW e \in Evaluations, MetricsReturned(e)
    PROVE  /\ EvaluatorInv'
           /\ evaluation[e].stage = "done" /\ evaluation'[e].stage = "returned"
           /\ evaluation'[e].scored = evaluation[e].scored
           /\ \A d \in Evaluations \ {e} : evaluation'[d] = evaluation[d]
<1> DEFINE new == [evaluation[e] EXCEPT !.stage = "returned", !.totals = Zero]
<1>1. /\ evaluation \in [Evaluations -> EvaluationType] /\ evaluation[e] \in EvaluationType
      /\ evaluation[e].scored <= Len(Samples[e]) /\ evaluation[e].stage = "done"
  BY DEF EvaluatorInv, MetricsReturned
<1>2. evaluation' = [evaluation EXCEPT ![e] = new]
  BY <1>1 DEF MetricsReturned, EvaluationType
<1>3. Zero \in TotalsType
  BY DEF Zero, TotalsType
<1>4. new \in EvaluationType /\ new.scored = evaluation[e].scored /\ new.stage = "returned"
  BY <1>1, <1>3 DEF EvaluationType
<1> HIDE DEF new
<1>5. session' = session
  BY DEF MetricsReturned
<1>6. EvaluatorInv'
  BY <1>1, <1>2, <1>4, <1>5, EvaluationChanges
<1> QED  BY <1>1, <1>2, <1>4, <1>6

LEMMA PostKeeps ==
    ASSUME EvaluatorInv, NEW e \in Evaluations, Post(e)
    PROVE  /\ EvaluatorInv'
           /\ evaluation[e].stage = "next" /\ evaluation'[e].stage = "waiting"
           /\ evaluation'[e].scored = evaluation[e].scored
           /\ evaluation'[e].model = evaluation[e].model
           /\ \A d \in Evaluations \ {e} : evaluation'[d] = evaluation[d]
<1> DEFINE new == [evaluation[e] EXCEPT !.stage = "waiting"]
<1>1. /\ evaluation \in [Evaluations -> EvaluationType] /\ evaluation[e] \in EvaluationType
      /\ evaluation[e].scored < Len(Samples[e]) /\ evaluation[e].stage = "next" /\ session
      /\ evaluation[e].scored <= Len(Samples[e])
  BY DEF EvaluatorInv, Post
<1>2. evaluation' = [evaluation EXCEPT ![e] = new]
  BY <1>1 DEF Post, EvaluationType
<1>3. /\ new \in EvaluationType /\ new.scored = evaluation[e].scored /\ new.stage = "waiting"
      /\ new.model = evaluation[e].model
  BY <1>1 DEF EvaluationType
<1> HIDE DEF new
<1>4. session' = session
  BY DEF Post
<1>5. EvaluatorInv'
  BY <1>1, <1>2, <1>3, <1>4, EvaluationChanges
<1> QED  BY <1>1, <1>2, <1>3, <1>5

\* A sample is scored by the text it is given.
LEMMA ScoreAdds ==
    ASSUME EvaluatorInv, NEW e \in Evaluations, evaluation[e].stage \in {"next", "waiting"},
           NEW hyp \in Text, Score(e, hyp)
    PROVE  /\ EvaluatorInv' /\ session' = session
           /\ evaluation'[e].scored = evaluation[e].scored + 1
           /\ evaluation'[e].stage \in {"next", "done"}
           /\ evaluation'[e].model = evaluation[e].model
           /\ evaluation'[e].totals =
                  AddErrors(evaluation[e].totals, Samples[e][Sample(e)], hyp)
           /\ Samples[e][Sample(e)] \in References \intersect Text
           /\ \A d \in Evaluations \ {e} : evaluation'[d] = evaluation[d]
<1> DEFINE ref == Samples[e][Sample(e)]
           totals == AddErrors(evaluation[e].totals, ref, hyp)
           stage == IF Sample(e) = Len(Samples[e]) THEN "done" ELSE "next"
           new == [stage |-> stage, model |-> evaluation[e].model,
                   scored |-> Sample(e), totals |-> totals]
<1>1. /\ evaluation \in [Evaluations -> EvaluationType] /\ evaluation[e] \in EvaluationType
      /\ evaluation[e].scored < Len(Samples[e])
  BY DEF EvaluatorInv
<1>2. /\ evaluation[e].scored \in Nat /\ Len(Samples[e]) \in Nat
      /\ Sample(e) = evaluation[e].scored + 1 /\ Sample(e) \in 1..Len(Samples[e])
  BY <1>1, SamplesAreTexts DEF EvaluationType, Sample
<1>3. ref \in References \intersect Text
  BY <1>2, SamplesAreTexts
<1>4. evaluation' = [evaluation EXCEPT ![e] = new]
  <2>1. evaluation' = [evaluation EXCEPT ![e].stage = stage, ![e].scored = Sample(e),
                                         ![e].totals = totals]
    BY DEF Score
  <2> HIDE DEF stage, totals
  <2>2. evaluation'[e] = [evaluation[e] EXCEPT !.stage = stage, !.scored = Sample(e),
                                               !.totals = totals]
    BY <1>1, <2>1
  <2>3. evaluation'[e] = new
    BY <1>1, <2>2 DEF EvaluationType
  <2>4. /\ evaluation' = [d \in Evaluations |-> evaluation'[d]]
        /\ \A d \in Evaluations : d # e => evaluation'[d] = evaluation[d]
    BY <1>1, <2>1
  <2> HIDE DEF new
  <2> QED  BY <1>1, <2>3, <2>4
<1>5. evaluation[e].totals \in TotalsType
  BY <1>1 DEF EvaluationType
<1> HIDE DEF ref
<1>6. totals \in TotalsType
  BY <1>3, <1>5, AddErrorsAdds
<1>7. stage \in {"next", "done"} /\ (stage = "next" => Sample(e) < Len(Samples[e]))
  BY <1>2
<1> HIDE DEF totals, stage
<1>8. new \in EvaluationType
  BY <1>1, <1>2, <1>6, <1>7 DEF EvaluationType
<1>9. /\ new.scored = Sample(e) /\ new.stage = stage
      /\ new.model = evaluation[e].model /\ new.totals = totals
  OBVIOUS
<1> HIDE DEF new
<1>10. session' = session
  BY DEF Score
<1>11. EvaluatorInv'
  <2>1. /\ new.scored <= Len(Samples[e]) /\ new.stage \in {"next", "done"}
        /\ new.stage = "next" => new.scored < Len(Samples[e])
    BY <1>2, <1>7, <1>9
  <2> QED  BY <1>4, <1>8, <1>10, <2>1, EvaluationChanges
<1> QED  BY <1>1, <1>2, <1>3, <1>4, <1>7, <1>9, <1>10, <1>11 DEF ref, totals

------------------------------------------------------------------------------
(* The agent *)

\* What the agent may ask for evaluates a model, if anything.
Evaluable(a) == a.type = "evaluate" => a.arg \in Models \union {None}

Decided == {a \in Actions : Evaluable(a)}

ToolCall == {a \in Decided : a.type \in Tools}

AgentInv == AgentTypeOK /\ plan \in Seq(ToolCall)

\* What execute_actions has kept of the first n actions.
Kept(actions, n, f) ==
    [i \in 0..n |->
        IF i = 0 THEN <<>>
        ELSE IF actions[i].type \in Tools THEN Append(f[i - 1], actions[i])
        ELSE f[i - 1]]

LEMMA KeptExists ==
    ASSUME NEW actions, NEW n \in Nat
    PROVE  \E f : f = Kept(actions, n, f)
<1> DEFINE Exists(k) == \E f : f = Kept(actions, k, f)
           T == {k \in 0..n : ~Exists(k)}
<1>1. SUFFICES ASSUME T # {}  PROVE FALSE
  OBVIOUS
<1>2. PICK k \in T : \A l \in T : k <= l
  <2>1. T \in SUBSET Nat
    OBVIOUS
  <2> HIDE DEF T
  <2> QED  BY <1>1, <2>1, LeastNatural
<1>3. k # 0
  <2> DEFINE f == [i \in 0..0 |-> <<>>]
  <2>1. f = Kept(actions, 0, f)
    BY DEF Kept
  <2>2. Exists(0)
    BY <2>1
  <2> HIDE DEF Exists
  <2> QED  BY <2>2
<1>4. k - 1 \in 0..n /\ k \in 1..n /\ ~(k <= k - 1)
  BY <1>3
<1>5. Exists(k - 1)
  <2> HIDE DEF Exists
  <2> QED  BY <1>2, <1>4
<1>6. PICK g : g = Kept(actions, k - 1, g)
  BY <1>5
<1> DEFINE Step(h) == [i \in 0..k |->
                           IF i = 0 THEN <<>>
                           ELSE IF actions[i].type \in Tools THEN Append(h[i - 1], actions[i])
                           ELSE h[i - 1]]
           f == Step(g)
<1>7. ASSUME NEW i \in 0..(k - 1)  PROVE f[i] = g[i]
  <2>1. i \in 0..k
    BY <1>4
  <2>2. f[i] = IF i = 0 THEN <<>>
               ELSE IF actions[i].type \in Tools THEN Append(g[i - 1], actions[i])
               ELSE g[i - 1]
    BY <2>1
  <2>3. g[i] = IF i = 0 THEN <<>>
               ELSE IF actions[i].type \in Tools THEN Append(g[i - 1], actions[i])
               ELSE g[i - 1]
    <3> HIDE DEF f
    <3> QED  BY <1>6 DEF Kept
  <2> QED  BY <2>2, <2>3
<1>8. f = Step(f)
  <2>1. ASSUME NEW i \in 0..k, i # 0  PROVE f[i - 1] = g[i - 1]
    <3>1. i - 1 \in 0..(k - 1)
      BY <1>4, <2>1
    <3> HIDE DEF f
    <3> QED  BY <1>7, <3>1
  <2>2. ASSUME NEW i \in 0..k
        PROVE  Step(g)[i] = Step(f)[i]
    <3>1. Step(g)[i] = IF i = 0 THEN <<>>
                       ELSE IF actions[i].type \in Tools THEN Append(g[i - 1], actions[i])
                       ELSE g[i - 1]
      OBVIOUS
    <3>2. Step(f)[i] = IF i = 0 THEN <<>>
                       ELSE IF actions[i].type \in Tools THEN Append(f[i - 1], actions[i])
                       ELSE f[i - 1]
      <4> HIDE DEF f
      <4> QED  OBVIOUS
    <3> HIDE DEF f, Step
    <3> QED  BY <2>1, <3>1, <3>2
  <2>3. /\ Step(g) = [i \in 0..k |-> Step(g)[i]]
        /\ Step(f) = [i \in 0..k |-> Step(f)[i]]
    <3> HIDE DEF f
    <3> QED  OBVIOUS
  <2>4. Step(g) = Step(f)
    <3> HIDE DEF f, Step
    <3> QED  BY <2>2, <2>3
  <2> QED  BY <2>4
<1>9. Exists(k)
  <2>1. f = Kept(actions, k, f)
    <3> HIDE DEF f
    <3> QED  BY <1>8 DEF Kept
  <2> HIDE DEF f
  <2> QED  BY <2>1
<1> HIDE DEF Exists
<1> QED  BY <1>9

\* What execute_actions carries out are tool calls.
LEMMA DecideGoesOn ==
    ASSUME NEW actions \in Seq(Decided), Decide(actions)
    PROVE  \E calls \in Seq(ToolCall) : GoOn(calls)
<1> DEFINE n == Len(actions)
           f == CHOOSE g : g = Kept(actions, n, g)
<1>1. n \in Nat /\ \A i \in 1..n : actions[i] \in Decided
  BY LenProperties, ElementOfSeq
<1>2. GoOn(f[n])
  BY Zenon DEF Decide, Kept
<1>3. f = Kept(actions, n, f)
  BY <1>1, KeptExists
<1> HIDE DEF f
<1>4. \A i \in 0..n : f[i] = IF i = 0 THEN <<>>
                           ELSE IF actions[i].type \in Tools THEN Append(f[i - 1], actions[i])
                           ELSE f[i - 1]
  <2> HIDE DEF n
  <2> QED  BY <1>3 DEF Kept
<1> HIDE DEF n
<1> DEFINE T == {i \in 0..n : f[i] \notin Seq(ToolCall)}
<1>5. T = {}
  <2> SUFFICES ASSUME T # {}  PROVE FALSE
    OBVIOUS
  <2>1. T \in SUBSET Nat
    BY <1>1
  <2>2. PICK i \in T : \A l \in T : i <= l
    <3> HIDE DEF T
    <3> QED  BY <2>1, LeastNatural
  <2>3. i # 0
    BY <1>4, EmptySeq
  <2>4. i - 1 \in 0..n /\ i \in 1..n /\ ~ (i <= i - 1)
    BY <1>1, <2>3
  <2>5. f[i - 1] \in Seq(ToolCall)
    BY <2>2, <2>4
  <2>6. f[i] = IF actions[i].type \in Tools THEN Append(f[i - 1], actions[i]) ELSE f[i - 1]
    BY <1>4, <2>3, <2>4
  <2>7. actions[i].type \in Tools => actions[i] \in ToolCall
    BY <1>1, <2>4 DEF ToolCall
  <2>8. f[i] \in Seq(ToolCall)
    BY <2>5, <2>6, <2>7, AppendProperties
  <2> QED  BY <2>8
<1>6. f[n] \in Seq(ToolCall)
  BY <1>1, <1>5
<1> QED  BY <1>2, <1>6

\* A finished call leaves the calls behind it.
LEMMA TailGoesOn ==
    ASSUME AgentInv, plan # <<>>
    PROVE  Head(plan) \in ToolCall /\ Tail(plan) \in Seq(ToolCall)
BY HeadTailProperties DEF AgentInv

LEMMA AgentStarts ==
    ASSUME AgentInit  PROVE AgentInv
<1>1. <<>> \in Seq(ToolCall)
  OBVIOUS
<1>2. cycle \in 0..MaxCycles
  BY AgentAssumption DEF AgentInit
<1>3. plan = <<>> /\ pc = "new" /\ running \in BOOLEAN
  BY DEF AgentInit
<1>4. error \in Tools \union {"observing", "reasoning", None}
  BY DEF AgentInit
<1> QED  BY <1>1, <1>2, <1>3, <1>4 DEF AgentInv, AgentTypeOK

LEMMA GoOnKeeps ==
    ASSUME AgentInv, NEW calls \in Seq(ToolCall), GoOn(calls),
           UNCHANGED <<running, cycle, error>>
    PROVE  AgentInv' /\ pc' \in {"sleeping", "acting"}
BY DEF AgentInv, AgentTypeOK, GoOn

\* Calls joined one by one.
LEMMA OneThenOther ==
    ASSUME NEW x, NEW y
    PROVE  /\ <<>> \o <<>> = <<>> /\ <<x>> \o <<>> = <<x>>
           /\ <<>> \o <<y>> = <<y>> /\ <<x>> \o <<y>> = <<x, y>>
<1>1. <<>> \in Seq({x, y}) /\ <<x>> \in Seq({x, y}) /\ <<y>> \in Seq({x, y})
  OBVIOUS
<1>2. <<>> \o <<>> = <<>> /\ <<x>> \o <<>> = <<x>> /\ <<>> \o <<y>> = <<y>>
  BY <1>1, ConcatEmptySeq
<1>3. <<x>> \o <<y>> \in Seq({x, y}) /\ <<x, y>> \in Seq({x, y})
  BY <1>1, ConcatProperties
<1>4. Len(<<x>> \o <<y>>) = Len(<<x, y>>)
  BY <1>1, ConcatProperties
<1>5. \A i \in 1..Len(<<x>> \o <<y>>) : (<<x>> \o <<y>>)[i] = <<x, y>>[i]
  BY <1>1, <1>4, ConcatProperties
<1>6. <<x>> \o <<y>> = <<x, y>>
  BY <1>3, <1>4, <1>5, SeqEqual
<1> QED  BY <1>2, <1>6

\* What _stub_reason returns.
LEMMA StubDecides ==
    ASSUME NEW hot \in BOOLEAN, NEW high_wer \in BOOLEAN, NEW c \in Candidates \union {None}
    PROVE  StubPlan(hot, high_wer, c) \in Seq(Decided)
<1> DEFINE h == [type |-> "set_hint", arg |-> 750]
           v == [type |-> "evaluate", arg |-> c]
<1>1. h \in Decided /\ v \in Decided
  BY FactoryAssumption DEF Decided, Evaluable, Actions, Tools
<1>2. StubPlan(hot, high_wer, c) \in {<<>>, <<h>>, <<v>>, <<h, v>>}
  <2>1. /\ <<>> \o <<>> = <<>> /\ <<h>> \o <<>> = <<h>>
        /\ <<>> \o <<v>> = <<v>> /\ <<h>> \o <<v>> = <<h, v>>
    <3> HIDE DEF h, v
    <3> QED  BY OneThenOther
  <2>2. StubPlan(hot, high_wer, c) = (IF hot THEN <<h>> ELSE <<>>)
                                     \o (IF high_wer /\ c # None THEN <<v>> ELSE <<>>)
    BY Zenon DEF StubPlan
  <2> HIDE DEF h, v
  <2>3. CASE hot
    BY <2>1, <2>2, <2>3, Zenon
  <2>4. CASE ~hot
    BY <2>1, <2>2, <2>4, Zenon
  <2> QED  BY <2>3, <2>4
<1> HIDE DEF h, v
<1>3. /\ <<>> \in Seq(Decided) /\ <<h>> \in Seq(Decided)
      /\ <<v>> \in Seq(Decided) /\ <<h, v>> \in Seq(Decided)
  BY <1>1
<1> QED  BY <1>2, <1>3

\* What a language model may decide.
LEMMA ModelDecides ==
    ASSUME NEW actions \in Plans \union {<<>>}
    PROVE  actions \in Seq(Decided)
<1>1. CASE actions = <<>>
  BY <1>1, EmptySeq
<1>2. CASE actions \in Plans
  <2>1. /\ actions \in Seq(Actions)
        /\ \A i \in DOMAIN actions : Evaluable(actions[i])
    BY <1>2, AgentAssumption, FactoryAssumption DEF Evaluable
  <2>2. \A i \in 1..Len(actions) : actions[i] \in Decided
    BY <2>1, LenProperties, ElementOfSeq DEF Decided
  <2>3. Len(actions) \in Nat /\ actions = [i \in 1..Len(actions) |-> actions[i]]
    BY <2>1, LenProperties
  <2> QED  BY <2>2, <2>3
<1> QED  BY <1>1, <1>2

------------------------------------------------------------------------------
(* The agent's cycles and its evaluations *)

\* Evaluations begin one after the other.  The one the agent awaits is the latest,
\* of the model it named, and has not returned; an earlier one may still be going on.
CallsMatch ==
    /\ begun \in Nat
    /\ \A e \in Evaluations : e > begun => evaluation[e].stage = "none"
    /\ pc = "evaluating" =>
           /\ begun \in Evaluations
           /\ Head(plan).type = "evaluate"
           /\ evaluation[begun].stage \in {"next", "waiting", "done"}
           /\ evaluation[begun].model = Head(plan).arg

AgentAndCalls == AgentInv /\ CallsMatch

\* Steps of the agent that neither begin an evaluation nor await one.
LEMMA CallsStay ==
    ASSUME CallsMatch, AgentInv', pc' # "evaluating", UNCHANGED <<evaluation, begun>>
    PROVE  AgentAndCalls'
BY DEF AgentAndCalls, CallsMatch

LEMMA BeginRunKeeps ==
    ASSUME AgentAndCalls, BeginRun, UNCHANGED <<evaluation, begun>>  PROVE AgentAndCalls'
<1>1. AgentInv' /\ pc' # "evaluating"
  BY AgentAssumption DEF AgentAndCalls, AgentInv, AgentTypeOK, BeginRun
<1> QED  BY <1>1, CallsStay DEF AgentAndCalls

LEMMA WakeKeeps ==
    ASSUME AgentAndCalls, Wake, UNCHANGED <<evaluation, begun>>  PROVE AgentAndCalls'
<1>1. AgentInv' /\ pc' # "evaluating"
  BY AgentAssumption DEF AgentAndCalls, AgentInv, AgentTypeOK, Wake
<1> QED  BY <1>1, CallsStay DEF AgentAndCalls

LEMMA ReasonRaisesKeeps ==
    ASSUME AgentAndCalls, ReasonRaises, UNCHANGED <<evaluation, begun>>  PROVE AgentAndCalls'
<1>1. AgentInv' /\ pc' # "evaluating"
  BY DEF AgentAndCalls, AgentInv, AgentTypeOK, ReasonRaises
<1> QED  BY <1>1, CallsStay DEF AgentAndCalls

\* From an observation to the calls decided on.
LEMMA DecideKeeps ==
    ASSUME AgentAndCalls, NEW actions \in Seq(Decided), Decide(actions),
           UNCHANGED <<running, cycle, error, evaluation, begun>>
    PROVE  AgentAndCalls'
<1>1. PICK calls \in Seq(ToolCall) : GoOn(calls)
  BY DecideGoesOn
<1>2. AgentInv' /\ pc' # "evaluating"
  BY <1>1, GoOnKeeps DEF AgentAndCalls
<1> QED  BY <1>2, CallsStay DEF AgentAndCalls

LEMMA ObserveKeeps ==
    ASSUME AgentAndCalls, Observe, UNCHANGED <<evaluation, begun>>  PROVE AgentAndCalls'
<1>1. pc = "observing" /\ UNCHANGED <<running, cycle, error, evaluation, begun>>
  BY DEF Observe
<1>2. ASSUME NEW hot \in BOOLEAN, NEW high_wer \in BOOLEAN, NEW c \in Candidates \union {None},
             Decide(StubPlan(hot, high_wer, c))
      PROVE  AgentAndCalls'
  BY <1>1, <1>2, StubDecides, DecideKeeps
<1>3. CASE pc' = "reasoning" /\ UNCHANGED plan
  <2>1. AgentInv' /\ pc' # "evaluating"
    BY <1>1, <1>3 DEF AgentAndCalls, AgentInv, AgentTypeOK
  <2> QED  BY <1>1, <2>1, CallsStay DEF AgentAndCalls
<1> QED  BY <1>2, <1>3, Zenon DEF Observe

LEMMA ModelAnswersKeeps ==
    ASSUME AgentAndCalls, ModelAnswers, UNCHANGED <<evaluation, begun>>  PROVE AgentAndCalls'
<1>1. UNCHANGED <<running, cycle, error, evaluation, begun>>
  BY DEF ModelAnswers
<1>2. PICK actions \in Plans \union {<<>>} : Decide(actions)
  BY Zenon DEF ModelAnswers
<1> QED  BY <1>1, <1>2, ModelDecides, DecideKeeps

\* A tool call that is over leaves those behind it.
LEMMA CallOver ==
    ASSUME AgentInv, pc \in {"acting", "evaluating"}, GoOn(Tail(plan)),
           UNCHANGED <<running, cycle, error>>
    PROVE  AgentInv' /\ pc' # "evaluating"
<1>1. plan # <<>>
  BY DEF AgentInv, AgentTypeOK
<1> QED  BY <1>1, TailGoesOn, GoOnKeeps

LEMMA AgentStepKeeps ==
    ASSUME AgentAndCalls, AgentStep  PROVE AgentAndCalls'
<1>1. UNCHANGED <<evaluation, begun>>
  BY DEF AgentStep, evaluatorVars
<1>2. CASE SetHint \/ CallReturns
  <2>1. AgentInv' /\ pc' # "evaluating"
    BY <1>2, CallOver DEF AgentAndCalls, SetHint, CallReturns, Calls
  <2> QED  BY <1>1, <2>1, CallsStay DEF AgentAndCalls
<1> QED
  BY <1>1, <1>2, BeginRunKeeps, ObserveKeeps, ModelAnswersKeeps, ReasonRaisesKeeps, WakeKeeps
     DEF AgentStep

LEMMA ToolRaisesKeeps ==
    ASSUME AgentAndCalls, ToolRaises, UNCHANGED <<evaluation, begun>>  PROVE AgentAndCalls'
<1>1. AgentInv /\ plan # <<>>
  BY DEF AgentAndCalls, AgentInv, AgentTypeOK, ToolRaises
<1>2. Head(plan).type \in Tools
  BY <1>1, TailGoesOn DEF ToolCall
<1>3. AgentInv' /\ pc' # "evaluating"
  BY <1>1, <1>2 DEF AgentInv, AgentTypeOK, ToolRaises
<1> QED  BY <1>3, CallsStay DEF AgentAndCalls

\* The hint table and the running flag are no part of it.
LEMMA BesidesTheCycle ==
    ASSUME AgentAndCalls, UNCHANGED <<pc, cycle, plan, error, evaluation, begun>>,
           running' \in BOOLEAN
    PROVE  AgentAndCalls'
<1>1. AgentInv'
  BY DEF AgentAndCalls, AgentInv, AgentTypeOK
<1>2. CallsMatch'
  BY DEF AgentAndCalls, CallsMatch
<1> QED  BY <1>1, <1>2 DEF AgentAndCalls

------------------------------------------------------------------------------
(* Each evaluation and the requests it posts *)

\* The samples an evaluation has not come to have no request yet, and the one it
\* awaits has: by its own candidate.  So no sample is posted twice, whatever is
\* still being answered, and no post finds its request made.
RequestsFollow ==
    \A e \in Evaluations :
        /\ \A i \in DOMAIN Samples[e] :
               /\ i > evaluation[e].scored
               /\ i = evaluation[e].scored + 1 => evaluation[e].stage # "waiting"
               => request[<<e, i>>].stage = "none"
        /\ evaluation[e].stage = "waiting" =>
               /\ request[Current(e)].stage # "none"
               /\ request[Current(e)].model = evaluation[e].model

LEMMA SampleIsRequested ==
    ASSUME NEW e \in Evaluations, NEW i \in DOMAIN Samples[e]
    PROVE  <<e, i>> \in SampleRequests /\ <<e, i>> \in Requests /\ i \in Nat
BY EvaluatorAssumption, SamplesAreTexts DEF SampleRequests

\* An evaluation that goes on has a sample in turn, and a request for it.
LEMMA SampleInTurn ==
    ASSUME EvaluatorInv, NEW e \in Evaluations, evaluation[e].stage \in {"next", "waiting"}
    PROVE  /\ evaluation[e].scored \in Nat /\ Sample(e) = evaluation[e].scored + 1
           /\ Sample(e) \in DOMAIN Samples[e] /\ Current(e) = <<e, Sample(e)>>
           /\ Current(e) \in Requests /\ Current(e) \in SampleRequests
<1>1. /\ evaluation[e] \in EvaluationType /\ evaluation[e].scored < Len(Samples[e])
  BY DEF EvaluatorInv
<1>2. /\ evaluation[e].scored \in Nat /\ Sample(e) = evaluation[e].scored + 1
      /\ Sample(e) \in DOMAIN Samples[e]
  BY <1>1, SamplesAreTexts DEF EvaluationType, Sample
<1> QED  BY <1>2, SampleIsRequested DEF Current

\* No sample is posted while evaluations move past a sample or stay where they are.
LEMMA NoneIsPosted ==
    ASSUME EvaluatorInv, RequestsFollow,
           \A r \in SampleRequests :
               /\ request'[r].stage = "none" <=> request[r].stage = "none"
               /\ request'[r].model = request[r].model,
           \A e \in Evaluations :
               \/ evaluation'[e] = evaluation[e]
               \/ /\ evaluation'[e].stage # "waiting"
                  /\ \/ evaluation'[e].scored = evaluation[e].scored + 1
                     \/ /\ evaluation[e].stage # "waiting"
                        /\ evaluation'[e].scored = evaluation[e].scored
    PROVE  RequestsFollow'
<1> SUFFICES ASSUME NEW e \in Evaluations
             PROVE  /\ \A i \in DOMAIN Samples[e] :
                           /\ i > evaluation'[e].scored
                           /\ i = evaluation'[e].scored + 1 => evaluation'[e].stage # "waiting"
                           => request'[<<e, i>>].stage = "none"
                    /\ evaluation'[e].stage = "waiting" =>
                           /\ request'[Current(e)'].stage # "none"
                           /\ request'[Current(e)'].model = evaluation'[e].model
  BY Zenon DEF RequestsFollow
<1>1. evaluation[e].scored \in Nat
  BY DEF EvaluatorInv, EvaluationType
<1>2. ASSUME NEW i \in DOMAIN Samples[e], i > evaluation'[e].scored,
             i = evaluation'[e].scored + 1 => evaluation'[e].stage # "waiting"
      PROVE  request'[<<e, i>>].stage = "none"
  <2>1. /\ i \in Nat /\ i > evaluation[e].scored
        /\ i = evaluation[e].scored + 1 => evaluation[e].stage # "waiting"
    <3>1. i \in Nat
      BY SampleIsRequested
    <3>2. CASE evaluation'[e] = evaluation[e]
      BY <1>2, <3>1, <3>2
    <3>3. CASE evaluation'[e].scored = evaluation[e].scored + 1
      <4>1. i > evaluation[e].scored + 1
        BY <1>2, <3>3
      <4>2. i > evaluation[e].scored /\ i # evaluation[e].scored + 1
        BY <1>1, <3>1, <4>1
      <4> QED  BY <3>1, <4>2
    <3>4. CASE evaluation[e].stage # "waiting" /\ evaluation'[e].scored = evaluation[e].scored
      BY <1>2, <3>1, <3>4
    <3> QED  BY <3>2, <3>3, <3>4
  <2> QED  BY <2>1, SampleIsRequested DEF RequestsFollow
<1>3. ASSUME evaluation'[e].stage = "waiting"
      PROVE  /\ request'[Current(e)'].stage # "none"
             /\ request'[Current(e)'].model = evaluation'[e].model
  <2>1. evaluation'[e] = evaluation[e] /\ Current(e)' = Current(e)
    BY <1>3 DEF Current, Sample
  <2>2. Current(e) \in SampleRequests
    BY <1>3, <2>1, SampleInTurn
  <2> QED  BY <1>3, <2>1, <2>2 DEF RequestsFollow
<1> QED  BY <1>2, <1>3

\* A sample is posted.
LEMMA OneIsPosted ==
    ASSUME EvaluatorInv, RequestsFollow, WorkerInv, NEW e \in Evaluations, Post(e)
    PROVE  RequestsFollow'
<1>1. /\ evaluation[e].stage = "next" /\ evaluation'[e].stage = "waiting"
      /\ evaluation'[e].scored = evaluation[e].scored
      /\ evaluation'[e].model = evaluation[e].model
      /\ \A d \in Evaluations \ {e} : evaluation'[d] = evaluation[d]
  BY PostKeeps
<1>2. /\ Current(e) \in Requests /\ Current(e) = <<e, evaluation[e].scored + 1>>
      /\ evaluation[e].scored \in Nat
  BY <1>1, SampleInTurn
<1>3. /\ request'[Current(e)].stage = "transcribing"
      /\ request'[Current(e)].model = evaluation[e].model
      /\ \A r \in Requests : r # Current(e) => request'[r] = request[r]
  <2>1. request \in [Requests -> RequestType] /\ Receive(Current(e), evaluation[e].model, "audio")
    BY DEF WorkerInv, Post
  <2> HIDE DEF Current
  <2>2. /\ request' = [request EXCEPT ![Current(e)].model = evaluation[e].model,
                                      ![Current(e)].stage = "transcribing"]
        /\ request[Current(e)] \in RequestType
    BY <1>2, <2>1 DEF Receive
  <2> QED  BY <1>2, <2>1, <2>2 DEF RequestType
<1>4. ASSUME NEW d \in Evaluations, NEW i \in DOMAIN Samples[d], i > evaluation'[d].scored,
             i = evaluation'[d].scored + 1 => evaluation'[d].stage # "waiting"
      PROVE  request'[<<d, i>>].stage = "none"
  <2>1. <<d, i>> \in Requests
    BY SampleIsRequested
  <2>2. CASE d = e
    <3>1. i # evaluation[e].scored + 1 /\ <<d, i>> # Current(e) /\ i > evaluation[e].scored
      BY <1>1, <1>2, <1>4, <2>2
    <3> QED  BY <1>3, <2>1, <2>2, <3>1 DEF RequestsFollow
  <2>3. CASE d # e
    <3>1. evaluation'[d] = evaluation[d] /\ <<d, i>> # Current(e)
      BY <1>1, <1>2, <2>3
    <3> QED  BY <1>3, <1>4, <2>1, <3>1 DEF RequestsFollow
  <2> QED  BY <2>2, <2>3
<1>5. ASSUME NEW d \in Evaluations, evaluation'[d].stage = "waiting"
      PROVE  /\ request'[Current(d)'].stage # "none"
             /\ request'[Current(d)'].model = evaluation'[d].model
  <2>1. CASE d = e
    <3>1. Current(d)' = Current(e)
      BY <1>1, <2>1 DEF Current, Sample
    <3> QED  BY <1>1, <1>3, <2>1, <3>1
  <2>2. CASE d # e
    <3>1. evaluation'[d] = evaluation[d] /\ Current(d)' = Current(d)
      BY <1>1, <2>2 DEF Current, Sample
    <3>2. Current(d) \in Requests /\ Current(d) # Current(e)
      BY <1>5, <2>2, <3>1, SampleInTurn DEF Current
    <3> QED  BY <1>3, <1>5, <3>1, <3>2 DEF RequestsFollow
  <2> QED  BY <2>1, <2>2
<1> QED  BY <1>4, <1>5, Zenon DEF RequestsFollow

------------------------------------------------------------------------------
(* The factory *)

FactoryInv == AgentAndCalls /\ EvaluatorInv /\ WorkerInv /\ RequestsFollow

LEMMA FactoryStarts ==
    ASSUME Init  PROVE FactoryInv
<1>1. AgentInv /\ EvaluatorInv /\ WorkerInv
  BY AgentStarts, EvaluatorStarts, WorkerStarts DEF Init
<1>2. CallsMatch
  BY DEF Init, AgentInit, EvaluatorInit, CallsMatch
<1>3. RequestsFollow
  <2>1. \A e \in Evaluations : evaluation[e].stage = "none"
    BY DEF Init, EvaluatorInit
  <2>2. \A r \in Requests : request[r].stage = "none"
    BY DEF Init, WorkerInit, NoRequest
  <2> QED  BY <2>1, <2>2, SampleIsRequested DEF RequestsFollow
<1> QED  BY <1>1, <1>2, <1>3 DEF FactoryInv, AgentAndCalls

\* The worker and the evaluations are no part of what the agent does alone.
LEMMA AgentAlone ==
    ASSUME FactoryInv, AgentAndCalls', UNCHANGED <<evaluatorVars, workerVars>>
    PROVE  FactoryInv'
<1>1. EvaluatorInv'
  BY DEF FactoryInv, EvaluatorInv, evaluatorVars
<1>2. WorkerInv'
  BY StartWorkerKeeps DEF FactoryInv
<1>3. RequestsFollow'
  BY NoneIsPosted DEF FactoryInv, evaluatorVars, workerVars
<1> QED  BY <1>1, <1>2, <1>3 DEF FactoryInv

LEMMA AgentEvaluatesKeeps ==
    ASSUME FactoryInv, AgentEvaluates
    PROVE  FactoryInv' /\ \A e \in Evaluations : evaluation'[e].scored = evaluation[e].scored
<1> DEFINE e == begun + 1
<1>1. /\ AgentInv /\ CallsMatch /\ EvaluatorInv /\ WorkerInv /\ RequestsFollow
      /\ pc = "acting" /\ Head(plan).type = "evaluate" /\ Head(plan).arg # None
      /\ pc' = "evaluating" /\ UNCHANGED <<running, cycle, plan, error>>
      /\ e \in Evaluations /\ begun' = e
      /\ BeginEvaluation(e, Head(plan).arg) /\ UNCHANGED workerVars
  BY DEF FactoryInv, AgentAndCalls, AgentEvaluates, CallEvaluate, Calls, HasArgument
<1>2. plan # <<>> /\ begun \in Nat
  BY <1>1 DEF AgentInv, AgentTypeOK, CallsMatch
<1>3. Head(plan).arg \in Models
  BY <1>1, <1>2, TailGoesOn DEF ToolCall, Decided, Evaluable
<1>4. e \in Nat /\ \A d \in Evaluations : d > e => d > begun /\ d # e
  BY <1>2, FactoryAssumption
<1> HIDE DEF e
<1>5. /\ EvaluatorInv'
      /\ evaluation[e].stage = "none" /\ evaluation'[e].stage \in {"next", "done"}
      /\ evaluation'[e].model = Head(plan).arg
      /\ evaluation'[e].scored = evaluation[e].scored
      /\ \A d \in Evaluations \ {e} : evaluation'[d] = evaluation[d]
  BY <1>1, <1>3, BeginEvaluationKeeps
<1>6. AgentInv'
  BY <1>1, <1>2 DEF AgentInv, AgentTypeOK
<1>7. CallsMatch'
  <2>1. \A d \in Evaluations : d > e => evaluation'[d].stage = "none"
    BY <1>1, <1>4, <1>5 DEF CallsMatch
  <2> QED  BY <1>1, <1>4, <1>5, <2>1 DEF CallsMatch
<1>8. RequestsFollow'
  BY <1>1, <1>5, NoneIsPosted DEF workerVars
<1>9. WorkerInv'
  BY <1>1, StartWorkerKeeps
<1> QED  BY <1>5, <1>6, <1>7, <1>8, <1>9 DEF FactoryInv, AgentAndCalls

LEMMA AgentGetsMetricsKeeps ==
    ASSUME FactoryInv, AgentGetsMetrics
    PROVE  FactoryInv' /\ \A e \in Evaluations : evaluation'[e].scored = evaluation[e].scored
<1>1. /\ AgentInv /\ CallsMatch /\ EvaluatorInv /\ WorkerInv /\ RequestsFollow
      /\ pc = "evaluating" /\ GoOn(Tail(plan)) /\ UNCHANGED <<running, cycle, error>>
      /\ MetricsReturned(begun) /\ UNCHANGED <<workerVars, begun>>
  BY DEF FactoryInv, AgentAndCalls, AgentGetsMetrics, EvaluateReturns
<1>2. begun \in Evaluations /\ begun \in Nat
  BY <1>1 DEF CallsMatch
<1>3. /\ EvaluatorInv'
      /\ evaluation[begun].stage = "done" /\ evaluation'[begun].stage = "returned"
      /\ evaluation'[begun].scored = evaluation[begun].scored
      /\ \A d \in Evaluations \ {begun} : evaluation'[d] = evaluation[d]
  BY <1>1, <1>2, MetricsReturnedKeeps
<1>4. AgentInv' /\ pc' # "evaluating"
  BY <1>1, CallOver
<1>5. CallsMatch'
  <2>1. \A d \in Evaluations : d > begun => d \in Evaluations \ {begun}
    BY <1>2
  <2> QED  BY <1>1, <1>3, <1>4, <2>1 DEF CallsMatch
<1>6. RequestsFollow'
  BY <1>1, <1>3, NoneIsPosted DEF workerVars
<1>7. WorkerInv'
  BY <1>1, StartWorkerKeeps
<1> QED  BY <1>3, <1>4, <1>5, <1>6, <1>7 DEF FactoryInv, AgentAndCalls

\* The sample in turn is scored by the text its own request was answered with, by
\* the empty text, or by the stub's.
ScoredBy(e, hyp) ==
    /\ evaluation[e].stage \in {"next", "waiting"} /\ Score(e, hyp)
    /\ hyp \in Hypotheses
    /\ hyp \in {<<>>, IF session THEN request[Current(e)].text ELSE HelloWorld}

LEMMA EvaluatorScores ==
    ASSUME FactoryInv, NEW e \in Evaluations, EvaluatorStep(e)
    PROVE  \/ Post(e)
           \/ /\ \E hyp : ScoredBy(e, hyp)
              /\ UNCHANGED workerVars \/ TakesText(Current(e))
<1>1. EvaluatorInv /\ WorkerInv
  BY DEF FactoryInv
<1>2. CASE StubTranscribes(e)
  <2>1. HelloWorld \in Hypotheses
    BY DEF Hypotheses
  <2>2. ScoredBy(e, HelloWorld) /\ UNCHANGED workerVars
    BY <1>2, <2>1 DEF StubTranscribes, ScoredBy
  <2> QED  BY <2>2
<1>3. CASE AnswerArrives(e)
  <2>1. evaluation[e].stage = "waiting" /\ session /\ Current(e) \in Requests
    BY <1>1, <1>3, SampleInTurn DEF AnswerArrives, EvaluatorInv
  <2>2. request[Current(e)].text \in Hypotheses
    BY <1>1, <2>1 DEF WorkerInv, RequestType, Hypotheses
  <2>3. ScoredBy(e, request[Current(e)].text) /\ TakesText(Current(e))
    BY <1>3, <2>1, <2>2 DEF AnswerArrives, ScoredBy, TakesText
  <2> QED  BY <2>3
<1>4. CASE TranscriptionFails(e)
  <2>1. <<>> \in Hypotheses
    BY DEF Hypotheses
  <2>2. ScoredBy(e, <<>>) /\ UNCHANGED workerVars
    BY <1>4, <2>1 DEF TranscriptionFails, ScoredBy
  <2> QED  BY <2>2
<1> QED  BY <1>2, <1>3, <1>4 DEF EvaluatorStep, TranscribeStep

\* What a score leaves, and what it adds.
LEMMA ScoredByAdds ==
    ASSUME EvaluatorInv, NEW e \in Evaluations, NEW hyp, ScoredBy(e, hyp)
    PROVE  /\ EvaluatorInv' /\ hyp \in Text
           /\ evaluation'[e].scored = evaluation[e].scored + 1
           /\ evaluation'[e].stage \in {"next", "done"}
           /\ evaluation'[e].model = evaluation[e].model
           /\ evaluation'[e].totals =
                  AddErrors(evaluation[e].totals, Samples[e][Sample(e)], hyp)
           /\ Samples[e][Sample(e)] \in References \intersect Text
           /\ \A d \in Evaluations \ {e} : evaluation'[d] = evaluation[d]
<1>1. hyp \in Text
  BY EvaluatorAssumption DEF ScoredBy, Text
<1> QED  BY <1>1, ScoreAdds DEF ScoredBy

\* An evaluation goes on, whether the agent still awaits it or not.
LEMMA CallsStand ==
    ASSUME AgentInv, CallsMatch, UNCHANGED <<pc, running, cycle, plan, error, begun>>,
           NEW e \in Evaluations, evaluation[e].stage \in {"next", "waiting"},
           evaluation'[e].stage \in {"next", "waiting", "done"},
           evaluation'[e].model = evaluation[e].model,
           \A d \in Evaluations \ {e} : evaluation'[d] = evaluation[d]
    PROVE  AgentAndCalls'
<1>1. AgentInv'
  BY DEF AgentInv, AgentTypeOK
<1>2. \A d \in Evaluations : d > begun => evaluation'[d].stage = "none"
  <2>1. ~ (e > begun)
    BY DEF CallsMatch
  <2> QED  BY <2>1 DEF CallsMatch
<1>3. ASSUME pc = "evaluating"
      PROVE  /\ evaluation'[begun].stage \in {"next", "waiting", "done"}
             /\ evaluation'[begun].model = Head(plan).arg
  BY <1>3 DEF CallsMatch
<1>4. CallsMatch'
  BY <1>2, <1>3 DEF CallsMatch
<1> QED  BY <1>1, <1>4 DEF AgentAndCalls

LEMMA EvaluatorStepKeeps ==
    ASSUME FactoryInv, NEW e \in Evaluations, EvaluatorStep(e)
    PROVE  FactoryInv'
<1>1. AgentInv /\ CallsMatch /\ EvaluatorInv /\ WorkerInv /\ RequestsFollow
  BY DEF FactoryInv, AgentAndCalls
<1>2. UNCHANGED <<pc, running, cycle, plan, error, begun>>
  BY DEF EvaluatorStep, agentVars
<1>3. CASE Post(e)
  <2>1. EvaluatorInv' /\ RequestsFollow'
    BY <1>1, <1>3, PostKeeps, OneIsPosted
  <2>2. evaluation[e] \in EvaluationType /\ evaluation[e].stage = "next"
    BY <1>1, <1>3 DEF EvaluatorInv, Post
  <2>3. Current(e) \in Requests /\ evaluation[e].model \in Models \union {NoModel}
    BY <1>1, <2>2, SampleInTurn DEF EvaluationType
  <2>4. WorkerInv'
    BY <1>1, <1>3, <2>3, ReceiveKeeps DEF Post
  <2> QED  BY <1>1, <1>2, <1>3, <2>1, <2>4, PostKeeps, CallsStand DEF FactoryInv
<1>4. CASE /\ \E hyp : ScoredBy(e, hyp)
           /\ UNCHANGED workerVars \/ TakesText(Current(e))
  <2>1. PICK hyp : ScoredBy(e, hyp)
    BY <1>4
  <2>2. /\ EvaluatorInv' /\ evaluation[e].stage \in {"next", "waiting"}
        /\ evaluation'[e].scored = evaluation[e].scored + 1
        /\ evaluation'[e].stage \in {"next", "done"}
        /\ evaluation'[e].model = evaluation[e].model
        /\ \A d \in Evaluations \ {e} : evaluation'[d] = evaluation[d]
    BY <1>1, <2>1, ScoredByAdds DEF ScoredBy
  <2>3. AgentAndCalls'
    BY <1>1, <1>2, <2>2, CallsStand
  <2>4. Current(e) \in Requests
    BY <1>1, <2>2, SampleInTurn
  <2>5. WorkerInv'
    BY <1>1, <1>4, <2>4, StartWorkerKeeps, TakesTextKeeps
  <2>6. \A r \in Requests : /\ request'[r].stage = request[r].stage
                            /\ request'[r].model = request[r].model
    <3>1. CASE UNCHANGED workerVars
      BY <3>1 DEF workerVars
    <3>2. CASE TakesText(Current(e))
      BY <1>1, <2>4, <3>2 DEF TakesText, WorkerInv, RequestType
    <3> QED  BY <1>4, <3>1, <3>2
  <2>7. RequestsFollow'
    BY <1>1, <2>2, <2>6, EvaluatorAssumption, NoneIsPosted
  <2> QED  BY <2>2, <2>3, <2>5, <2>7 DEF FactoryInv
<1> QED  BY <1>3, <1>4, EvaluatorScores

\* The agent and the evaluations are no part of what the worker does.
LEMMA WorkerAlone ==
    ASSUME FactoryInv, WorkerInv', UNCHANGED <<agentVars, evaluatorVars, begun>>,
           \A r \in SampleRequests : /\ request'[r].stage = "none" <=> request[r].stage = "none"
                                     /\ request'[r].model = request[r].model
    PROVE  FactoryInv'
<1>1. AgentAndCalls'
  BY BesidesTheCycle DEF FactoryInv, AgentAndCalls, AgentInv, AgentTypeOK, agentVars, evaluatorVars
<1>2. EvaluatorInv'
  BY DEF FactoryInv, EvaluatorInv, evaluatorVars
<1>3. RequestsFollow'
  BY NoneIsPosted DEF FactoryInv, evaluatorVars
<1> QED  BY <1>1, <1>2, <1>3 DEF FactoryInv

LEMMA WorkerStepKeeps ==
    ASSUME FactoryInv, NEW r \in Requests, WorkerStep(r)
    PROVE  FactoryInv' /\ UNCHANGED evaluation
<1>1. WorkerInv /\ request \in [Requests -> RequestType] /\ request[r] \in RequestType
  BY DEF FactoryInv, WorkerInv
<1>2. UNCHANGED <<agentVars, evaluatorVars, begun>>
  BY DEF WorkerStep, WorkerTranscribes
<1>3. CASE EngineRaises(r)
  <2>1. /\ request[r].stage = "transcribing" /\ request'[r].stage = "failed"
        /\ request'[r].model = request[r].model
        /\ \A q \in Requests : q # r => request'[q] = request[q]
    BY <1>1, <1>3 DEF EngineRaises, RequestType
  <2>2. \A q \in SampleRequests :
            /\ request'[q].stage = "none" <=> request[q].stage = "none"
            /\ request'[q].model = request[q].model
    BY <2>1, EvaluatorAssumption
  <2> QED  BY <1>1, <1>2, <1>3, <2>2, EngineRaisesKeeps, WorkerAlone DEF evaluatorVars
<1>4. CASE WorkerTranscribes(r)
  <2>1. PICK text : Transcribed(r, text)
    BY <1>4 DEF WorkerTranscribes
  <2>2. /\ request[r].stage = "transcribing" /\ request'[r].stage = "answered"
        /\ request'[r].model = request[r].model
        /\ \A q \in Requests : q # r => request'[q] = request[q]
    BY <1>1, <2>1 DEF Transcribed, RequestType
  <2>3. \A q \in SampleRequests :
            /\ request'[q].stage = "none" <=> request[q].stage = "none"
            /\ request'[q].model = request[q].model
    BY <2>2, EvaluatorAssumption
  <2> QED  BY <1>1, <1>2, <2>1, <2>3, TranscribedKeeps, WorkerAlone DEF evaluatorVars
<1> QED  BY <1>3, <1>4 DEF WorkerStep

LEMMA OtherStepKeeps ==
    ASSUME FactoryInv, OtherStep
    PROVE  FactoryInv' /\ UNCHANGED evaluation
<1>1. WorkerInv /\ AgentAndCalls
  BY DEF FactoryInv
<1>2. CASE StartWorker /\ UNCHANGED <<agentVars, evaluatorVars, begun>>
  BY <1>1, <1>2, StartWorkerKeeps, WorkerAlone DEF StartWorker, evaluatorVars
<1>3. ASSUME NEW r \in Requests \ SampleRequests, NEW content \in Contents,
             Receive(r, NoModel, content), UNCHANGED <<agentVars, evaluatorVars, begun>>
      PROVE  FactoryInv' /\ UNCHANGED evaluation
  <2>1. WorkerInv'
    BY <1>1, <1>3, ReceiveKeeps
  <2>2. \A q \in SampleRequests : request'[q] = request[q]
    BY <1>1, <1>3, EvaluatorAssumption DEF Receive, WorkerInv
  <2> QED  BY <1>3, <2>1, <2>2, WorkerAlone DEF evaluatorVars
<1>4. CASE /\ (\E v \in Hints : OtherSetsHint(v)) \/ StopAgent
           /\ UNCHANGED <<evaluatorVars, workerVars, begun>>
  <2>1. UNCHANGED <<pc, cycle, plan, error, evaluation, begun>> /\ running' \in BOOLEAN
    BY <1>1, <1>4 DEF OtherSetsHint, StopAgent, evaluatorVars, AgentAndCalls, AgentInv, AgentTypeOK
  <2> QED  BY <1>1, <1>4, <2>1, BesidesTheCycle, AgentAlone
<1> QED  BY <1>2, <1>3, <1>4 DEF OtherStep

LEMMA AgentActs ==
    ASSUME FactoryInv, AgentStep \/ AgentToolRaises
    PROVE  FactoryInv' /\ UNCHANGED evaluation
<1>1. AgentAndCalls /\ UNCHANGED <<evaluatorVars, workerVars>> /\ UNCHANGED evaluation
  BY DEF FactoryInv, AgentStep, AgentToolRaises, evaluatorVars
<1>2. AgentAndCalls'
  BY <1>1, AgentStepKeeps, ToolRaisesKeeps DEF AgentToolRaises
<1> QED  BY <1>1, <1>2, AgentAlone

LEMMA FactoryStays ==
    ASSUME FactoryInv, [Next]_factoryVars
    PROVE  FactoryInv'
<1>1. CASE UNCHANGED factoryVars
  BY <1>1, WorkerAlone, StartWorkerKeeps DEF FactoryInv, factoryVars, workerVars
<1>2. CASE Next
  BY <1>2, AgentActs, AgentEvaluatesKeeps, AgentGetsMetricsKeeps, EvaluatorStepKeeps,
     WorkerStepKeeps, OtherStepKeeps DEF Next
<1> QED  BY <1>1, <1>2

(* The factory's inductive invariant: the agent awaits only the latest of   *)
(* its evaluations, an evaluation it no longer waits for goes on with the  *)
(* samples and the candidate it was begun with, and the worker's count and  *)
(* its requests stay together.                                              *)
THEOREM FactoryCorrect == Init /\ [][Next]_factoryVars => []FactoryInv
<1>1. Init => FactoryInv
  BY FactoryStarts
<1>2. FactoryInv /\ [Next]_factoryVars => FactoryInv'
  BY FactoryStays
<1> QED  BY <1>1, <1>2, PTL

(* The agent, the worker and the evaluations keep their types.              *)
THEOREM FactoryTypeCorrect == Spec => [](AgentTypeOK /\ WorkerTypeOK /\ EvaluatorTypeOK)
<1>1. FactoryInv => AgentTypeOK /\ WorkerTypeOK /\ EvaluatorTypeOK
  BY WorkerInvMeaning, EvaluatorInvMeaning DEF FactoryInv, AgentAndCalls, AgentInv
<1> QED  BY <1>1, FactoryCorrect, PTL DEF Spec

(* transcribe's _request_count is at any time the number of requests that   *)
(* have a transcript, whoever waits for them.                               *)
THEOREM TranscriptionsAreCounted == Spec => []CountsTranscribed
<1>1. FactoryInv => CountsTranscribed
  BY WorkerInvMeaning DEF FactoryInv
<1> QED  BY <1>1, FactoryCorrect, PTL DEF Spec

(* The agent awaits the latest evaluation it began, which is of the model it *)
(* named and has not returned to it yet; and each sample is posted at most   *)
(* once, with the candidate of its own evaluation.                           *)
THEOREM EvaluationsMatch == Spec => [](CallsMatch /\ RequestsFollow)
<1>1. FactoryInv => CallsMatch /\ RequestsFollow
  BY DEF FactoryInv, AgentAndCalls
<1> QED  BY <1>1, FactoryCorrect, PTL DEF Spec

\* The number of scored samples grows only where one is scored.
LEMMA ScoredOnlyByScore ==
    ASSUME FactoryInv, [Next]_factoryVars, NEW e \in Evaluations,
           evaluation'[e].scored # evaluation[e].scored
    PROVE  \E hyp : ScoredBy(e, hyp)
<1>1. CASE UNCHANGED factoryVars \/ AgentStep \/ AgentToolRaises \/ OtherStep
           \/ (\E r \in Requests : WorkerStep(r))
  <2>1. evaluation' = evaluation
    BY <1>1, AgentActs, OtherStepKeeps, WorkerStepKeeps DEF factoryVars, evaluatorVars
  <2> QED  BY <2>1
<1>2. CASE AgentEvaluates \/ AgentGetsMetrics
  BY <1>2, AgentEvaluatesKeeps, AgentGetsMetricsKeeps
<1>3. ASSUME NEW d \in Evaluations, EvaluatorStep(d)
      PROVE  \E hyp : ScoredBy(e, hyp)
  <2>1. EvaluatorInv
    BY DEF FactoryInv
  <2>2. ~ Post(d)
    BY <2>1, PostKeeps
  <2>3. PICK hyp : ScoredBy(d, hyp)
    BY <1>3, <2>2, EvaluatorScores
  <2>4. d = e
    BY <2>1, <2>3, ScoredByAdds
  <2> QED  BY <2>3, <2>4
<1> QED  BY <1>1, <1>2, <1>3 DEF Next

(* What evaluate_model adds up for a sample is the least number of word and *)
(* letter edits that make its reference out of the text its own request was *)
(* answered with, for samples and transcripts of any length.                *)
THEOREM SamplesAreScored == Spec => ScoresAreLeastEdits
<1> DEFINE Right(e) ==
        \E hyp \in Hypotheses :
            LET ref == Samples[e][Sample(e)]
                t == evaluation[e].totals
                u == evaluation'[e].totals
            IN  /\ hyp \in {<<>>, IF session THEN request[Current(e)].text ELSE HelloWorld}
                /\ u.wer_errors - t.wer_errors = LeastWordEdits[<<ref, hyp>>]
                /\ u.cer_errors - t.cer_errors = LeastCharEdits[<<ref, hyp>>]
                /\ u.words - t.words = Max({Len(ref), 1})
                /\ u.chars - t.chars = Max({Len(Chars(ref)), 1})
<1>1. ASSUME FactoryInv, [Next]_factoryVars, NEW e \in Evaluations,
             evaluation'[e].scored # evaluation[e].scored
      PROVE  Right(e)
  <2>1. PICK hyp : ScoredBy(e, hyp)
    BY <1>1, ScoredOnlyByScore
  <2>2. evaluation[e].totals \in TotalsType /\ EvaluatorInv
    BY <1>1 DEF FactoryInv, EvaluatorInv, EvaluationType
  <2>3. /\ hyp \in Text /\ Samples[e][Sample(e)] \in References \intersect Text
        /\ evaluation'[e].totals =
               AddErrors(evaluation[e].totals, Samples[e][Sample(e)], hyp)
    BY <2>1, <2>2, ScoredByAdds
  <2>4. /\ hyp \in Hypotheses
        /\ hyp \in {<<>>, IF session THEN request[Current(e)].text ELSE HelloWorld}
    BY <2>1 DEF ScoredBy
  <2> DEFINE ref == Samples[e][Sample(e)]
             t == evaluation[e].totals
             u == evaluation'[e].totals
  <2>5. /\ u.wer_errors - t.wer_errors = LeastEdits(ref, hyp)
        /\ u.cer_errors - t.cer_errors = LeastEdits(Chars(ref), Chars(hyp))
        /\ u.words - t.words = Max({Len(ref), 1})
        /\ u.chars - t.chars = Max({Len(Chars(ref)), 1})
    <3>1. t \in TotalsType /\ ref \in Text /\ hyp \in Text /\ u = AddErrors(t, ref, hyp)
      BY <2>2, <2>3
    <3> HIDE DEF t, u, ref
    <3> QED  BY <3>1, AddErrorsAdds, Zenon
  <2>6. /\ LeastWordEdits[<<ref, hyp>>] = LeastEdits(ref, hyp)
        /\ LeastCharEdits[<<ref, hyp>>] = LeastEdits(Chars(ref), Chars(hyp))
    <3>1. <<ref, hyp>> \in References \X Hypotheses
      BY <2>3, <2>4
    <3> QED  BY <3>1 DEF LeastWordEdits, LeastCharEdits
  <2> HIDE DEF t, u, ref
  <2>7. hyp \in Hypotheses
    BY <2>4
  <2> QED  BY <2>4, <2>5, <2>6, <2>7 DEF t, u, ref
<1>2. FactoryInv /\ [Next]_factoryVars =>
          [\A e \in Evaluations : evaluation'[e].scored # evaluation[e].scored => Right(e)
          ]_<<workerVars, evaluatorVars>>
  BY <1>1
<1> QED  BY <1>2, FactoryCorrect, PTL DEF Spec, ScoresAreLeastEdits
==============================================================================
