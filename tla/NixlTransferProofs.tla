------------------------- MODULE NixlTransferProofs -------------------------
(***************************************************************************)
(* Proofs about NixlTransfer and about TTLEviction, which composes it with *)
(* the TTL scheduler, for any finite sets of descriptors and transfers, any *)
(* number of permits and any calls of register.  The lemmas about the      *)
(* manager speak of one step and of its state only, so that the scheduler, *)
(* whose steps move that state too, can cite them, and so can DynamoWorker. *)
(* The scheduler drives the manager only through steps the manager takes   *)
(* by itself, and evicts nothing that was renewed in time.                 *)
(***************************************************************************)
EXTENDS TTLEviction, FiniteSetTheorems, SequenceTheorems, TLAPS

------------------------------------------------------------------------------
(* The semaphore's queue *)

\* No element comes twice.
Distinct(q) == \A i, j \in 1..Len(q) : q[i] = q[j] => i = j

(* A sequence without repetition has as many elements as places.            *)
LEMMA DistinctCardinality ==
    ASSUME NEW S, NEW q \in Seq(S), Distinct(q)
    PROVE  IsFiniteSet(ToSet(q)) /\ Cardinality(ToSet(q)) = Len(q)
<1>1. Len(q) \in Nat /\ DOMAIN q = 1..Len(q) /\ q \in [1..Len(q) -> ToSet(q)]
  <2>1. Len(q) \in Nat /\ DOMAIN q = 1..Len(q) /\ q \in [1..Len(q) -> S]
    BY LenProperties
  <2> QED  BY <2>1 DEF ToSet
<1>2. q \in Injection(1..Len(q), ToSet(q))
  BY <1>1 DEF Distinct, Injection, IsInjective
<1>3. q \in Surjection(1..Len(q), ToSet(q))
  BY <1>1 DEF Surjection, ToSet
<1>4. ExistsBijection(1..Len(q), ToSet(q))
  BY <1>2, <1>3 DEF ExistsBijection, Bijection
<1>5. IsFiniteSet(1..Len(q)) /\ Cardinality(1..Len(q)) = Len(q)
  <2>1. /\ IsFiniteSet(1..Len(q))
        /\ Cardinality(1..Len(q)) = IF 1 > Len(q) THEN 0 ELSE Len(q) - 1 + 1
    BY <1>1, FS_Interval
  <2> QED  BY <1>1, <2>1
<1> QED  BY <1>4, <1>5, FS_Bijection

(* A waiter that is removed from a queue without repetition leaves the      *)
(* others in it.                                                            *)
LEMMA DistinctRemoveAt ==
    ASSUME NEW S, NEW q \in Seq(S), Distinct(q), NEW i \in 1..Len(q)
    PROVE  /\ RemoveAt(q, i) \in Seq(S)
           /\ Len(RemoveAt(q, i)) = Len(q) - 1
           /\ Distinct(RemoveAt(q, i))
           /\ ToSet(RemoveAt(q, i)) = ToSet(q) \ {q[i]}
<1> DEFINE a == SubSeq(q, 1, i - 1)
           b == SubSeq(q, i + 1, Len(q))
           r == RemoveAt(q, i)
<1>1. Len(q) \in Nat /\ DOMAIN q = 1..Len(q) /\ \A j \in 1..Len(q) : q[j] \in S
  BY LenProperties, ElementOfSeq
<1>2. a \in Seq(S) /\ Len(a) = i - 1 /\ \A j \in 1..(i - 1) : a[j] = q[j]
  BY <1>1, SubSeqProperties
<1>3. b \in Seq(S) /\ Len(b) = Len(q) - i /\ \A j \in 1..(Len(q) - i) : b[j] = q[i + j]
  <2>1. /\ b \in Seq(S)
        /\ Len(b) = IF i + 1 <= Len(q) THEN Len(q) - (i + 1) + 1 ELSE 0
        /\ \A j \in 1..(Len(q) - (i + 1) + 1) : b[j] = q[i + 1 + j - 1]
    BY <1>1, SubSeqProperties
  <2> HIDE DEF b
  <2>2. Len(q) - (i + 1) + 1 = Len(q) - i
    BY <1>1
  <2>3. Len(b) = Len(q) - i
    <3>1. i \in Int /\ i <= Len(q) /\ Len(q) \in Int
      BY <1>1
    <3> QED  BY <2>1, <3>1
  <2>4. ASSUME NEW j \in 1..(Len(q) - i)  PROVE  b[j] = q[i + j]
    <3>1. i + 1 + j - 1 = i + j
      BY <1>1
    <3>2. b[j] = q[i + 1 + j - 1]
      BY <2>1, <2>2
    <3> QED  BY <3>1, <3>2
  <2> QED  BY <2>1, <2>3, <2>4
<1> HIDE DEF a, b
<1>4. /\ a \o b \in Seq(S)
      /\ Len(a \o b) = Len(a) + Len(b)
      /\ \A j \in 1..(Len(a) + Len(b)) :
            (a \o b)[j] = IF j <= Len(a) THEN a[j] ELSE b[j - Len(a)]
  BY <1>2, <1>3, ConcatProperties
<1>5. r = a \o b
  BY DEF RemoveAt, a, b
<1> HIDE DEF r
<1>6. r \in Seq(S) /\ Len(r) = Len(q) - 1 /\ DOMAIN r = 1..(Len(q) - 1)
  <2>1. r \in Seq(S)
    BY <1>4, <1>5
  <2>2. Len(r) = (i - 1) + (Len(q) - i)
    BY <1>2, <1>3, <1>4, <1>5
  <2>3. Len(r) = Len(q) - 1
    BY <1>1, <2>2
  <2> QED  BY <2>1, <2>3, LenProperties
<1>7. \A j \in 1..(Len(q) - 1) : r[j] = q[IF j < i THEN j ELSE j + 1]
  <2> SUFFICES ASSUME NEW j \in 1..(Len(q) - 1)
               PROVE  r[j] = q[IF j < i THEN j ELSE j + 1]
    OBVIOUS
  <2>1. CASE j < i
    BY <2>1, <1>1, <1>2, <1>3, <1>4, <1>5
  <2>2. CASE ~(j < i)
    <3>1. r[j] = b[j - (i - 1)]
      BY <2>2, <1>1, <1>2, <1>3, <1>4, <1>5
    <3>2. j - (i - 1) \in 1..(Len(q) - i)
      BY <2>2, <1>1
    <3>3. b[j - (i - 1)] = q[i + (j - (i - 1))]
      BY <3>2, <1>3
    <3>4. i + (j - (i - 1)) = j + 1
      OBVIOUS
    <3> QED  BY <2>2, <3>1, <3>3, <3>4
  <2> QED  BY <2>1, <2>2
<1>8. Distinct(r)
  BY <1>1, <1>6, <1>7 DEF Distinct
<1>9. ToSet(r) \subseteq ToSet(q) \ {q[i]}
  <2> SUFFICES ASSUME NEW k \in 1..(Len(q) - 1)
               PROVE  \E j \in 1..Len(q) : r[k] = q[j] /\ q[j] # q[i]
    BY <1>1, <1>6 DEF ToSet
  <2> DEFINE j == IF k < i THEN k ELSE k + 1
  <2>1. j \in 1..Len(q) /\ j # i
    BY <1>1
  <2>2. r[k] = q[j] /\ q[j] # q[i]
    BY <2>1, <1>7 DEF Distinct
  <2> QED  BY <2>1, <2>2
<1>10. ToSet(q) \ {q[i]} \subseteq ToSet(r)
  <2> SUFFICES ASSUME NEW j \in 1..Len(q), j # i
               PROVE  \E k \in 1..(Len(q) - 1) : r[k] = q[j]
    BY <1>1, <1>6 DEF ToSet
  <2>1. CASE j < i
    <3>1. j \in 1..(Len(q) - 1)
      BY <2>1, <1>1
    <3> QED  BY <2>1, <3>1, <1>7
  <2>2. CASE i < j
    <3>1. j - 1 \in 1..(Len(q) - 1) /\ ~(j - 1 < i) /\ (j - 1) + 1 = j
      BY <2>2, <1>1
    <3> QED  BY <3>1, <1>7
  <2> QED  BY <2>1, <2>2
<1> QED  BY <1>6, <1>8, <1>9, <1>10 DEF r

(* The longest waiting calls, and those behind them.                        *)
LEMMA DistinctSplit ==
    ASSUME NEW S, NEW q \in Seq(S), Distinct(q), NEW n \in 0..Len(q)
    PROVE  /\ SubSeq(q, n + 1, Len(q)) \in Seq(S)
           /\ Len(SubSeq(q, n + 1, Len(q))) = Len(q) - n
           /\ Distinct(SubSeq(q, n + 1, Len(q)))
           /\ ToSet(SubSeq(q, n + 1, Len(q))) = ToSet(q) \ ToSet(SubSeq(q, 1, n))
           /\ ToSet(SubSeq(q, 1, n)) \subseteq ToSet(q)
           /\ IsFiniteSet(ToSet(SubSeq(q, 1, n)))
           /\ Cardinality(ToSet(SubSeq(q, 1, n))) = n
<1> DEFINE a == SubSeq(q, 1, n)
           b == SubSeq(q, n + 1, Len(q))
<1>1. Len(q) \in Nat /\ DOMAIN q = 1..Len(q) /\ \A j \in 1..Len(q) : q[j] \in S
  BY LenProperties, ElementOfSeq
<1>2. a \in Seq(S) /\ Len(a) = n /\ \A j \in 1..n : a[j] = q[j]
  BY <1>1, SubSeqProperties
<1>3. b \in Seq(S) /\ Len(b) = Len(q) - n /\ \A j \in 1..(Len(q) - n) : b[j] = q[n + j]
  <2>1. /\ b \in Seq(S)
        /\ Len(b) = IF n + 1 <= Len(q) THEN Len(q) - (n + 1) + 1 ELSE 0
        /\ \A j \in 1..(Len(q) - (n + 1) + 1) : b[j] = q[n + 1 + j - 1]
    BY <1>1, SubSeqProperties
  <2> HIDE DEF b
  <2>2. Len(q) - (n + 1) + 1 = Len(q) - n
    BY <1>1
  <2>3. Len(b) = Len(q) - n
    <3>1. n \in Int /\ n <= Len(q) /\ Len(q) \in Int
      BY <1>1
    <3> QED  BY <2>1, <3>1
  <2>4. ASSUME NEW j \in 1..(Len(q) - n)  PROVE  b[j] = q[n + j]
    <3>1. n + 1 + j - 1 = n + j
      BY <1>1
    <3>2. b[j] = q[n + 1 + j - 1]
      BY <2>1, <2>2
    <3> QED  BY <3>1, <3>2
  <2> QED  BY <2>1, <2>3, <2>4
<1> HIDE DEF a, b
<1>4. DOMAIN a = 1..n /\ DOMAIN b = 1..(Len(q) - n)
  BY <1>2, <1>3, LenProperties
<1>5. Distinct(a) /\ Distinct(b)
  BY <1>1, <1>2, <1>3 DEF Distinct
<1>6. ToSet(a) = {q[j] : j \in 1..n}
  BY <1>2, <1>4 DEF ToSet
<1>7. ToSet(b) = {q[j] : j \in (n + 1)..Len(q)}
  <2>1. ToSet(b) \subseteq {q[j] : j \in (n + 1)..Len(q)}
    BY <1>1, <1>3, <1>4 DEF ToSet
  <2>2. ASSUME NEW j \in (n + 1)..Len(q)  PROVE  q[j] \in ToSet(b)
    <3>1. j - n \in 1..(Len(q) - n) /\ n + (j - n) = j
      BY <1>1
    <3> QED  BY <3>1, <1>3, <1>4 DEF ToSet
  <2> QED  BY <2>1, <2>2
<1>8. ToSet(q) = {q[j] : j \in 1..Len(q)}
  BY <1>1 DEF ToSet
<1>9. ToSet(b) = ToSet(q) \ ToSet(a)
  BY <1>1, <1>6, <1>7, <1>8 DEF Distinct
<1>10. ToSet(a) \subseteq ToSet(q)
  BY <1>1, <1>6, <1>8
<1> QED  BY <1>2, <1>3, <1>5, <1>9, <1>10, DistinctCardinality DEF a, b

------------------------------------------------------------------------------
(* The permits *)

\* The calls of f in one of the given states.
CallsIn(f, states) == {d \in Calls : f[d] \in states}

CountIn(f, states) == Cardinality(CallsIn(f, states))

\* The queue holds the waiting calls, each once.
WaitersQueued ==
    /\ queue \in Seq(Calls)
    /\ Distinct(queue)
    /\ ToSet(queue) = CallsIn(call, {"waiting"})

\* One call goes to state s, and the calls of woken are handed a permit.
Moves(f, c, s, woken) ==
    [d \in Calls |-> IF d = c THEN s ELSE IF d \in woken THEN "woken" ELSE f[d]]

LEMMA MinOfThree ==
    ASSUME NEW a \in Nat, NEW b \in Nat, NEW c \in Nat
    PROVE  /\ Min({a, b, c}) \in {a, b, c}
           /\ Min({a, b, c}) <= a /\ Min({a, b, c}) <= b /\ Min({a, b, c}) <= c
<1>1. \E x \in {a, b, c} : \A y \in {a, b, c} : x <= y
  <2>1. CASE a <= b /\ a <= c
    BY <2>1
  <2>2. CASE b <= a /\ b <= c
    BY <2>2
  <2>3. CASE c <= a /\ c <= b
    BY <2>3
  <2> QED  BY <2>1, <2>2, <2>3
<1>2. Min({a, b, c}) \in {a, b, c} /\ \A y \in {a, b, c} : Min({a, b, c}) <= y
  BY <1>1, Zenon DEF Min
<1> QED  BY <1>2

(* What handing permits over does: some of the waiting calls are woken, as  *)
(* many as there are permits and places to hand over, and the others wait   *)
(* on.                                                                      *)
LEMMA HandOverEffect ==
    ASSUME WaitersQueued, call \in [Calls -> TransferState],
           NEW c \in Calls, call[c] # "waiting",
           NEW s \in TransferState, s # "waiting",
           NEW k \in Nat, NEW p \in Nat,
           HandOver(c, s, k, p)
    PROVE  \E woken \in SUBSET CallsIn(call, {"waiting"}) :
              /\ IsFiniteSet(woken)
              /\ Cardinality(woken) <= k
              /\ Cardinality(woken) <= p
              /\ Cardinality(woken) \in {k, p, Len(queue)}
              /\ call' = Moves(call, c, s, woken)
              /\ permits' = p - Cardinality(woken)
              /\ Len(queue') = Len(queue) - Cardinality(woken)
              /\ WaitersQueued'
<1> DEFINE n == Min({k, p, Len(queue)})
           woken == ToSet(SubSeq(queue, 1, n))
<1>1. Len(queue) \in Nat /\ queue \in Seq(Calls) /\ Distinct(queue)
      /\ ToSet(queue) = CallsIn(call, {"waiting"})
  BY LenProperties DEF WaitersQueued
<1>2. n \in Nat /\ n \in {k, p, Len(queue)} /\ n <= k /\ n <= p /\ n <= Len(queue)
  BY <1>1, MinOfThree
<1>3. /\ call' = [d \in Calls |-> CASE d = c -> s
                                    [] d \in woken -> "woken"
                                    [] OTHER -> call[d]]
      /\ queue' = SubSeq(queue, n + 1, Len(queue))
      /\ permits' = p - n
  BY DEF HandOver
<1> HIDE DEF n
<1>4. n \in 0..Len(queue)
  BY <1>1, <1>2
<1>5. /\ queue' \in Seq(Calls)
      /\ Len(queue') = Len(queue) - n
      /\ Distinct(queue')
      /\ ToSet(queue') = ToSet(queue) \ woken
      /\ woken \subseteq ToSet(queue)
      /\ IsFiniteSet(woken)
      /\ Cardinality(woken) = n
  BY <1>1, <1>3, <1>4, DistinctSplit
<1> HIDE DEF woken
<1>6. c \notin woken
  BY <1>1, <1>5 DEF CallsIn
<1>7. call' = Moves(call, c, s, woken)
  BY <1>3, <1>6 DEF Moves
<1>8. CallsIn(call', {"waiting"}) = CallsIn(call, {"waiting"}) \ woken
  BY <1>1, <1>5, <1>7 DEF CallsIn, Moves
<1>9. WaitersQueued'
  BY <1>1, <1>5, <1>8 DEF WaitersQueued, CallsIn
<1> QED  BY <1>1, <1>2, <1>3, <1>5, <1>7, <1>9

One(b) == IF b THEN 1 ELSE 0

LEMMA CountIsNat ==
    ASSUME NEW f, NEW states
    PROVE  CountIn(f, states) \in Nat
<1>1. CallsIn(f, states) \in SUBSET Calls
  BY DEF CallsIn
<1> QED  BY <1>1, NixlAssumption, FS_Subset, FS_CardinalityType DEF CountIn

(* How a move changes the number of calls in a set of states.               *)
LEMMA MovesCount ==
    ASSUME NEW f \in [Calls -> TransferState], NEW c \in Calls,
           NEW s \in TransferState,
           NEW woken \in SUBSET CallsIn(f, {"waiting"}), c \notin woken,
           NEW states, "waiting" \notin states
    PROVE  /\ CountIn(f, states) \in Nat
           /\ Cardinality(woken) \in Nat
           /\ f[c] \in states => CountIn(f, states) > 0
           /\ CountIn(Moves(f, c, s, woken), states) =
                CountIn(f, states) - One(f[c] \in states) + One(s \in states)
                  + (IF "woken" \in states THEN Cardinality(woken) ELSE 0)
<1> DEFINE A == CallsIn(f, states)
           B == A \ {c}
           C == IF "woken" \in states THEN B \union woken ELSE B
           g == Moves(f, c, s, woken)
<1>1. IsFiniteSet(Calls)
  BY NixlAssumption
<1>2. /\ IsFiniteSet(A) /\ Cardinality(A) \in Nat
      /\ IsFiniteSet(woken) /\ Cardinality(woken) \in Nat
  <2>1. A \in SUBSET Calls /\ woken \in SUBSET Calls
    BY DEF CallsIn
  <2> QED  BY <1>1, <2>1, FS_Subset, FS_CardinalityType
<1>3. c \in A <=> f[c] \in states
  BY DEF CallsIn
<1>4. IsFiniteSet(B) /\ Cardinality(B) = Cardinality(A) - One(f[c] \in states)
  BY <1>2, <1>3, FS_RemoveElement DEF One
<1>5. f[c] \in states => Cardinality(A) > 0
  <2>1. CASE f[c] \in states
    <3>1. Cardinality(B) = Cardinality(A) - 1 /\ Cardinality(B) \in Nat
      BY <1>4, <2>1, FS_CardinalityType DEF One
    <3> QED  BY <1>2, <3>1
  <2> QED  BY <2>1
<1>6. /\ IsFiniteSet(C) /\ c \notin C
      /\ Cardinality(C) = Cardinality(B) + (IF "woken" \in states THEN Cardinality(woken) ELSE 0)
  <2>1. B \intersect woken = {}
    BY DEF CallsIn
  <2>2. IsFiniteSet(B \union woken)
        /\ Cardinality(B \union woken) =
             Cardinality(B) + Cardinality(woken) - Cardinality(B \intersect woken)
    BY <1>2, <1>4, FS_Union
  <2>3. Cardinality(B \intersect woken) = 0
    BY <2>1, FS_EmptySet
  <2>4. Cardinality(B) \in Nat
    BY <1>4, FS_CardinalityType
  <2> QED  BY <1>2, <1>4, <2>2, <2>3, <2>4
<1>7. CallsIn(g, states) = IF s \in states THEN C \union {c} ELSE C
  BY DEF CallsIn, Moves
<1> HIDE DEF g
<1>8. Cardinality(C) \in Nat
  BY <1>6, FS_CardinalityType
<1>9. Cardinality(CallsIn(g, states)) = Cardinality(C) + One(s \in states)
  <2> HIDE DEF C
  <2>1. Cardinality(C \union {c}) = Cardinality(C) + 1
    BY <1>6, FS_AddElement
  <2> QED  BY <1>7, <1>8, <2>1 DEF One
<1>10. Cardinality(B) \in Nat
  BY <1>4, FS_CardinalityType
<1> HIDE DEF A, B, C
<1>11. CountIn(f, states) = Cardinality(A) /\ CountIn(g, states) = Cardinality(CallsIn(g, states))
  BY DEF CountIn, A
<1>12. CountIn(g, states) =
         CountIn(f, states) - One(f[c] \in states) + One(s \in states)
           + (IF "woken" \in states THEN Cardinality(woken) ELSE 0)
  BY <1>2, <1>4, <1>6, <1>8, <1>9, <1>10, <1>11 DEF One
<1> QED  BY <1>2, <1>5, <1>11, <1>12 DEF g

------------------------------------------------------------------------------
(* The transfers *)

TransferInv ==
    /\ call \in [Calls -> TransferState]
    /\ permits \in Nat
    /\ stats \in [initiated : Nat, completed : Nat]
    /\ WaitersQueued
    /\ permits + CountIn(call, {"woken", "copying"}) = MaxConcurrent
    /\ queue # <<>> /\ permits > 0 => \E c \in Calls : call[c] = "woken"
    /\ stats.completed = CountIn(call, {"copied", "placeholder"})
    /\ stats.initiated = stats.completed + CountIn(call, {"copying", "raised"})

(* A call outside of the semaphore's queue goes on, and up to k of the      *)
(* waiting ones get one of the p free permits each: no permit is lost if    *)
(* those p are the free ones and the one the call gives back, and none is   *)
(* left over for a waiting call that nobody will wake.                      *)
LEMMA HandOverConserves ==
    ASSUME TransferInv, NEW c \in Calls, call[c] # "waiting",
           NEW s \in TransferState, s # "waiting",
           NEW k \in Nat \ {0}, NEW p \in Nat,
           p = permits + One(call[c] \in {"woken", "copying"})
                       - One(s \in {"woken", "copying"}),
           HandOver(c, s, k, p)
    PROVE  /\ call' \in [Calls -> TransferState]
           /\ permits' \in Nat
           /\ WaitersQueued'
           /\ permits' + CountIn(call', {"woken", "copying"}) = MaxConcurrent
           /\ queue' # <<>> /\ permits' > 0 => \E d \in Calls : call'[d] = "woken"
           /\ \A states \in {{"copied", "placeholder"}, {"copying", "raised"}} :
                 CountIn(call', states) = CountIn(call, states)
                     - One(call[c] \in states) + One(s \in states)
<1>1. PICK woken \in SUBSET CallsIn(call, {"waiting"}) :
          /\ IsFiniteSet(woken)
          /\ Cardinality(woken) <= k
          /\ Cardinality(woken) <= p
          /\ Cardinality(woken) \in {k, p, Len(queue)}
          /\ call' = Moves(call, c, s, woken)
          /\ permits' = p - Cardinality(woken)
          /\ Len(queue') = Len(queue) - Cardinality(woken)
          /\ WaitersQueued'
  BY HandOverEffect DEF TransferInv
<1>2. c \notin woken /\ Cardinality(woken) \in Nat
  BY <1>1, FS_CardinalityType DEF CallsIn
<1>3. call' \in [Calls -> TransferState]
  BY <1>1 DEF Moves, TransferInv, TransferState
<1>4. permits' \in Nat
  BY <1>1, <1>2
<1>5. ASSUME NEW states, "waiting" \notin states
      PROVE  /\ CountIn(call, states) \in Nat
             /\ CountIn(call', states) =
                  CountIn(call, states) - One(call[c] \in states) + One(s \in states)
                    + (IF "woken" \in states THEN Cardinality(woken) ELSE 0)
  BY <1>1, <1>2, <1>5, MovesCount DEF TransferInv
<1>6. permits' + CountIn(call', {"woken", "copying"}) = MaxConcurrent
  <2> DEFINE H == {"woken", "copying"}
  <2>1. /\ CountIn(call, H) \in Nat
        /\ CountIn(call', H) = CountIn(call, H) - One(call[c] \in H) + One(s \in H)
                                 + Cardinality(woken)
    BY <1>5
  <2>2. permits + CountIn(call, H) = MaxConcurrent /\ permits \in Nat
    BY DEF TransferInv
  <2>3. One(call[c] \in H) \in {0, 1} /\ One(s \in H) \in {0, 1}
    BY DEF One
  <2> HIDE DEF H
  <2>4. p = permits + One(call[c] \in H) - One(s \in H)
    BY DEF H
  <2>5. permits' + CountIn(call', H) = MaxConcurrent
    BY <1>1, <1>2, <2>1, <2>2, <2>3, <2>4
  <2> QED  BY <2>5 DEF H
<1>7. ASSUME queue' # <<>>, permits' > 0  PROVE  \E d \in Calls : call'[d] = "woken"
  <2>1. Len(queue) \in Nat /\ Len(queue') \in Nat \ {0}
    BY <1>1, <1>7, LenProperties, EmptySeq DEF TransferInv, WaitersQueued
  <2>2. Cardinality(woken) = k
    BY <1>1, <1>2, <1>7, <2>1
  <2>3. PICK d \in woken : TRUE
    BY <1>2, <2>2, FS_EmptySet
  <2> QED  BY <1>1, <1>2, <2>3 DEF Moves, CallsIn
<1>8. ASSUME NEW states \in {{"copied", "placeholder"}, {"copying", "raised"}}
      PROVE  CountIn(call', states) = CountIn(call, states)
                 - One(call[c] \in states) + One(s \in states)
  <2>1. "waiting" \notin states /\ "woken" \notin states
    BY <1>8
  <2>2. One(call[c] \in states) \in {0, 1} /\ One(s \in states) \in {0, 1}
    BY DEF One
  <2> QED  BY <1>5, <2>1, <2>2
<1> QED  BY <1>1, <1>3, <1>4, <1>6, <1>7, <1>8

(* A call that moves alone: counted out of one set of states, into another. *)
LEMMA MovesAlone ==
    ASSUME TransferInv, NEW c \in Calls, NEW s \in TransferState,
           call' = [call EXCEPT ![c] = s],
           NEW states, "waiting" \notin states
    PROVE  /\ call' \in [Calls -> TransferState]
           /\ CountIn(call, states) \in Nat
           /\ call[c] \in states => CountIn(call, states) > 0
           /\ CountIn(call', states) =
                CountIn(call, states) - One(call[c] \in states) + One(s \in states)
<1>1. call \in [Calls -> TransferState]
  BY DEF TransferInv
<1>2. call' = Moves(call, c, s, {})
  BY <1>1 DEF Moves
<1>3. call' \in [Calls -> TransferState]
  BY <1>1
<1> DEFINE nobody == {}
<1>4. /\ nobody \in SUBSET CallsIn(call, {"waiting"}) /\ c \notin nobody
      /\ Cardinality(nobody) = 0 /\ call' = Moves(call, c, s, nobody)
  BY <1>2, FS_EmptySet
<1> HIDE DEF nobody
<1>5. /\ CountIn(call, states) \in Nat
      /\ call[c] \in states => CountIn(call, states) > 0
      /\ CountIn(Moves(call, c, s, nobody), states) =
           CountIn(call, states) - One(call[c] \in states) + One(s \in states)
             + (IF "woken" \in states THEN Cardinality(nobody) ELSE 0)
  BY <1>1, <1>4, MovesCount
<1>6. One(call[c] \in states) \in {0, 1} /\ One(s \in states) \in {0, 1}
  BY DEF One
<1>7. CountIn(Moves(call, c, s, nobody), states) =
        CountIn(call, states) - One(call[c] \in states) + One(s \in states)
  BY <1>4, <1>5, <1>6
<1>8. CountIn(call', states) = CountIn(Moves(call, c, s, nobody), states)
  BY <1>4
<1> QED  BY <1>3, <1>5, <1>7, <1>8, Zenon

(* The same, for the three sets the permits and the statistics count.       *)
LEMMA MovesAloneCounts ==
    ASSUME TransferInv, NEW c \in Calls, NEW s \in TransferState,
           call' = [call EXCEPT ![c] = s]
    PROVE  /\ call' \in [Calls -> TransferState]
           /\ \A states \in {{"woken", "copying"}, {"copied", "placeholder"},
                             {"copying", "raised"}} :
                 /\ CountIn(call, states) \in Nat
                 /\ CountIn(call', states) =
                      CountIn(call, states) - One(call[c] \in states) + One(s \in states)
<1>1. ASSUME NEW states, "waiting" \notin states
      PROVE  /\ call' \in [Calls -> TransferState]
             /\ CountIn(call, states) \in Nat
             /\ CountIn(call', states) =
                  CountIn(call, states) - One(call[c] \in states) + One(s \in states)
  BY <1>1, MovesAlone
<1>2. \A states \in {{"woken", "copying"}, {"copied", "placeholder"}, {"copying", "raised"}} :
          "waiting" \notin states
  OBVIOUS
<1>3. "waiting" \notin {}
  OBVIOUS
<1> QED  BY <1>1, <1>2, <1>3, Zenon

LEMMA TransferAtOnceConserves ==
    ASSUME TransferInv, NEW c \in Calls, TransferAtOnce(c)
    PROVE  TransferInv'
<1> USE DEF One
<1>1. /\ call[c] = "idle" /\ permits > 0 /\ queue = <<>> /\ queue' = queue
      /\ permits \in Nat /\ call \in [Calls -> TransferState]
      /\ stats \in [initiated : Nat, completed : Nat]
  BY DEF TransferAtOnce, Unlocked, TransferInv
<1>2. CASE HasAgent
  <2>1. /\ call' = [call EXCEPT ![c] = "copying"]
        /\ permits' = permits - 1
        /\ stats' = [stats EXCEPT !.initiated = @ + 1]
    BY <1>2 DEF TransferAtOnce
  <2>2. "copying" \in TransferState
    BY DEF TransferState
  <2>3. call' \in [Calls -> TransferState]
    BY <1>1, <2>1, <2>2
  <2>9. \A states \in {{"woken", "copying"}, {"copied", "placeholder"}, {"copying", "raised"}} :
            /\ CountIn(call, states) \in Nat
            /\ CountIn(call', states) =
                 CountIn(call, states) - One("idle" \in states) + One("copying" \in states)
    BY <1>1, <2>1, <2>2, MovesAloneCounts
  <2>4. /\ CountIn(call, {"woken", "copying"}) \in Nat
        /\ CountIn(call', {"woken", "copying"}) = CountIn(call, {"woken", "copying"}) + 1
    BY <1>1, <2>9
  <2>5. /\ CountIn(call, {"copied", "placeholder"}) \in Nat
        /\ CountIn(call', {"copied", "placeholder"}) = CountIn(call, {"copied", "placeholder"})
    BY <1>1, <2>9
  <2>6. /\ CountIn(call, {"copying", "raised"}) \in Nat
        /\ CountIn(call', {"copying", "raised"}) = CountIn(call, {"copying", "raised"}) + 1
    BY <1>1, <2>9
  <2>7. WaitersQueued'
    <3>1. CallsIn(call', {"waiting"}) = CallsIn(call, {"waiting"})
      BY <1>1, <2>1 DEF CallsIn
    <3> QED  BY <1>1, <3>1 DEF TransferInv, WaitersQueued
  <2>8. /\ stats'.initiated = stats.initiated + 1 /\ stats'.completed = stats.completed
        /\ stats' \in [initiated : Nat, completed : Nat]
    BY <1>1, <2>1
  <2> QED  BY <1>1, <2>1, <2>3, <2>4, <2>5, <2>6, <2>7, <2>8 DEF TransferInv
<1>3. CASE ~HasAgent
  <2>1. /\ call' = [call EXCEPT ![c] = "placeholder"]
        /\ permits' = permits
        /\ stats' = [initiated |-> stats.initiated + 1, completed |-> stats.completed + 1]
    BY <1>3 DEF TransferAtOnce
  <2>2. "placeholder" \in TransferState
    BY DEF TransferState
  <2>3. call' \in [Calls -> TransferState]
    BY <1>1, <2>1, <2>2
  <2>9. \A states \in {{"woken", "copying"}, {"copied", "placeholder"}, {"copying", "raised"}} :
            /\ CountIn(call, states) \in Nat
            /\ CountIn(call', states) =
                 CountIn(call, states) - One("idle" \in states) + One("placeholder" \in states)
    BY <1>1, <2>1, <2>2, MovesAloneCounts
  <2>4. /\ CountIn(call, {"woken", "copying"}) \in Nat
        /\ CountIn(call', {"woken", "copying"}) = CountIn(call, {"woken", "copying"})
    BY <1>1, <2>9
  <2>5. /\ CountIn(call, {"copied", "placeholder"}) \in Nat
        /\ CountIn(call', {"copied", "placeholder"})
             = CountIn(call, {"copied", "placeholder"}) + 1
    BY <1>1, <2>9
  <2>6. /\ CountIn(call, {"copying", "raised"}) \in Nat
        /\ CountIn(call', {"copying", "raised"}) = CountIn(call, {"copying", "raised"})
    BY <1>1, <2>9
  <2>7. WaitersQueued'
    <3>1. CallsIn(call', {"waiting"}) = CallsIn(call, {"waiting"})
      BY <1>1, <2>1 DEF CallsIn
    <3> QED  BY <1>1, <3>1 DEF TransferInv, WaitersQueued
  <2>8. /\ stats'.initiated = stats.initiated + 1 /\ stats'.completed = stats.completed + 1
        /\ stats' \in [initiated : Nat, completed : Nat]
    BY <1>1, <2>1
  <2> QED  BY <1>1, <2>1, <2>3, <2>4, <2>5, <2>6, <2>7, <2>8 DEF TransferInv
<1> QED  BY <1>2, <1>3

LEMMA TransferWaitsConserves ==
    ASSUME TransferInv, NEW c \in Calls, TransferWaits(c)
    PROVE  TransferInv'
<1>1. /\ call[c] = "idle" /\ call' = [call EXCEPT ![c] = "waiting"]
      /\ queue' = Append(queue, c) /\ permits' = permits /\ stats' = stats
  BY DEF TransferWaits
<1>2. call \in [Calls -> TransferState] /\ "waiting" \in TransferState
  BY DEF TransferInv, TransferState
<1>3. \A states \in {{"woken", "copying"}, {"copied", "placeholder"}, {"copying", "raised"}} :
          /\ CountIn(call, states) \in Nat
          /\ CountIn(call', states) =
               CountIn(call, states) - One(call[c] \in states) + One("waiting" \in states)
  BY <1>1, <1>2, MovesAloneCounts
<1>4. \A states \in {{"woken", "copying"}, {"copied", "placeholder"}, {"copying", "raised"}} :
          CountIn(call', states) = CountIn(call, states)
  <2>1. \A states \in {{"woken", "copying"}, {"copied", "placeholder"}, {"copying", "raised"}} :
            One(call[c] \in states) = 0 /\ One("waiting" \in states) = 0
    BY <1>1 DEF One
  <2> QED  BY <1>3, <2>1
<1>5. call' \in [Calls -> TransferState]
  BY <1>1, <1>2
<1>6. WaitersQueued'
  <2>1. /\ queue \in Seq(Calls) /\ Len(queue) \in Nat /\ DOMAIN queue = 1..Len(queue)
        /\ Distinct(queue) /\ ToSet(queue) = CallsIn(call, {"waiting"})
    BY LenProperties DEF TransferInv, WaitersQueued
  <2>2. /\ queue' \in Seq(Calls) /\ Len(queue') = Len(queue) + 1
        /\ \A i \in 1..Len(queue) : queue'[i] = queue[i]
        /\ queue'[Len(queue) + 1] = c
    BY <1>1, <2>1, AppendProperties
  <2>3. DOMAIN queue' = 1..(Len(queue) + 1)
    BY <2>2, LenProperties
  <2>4. \A i \in 1..Len(queue) : queue[i] # c
    BY <1>1, <2>1 DEF ToSet, CallsIn
  <2>5. Distinct(queue')
    BY <2>1, <2>2, <2>4 DEF Distinct
  <2>6. ToSet(queue') = ToSet(queue) \union {c}
    BY <2>1, <2>2, <2>3 DEF ToSet
  <2>7. CallsIn(call', {"waiting"}) = CallsIn(call, {"waiting"}) \union {c}
    BY <1>1, <1>2 DEF CallsIn
  <2> QED  BY <2>1, <2>2, <2>5, <2>6, <2>7 DEF WaitersQueued
<1>7. ASSUME permits > 0  PROVE  \E d \in Calls : call'[d] = "woken"
  <2>1. \E d \in Calls : call[d] = "woken"
    BY <1>7 DEF TransferInv, TransferWaits, Unlocked
  <2> QED  BY <1>1, <1>2, <2>1
<1> QED  BY <1>1, <1>4, <1>5, <1>6, <1>7 DEF TransferInv

LEMMA ResumeConserves ==
    ASSUME TransferInv, NEW c \in Calls, Resume(c)
    PROVE  TransferInv'
<1>1. /\ call[c] = "woken" /\ permits \in Nat
      /\ stats \in [initiated : Nat, completed : Nat]
      /\ stats.completed = CountIn(call, {"copied", "placeholder"})
      /\ stats.initiated = stats.completed + CountIn(call, {"copying", "raised"})
  BY DEF Resume, TransferInv
<1>2. CASE HasAgent
  <2>1. HandOver(c, "copying", 1, permits) /\ stats' = [stats EXCEPT !.initiated = @ + 1]
    BY <1>2 DEF Resume
  <2>2. permits = permits + One(call[c] \in {"woken", "copying"})
                          - One("copying" \in {"woken", "copying"})
    BY <1>1 DEF One
  <2>3. /\ call' \in [Calls -> TransferState]
        /\ permits' \in Nat
        /\ WaitersQueued'
        /\ permits' + CountIn(call', {"woken", "copying"}) = MaxConcurrent
        /\ queue' # <<>> /\ permits' > 0 => \E d \in Calls : call'[d] = "woken"
        /\ \A states \in {{"copied", "placeholder"}, {"copying", "raised"}} :
              CountIn(call', states) = CountIn(call, states)
                  - One(call[c] \in states) + One("copying" \in states)
    <3>1. /\ call[c] # "waiting" /\ "copying" \in TransferState /\ "copying" # "waiting"
          /\ 1 \in Nat \ {0} /\ permits \in Nat
      BY <1>1 DEF TransferState
    <3> QED  BY <2>1, <2>2, <3>1, HandOverConserves, Zenon
  <2>4. /\ CountIn(call, {"copied", "placeholder"}) \in Nat
        /\ CountIn(call, {"copying", "raised"}) \in Nat
    BY CountIsNat DEF TransferInv
  <2>5. /\ CountIn(call', {"copied", "placeholder"}) = CountIn(call, {"copied", "placeholder"})
        /\ CountIn(call', {"copying", "raised"}) = CountIn(call, {"copying", "raised"}) + 1
    BY <1>1, <2>3, <2>4 DEF One
  <2>6. /\ stats' \in [initiated : Nat, completed : Nat]
        /\ stats'.initiated = stats.initiated + 1 /\ stats'.completed = stats.completed
    BY <1>1, <2>1
  <2> QED  BY <1>1, <2>3, <2>4, <2>5, <2>6 DEF TransferInv
<1>3. CASE ~HasAgent
  <2>1. /\ HandOver(c, "placeholder", 2, permits + 1)
        /\ stats' = [initiated |-> stats.initiated + 1, completed |-> stats.completed + 1]
    BY <1>3 DEF Resume
  <2>2. permits + 1 = permits + One(call[c] \in {"woken", "copying"})
                              - One("placeholder" \in {"woken", "copying"})
    BY <1>1 DEF One
  <2>3. /\ call' \in [Calls -> TransferState]
        /\ permits' \in Nat
        /\ WaitersQueued'
        /\ permits' + CountIn(call', {"woken", "copying"}) = MaxConcurrent
        /\ queue' # <<>> /\ permits' > 0 => \E d \in Calls : call'[d] = "woken"
        /\ \A states \in {{"copied", "placeholder"}, {"copying", "raised"}} :
              CountIn(call', states) = CountIn(call, states)
                  - One(call[c] \in states) + One("placeholder" \in states)
    <3>1. /\ call[c] # "waiting" /\ "placeholder" \in TransferState /\ "placeholder" # "waiting"
          /\ 2 \in Nat \ {0} /\ permits + 1 \in Nat
      BY <1>1 DEF TransferState
    <3> QED  BY <2>1, <2>2, <3>1, HandOverConserves, Zenon
  <2>4. /\ CountIn(call, {"copied", "placeholder"}) \in Nat
        /\ CountIn(call, {"copying", "raised"}) \in Nat
    BY CountIsNat DEF TransferInv
  <2>5. /\ CountIn(call', {"copied", "placeholder"})
             = CountIn(call, {"copied", "placeholder"}) + 1
        /\ CountIn(call', {"copying", "raised"}) = CountIn(call, {"copying", "raised"})
    BY <1>1, <2>3, <2>4 DEF One
  <2>6. /\ stats' \in [initiated : Nat, completed : Nat]
        /\ stats'.initiated = stats.initiated + 1 /\ stats'.completed = stats.completed + 1
    BY <1>1, <2>1
  <2> QED  BY <1>1, <2>3, <2>4, <2>5, <2>6 DEF TransferInv
<1> QED  BY <1>2, <1>3

(* A call with a permit that leaves the semaphore.                          *)
LEMMA LeaveConserves ==
    ASSUME TransferInv, NEW c \in Calls, call[c] \in {"woken", "copying"},
           NEW s \in TransferState, s \notin {"waiting", "woken", "copying"},
           Leave(c, s)
    PROVE  /\ call' \in [Calls -> TransferState]
           /\ permits' \in Nat
           /\ WaitersQueued'
           /\ permits' + CountIn(call', {"woken", "copying"}) = MaxConcurrent
           /\ queue' # <<>> /\ permits' > 0 => \E d \in Calls : call'[d] = "woken"
           /\ \A states \in {{"copied", "placeholder"}, {"copying", "raised"}} :
                 CountIn(call', states) = CountIn(call, states)
                     - One(call[c] \in states) + One(s \in states)
<1>1. /\ call[c] # "waiting" /\ s # "waiting"
      /\ 1 \in Nat \ {0} /\ permits + 1 \in Nat
  BY DEF TransferInv
<1>2. permits + 1 = permits + One(call[c] \in {"woken", "copying"})
                            - One(s \in {"woken", "copying"})
  BY DEF TransferInv, One
<1>3. HandOver(c, s, 1, permits + 1)
  BY DEF Leave
<1> QED  BY <1>1, <1>2, <1>3, HandOverConserves, Zenon

LEMMA TransferReturnsConserves ==
    ASSUME TransferInv, NEW c \in Calls, TransferReturns(c)
    PROVE  TransferInv'
<1>1. /\ call[c] = "copying" /\ Leave(c, "copied")
      /\ stats' = [stats EXCEPT !.completed = @ + 1]
  BY DEF TransferReturns
<1>2. /\ call[c] \in {"woken", "copying"} /\ "copied" \in TransferState
      /\ "copied" \notin {"waiting", "woken", "copying"}
  BY <1>1 DEF TransferState
<1>3. /\ call' \in [Calls -> TransferState]
      /\ permits' \in Nat
      /\ WaitersQueued'
      /\ permits' + CountIn(call', {"woken", "copying"}) = MaxConcurrent
      /\ queue' # <<>> /\ permits' > 0 => \E d \in Calls : call'[d] = "woken"
      /\ \A states \in {{"copied", "placeholder"}, {"copying", "raised"}} :
            CountIn(call', states) = CountIn(call, states)
                - One(call[c] \in states) + One("copied" \in states)
  BY <1>1, <1>2, LeaveConserves, Zenon
<1>4. /\ CountIn(call, {"copied", "placeholder"}) \in Nat
      /\ CountIn(call, {"copying", "raised"}) \in Nat
  BY CountIsNat
<1>5. /\ CountIn(call', {"copied", "placeholder"}) = CountIn(call, {"copied", "placeholder"}) + 1
      /\ CountIn(call', {"copying", "raised"}) = CountIn(call, {"copying", "raised"}) - 1
  BY <1>1, <1>3, <1>4 DEF One
<1>6. /\ stats \in [initiated : Nat, completed : Nat]
      /\ stats.completed = CountIn(call, {"copied", "placeholder"})
      /\ stats.initiated = stats.completed + CountIn(call, {"copying", "raised"})
  BY DEF TransferInv
<1>7. /\ stats' \in [initiated : Nat, completed : Nat]
      /\ stats'.initiated = stats.initiated /\ stats'.completed = stats.completed + 1
  BY <1>1, <1>6
<1> QED  BY <1>3, <1>4, <1>5, <1>6, <1>7 DEF TransferInv

LEMMA TransferRaisesConserves ==
    ASSUME TransferInv, NEW c \in Calls, TransferRaises(c)
    PROVE  TransferInv'
<1>1. call[c] = "copying" /\ Leave(c, "raised") /\ stats' = stats
  BY DEF TransferRaises
<1>2. /\ call[c] \in {"woken", "copying"} /\ "raised" \in TransferState
      /\ "raised" \notin {"waiting", "woken", "copying"}
  BY <1>1 DEF TransferState
<1>3. /\ call' \in [Calls -> TransferState]
      /\ permits' \in Nat
      /\ WaitersQueued'
      /\ permits' + CountIn(call', {"woken", "copying"}) = MaxConcurrent
      /\ queue' # <<>> /\ permits' > 0 => \E d \in Calls : call'[d] = "woken"
      /\ \A states \in {{"copied", "placeholder"}, {"copying", "raised"}} :
            CountIn(call', states) = CountIn(call, states)
                - One(call[c] \in states) + One("raised" \in states)
  BY <1>1, <1>2, LeaveConserves, Zenon
<1>4. /\ CountIn(call, {"copied", "placeholder"}) \in Nat
      /\ CountIn(call, {"copying", "raised"}) \in Nat
  BY CountIsNat
<1>5. /\ CountIn(call', {"copied", "placeholder"}) = CountIn(call, {"copied", "placeholder"})
      /\ CountIn(call', {"copying", "raised"}) = CountIn(call, {"copying", "raised"})
  BY <1>1, <1>3, <1>4 DEF One
<1> QED  BY <1>1, <1>3, <1>5 DEF TransferInv

LEMMA CancelWaitingConserves ==
    ASSUME TransferInv, NEW c \in Calls, CancelWaiting(c)
    PROVE  TransferInv'
<1>1. /\ call \in [Calls -> TransferState] /\ "cancelled" \in TransferState
      /\ "cancelled" \notin {"waiting", "woken", "copying"} /\ stats' = stats
  BY DEF TransferInv, TransferState, CancelWaiting
<1>2. CASE call[c] = "waiting"
  <2>1. /\ call' = [call EXCEPT ![c] = "cancelled"]
        /\ \E i \in DOMAIN queue : queue[i] = c /\ queue' = RemoveAt(queue, i)
        /\ permits' = permits
    BY <1>2 DEF CancelWaiting
  <2>2. PICK i \in DOMAIN queue : queue[i] = c /\ queue' = RemoveAt(queue, i)
    BY <2>1
  <2>3. /\ queue \in Seq(Calls) /\ i \in 1..Len(queue) /\ Distinct(queue)
        /\ ToSet(queue) = CallsIn(call, {"waiting"})
    BY <2>2, LenProperties DEF TransferInv, WaitersQueued
  <2>4. /\ queue' \in Seq(Calls) /\ Distinct(queue') /\ Len(queue') = Len(queue) - 1
        /\ ToSet(queue') = CallsIn(call, {"waiting"}) \ {c}
    BY <2>2, <2>3, DistinctRemoveAt
  <2>5. CallsIn(call', {"waiting"}) = CallsIn(call, {"waiting"}) \ {c}
    BY <1>1, <2>1 DEF CallsIn
  <2>6. WaitersQueued'
    BY <2>4, <2>5 DEF WaitersQueued
  <2>7. /\ call' \in [Calls -> TransferState]
        /\ \A states \in {{"woken", "copying"}, {"copied", "placeholder"},
                          {"copying", "raised"}} :
              /\ CountIn(call, states) \in Nat
              /\ CountIn(call', states) =
                   CountIn(call, states) - One(call[c] \in states) + One("cancelled" \in states)
    BY <1>1, <2>1, MovesAloneCounts
  <2>8. \A states \in {{"woken", "copying"}, {"copied", "placeholder"}, {"copying", "raised"}} :
            CountIn(call', states) = CountIn(call, states)
    <3>1. \A states \in {{"woken", "copying"}, {"copied", "placeholder"},
                         {"copying", "raised"}} :
              One(call[c] \in states) = 0 /\ One("cancelled" \in states) = 0
      BY <1>2 DEF One
    <3> TAKE states \in {{"woken", "copying"}, {"copied", "placeholder"}, {"copying", "raised"}}
    <3>2. /\ CountIn(call, states) \in Nat
          /\ CountIn(call', states) =
               CountIn(call, states) - One(call[c] \in states) + One("cancelled" \in states)
          /\ One(call[c] \in states) = 0 /\ One("cancelled" \in states) = 0
      BY <2>7, <3>1, Zenon
    <3> QED  BY <3>2
  <2>9. ASSUME permits > 0  PROVE  \E d \in Calls : call'[d] = "woken"
    <3>1. queue # <<>>
      BY <2>3, EmptySeq
    <3>2. PICK d \in Calls : call[d] = "woken"
      BY <2>9, <3>1 DEF TransferInv
    <3> QED  BY <1>1, <1>2, <2>1, <3>2
  <2> QED  BY <1>1, <2>1, <2>6, <2>7, <2>8, <2>9 DEF TransferInv
<1>3. CASE call[c] = "woken" /\ Leave(c, "cancelled")
  <2>1. call[c] \in {"woken", "copying"}
    BY <1>3
  <2>2. /\ call' \in [Calls -> TransferState]
        /\ permits' \in Nat
        /\ WaitersQueued'
        /\ permits' + CountIn(call', {"woken", "copying"}) = MaxConcurrent
        /\ queue' # <<>> /\ permits' > 0 => \E d \in Calls : call'[d] = "woken"
        /\ \A states \in {{"copied", "placeholder"}, {"copying", "raised"}} :
              CountIn(call', states) = CountIn(call, states)
                  - One(call[c] \in states) + One("cancelled" \in states)
    BY <1>1, <1>3, <2>1, LeaveConserves, Zenon
  <2>3. /\ CountIn(call, {"copied", "placeholder"}) \in Nat
        /\ CountIn(call, {"copying", "raised"}) \in Nat
    BY CountIsNat
  <2>4. /\ CountIn(call', {"copied", "placeholder"}) = CountIn(call, {"copied", "placeholder"})
        /\ CountIn(call', {"copying", "raised"}) = CountIn(call, {"copying", "raised"})
    BY <1>3, <2>2, <2>3 DEF One
  <2> QED  BY <1>1, <2>2, <2>4 DEF TransferInv
<1> QED  BY <1>2, <1>3 DEF CancelWaiting

(* Where the calls go in a step of transfer: the one whose step it is, and  *)
(* those that are handed a permit.                                          *)
LEMMA CallMoves ==
    ASSUME TransferInv, NEW c \in Calls,
           \/ TransferAtOnce(c) \/ TransferWaits(c) \/ Resume(c)
           \/ TransferReturns(c) \/ TransferRaises(c) \/ CancelWaiting(c)
    PROVE  /\ \A d \in Calls \ {c} :
                 call'[d] = call[d] \/ (call[d] = "waiting" /\ call'[d] = "woken")
           /\ TransferAtOnce(c) =>
                 call[c] = "idle" /\ call'[c] = (IF HasAgent THEN "copying" ELSE "placeholder")
           /\ TransferWaits(c) => call[c] = "idle" /\ call'[c] = "waiting"
           /\ Resume(c) =>
                 call[c] = "woken" /\ call'[c] = (IF HasAgent THEN "copying" ELSE "placeholder")
           /\ TransferReturns(c) => call[c] = "copying" /\ call'[c] = "copied"
           /\ TransferRaises(c) => call[c] = "copying" /\ call'[c] = "raised"
           /\ CancelWaiting(c) => call[c] \in {"waiting", "woken"} /\ call'[c] = "cancelled"
<1>1. call \in [Calls -> TransferState] /\ WaitersQueued /\ permits \in Nat
  BY DEF TransferInv
<1>2. ASSUME NEW s \in TransferState, s # "waiting", NEW k \in Nat, NEW p \in Nat,
             call[c] # "waiting", HandOver(c, s, k, p)
      PROVE  /\ call'[c] = s
             /\ \A d \in Calls \ {c} :
                   call'[d] = call[d] \/ (call[d] = "waiting" /\ call'[d] = "woken")
  <2>1. PICK woken \in SUBSET CallsIn(call, {"waiting"}) : call' = Moves(call, c, s, woken)
    BY <1>1, <1>2, HandOverEffect
  <2> QED  BY <2>1 DEF Moves, CallsIn
<1>3. TransferAtOnce(c) =>
        /\ call[c] = "idle" /\ call'[c] = (IF HasAgent THEN "copying" ELSE "placeholder")
        /\ \A d \in Calls \ {c} : call'[d] = call[d]
  BY <1>1 DEF TransferAtOnce
<1>4. TransferWaits(c) =>
        /\ call[c] = "idle" /\ call'[c] = "waiting"
        /\ \A d \in Calls \ {c} : call'[d] = call[d]
  BY <1>1 DEF TransferWaits
<1>5. ASSUME Resume(c)
      PROVE  /\ call[c] = "woken"
             /\ call'[c] = (IF HasAgent THEN "copying" ELSE "placeholder")
             /\ \A d \in Calls \ {c} :
                   call'[d] = call[d] \/ (call[d] = "waiting" /\ call'[d] = "woken")
  <2>1. /\ call[c] = "woken" /\ "copying" \in TransferState /\ "placeholder" \in TransferState
        /\ permits + 1 \in Nat
    BY <1>1, <1>5 DEF Resume, TransferState
  <2>2. CASE HasAgent /\ HandOver(c, "copying", 1, permits)
    BY <1>1, <1>2, <2>1, <2>2
  <2>3. CASE ~HasAgent /\ HandOver(c, "placeholder", 2, permits + 1)
    BY <1>1, <1>2, <2>1, <2>3
  <2> QED  BY <1>5, <2>2, <2>3 DEF Resume
<1>6. ASSUME NEW s \in TransferState, s # "waiting", call[c] # "waiting", Leave(c, s)
      PROVE  /\ call'[c] = s
             /\ \A d \in Calls \ {c} :
                   call'[d] = call[d] \/ (call[d] = "waiting" /\ call'[d] = "woken")
  <2>1. HandOver(c, s, 1, permits + 1) /\ permits + 1 \in Nat
    BY <1>1, <1>6 DEF Leave
  <2> QED  BY <1>2, <1>6, <2>1
<1>7. TransferReturns(c) =>
        /\ call[c] = "copying" /\ call'[c] = "copied"
        /\ \A d \in Calls \ {c} :
              call'[d] = call[d] \/ (call[d] = "waiting" /\ call'[d] = "woken")
  BY <1>6 DEF TransferReturns, TransferState
<1>8. TransferRaises(c) =>
        /\ call[c] = "copying" /\ call'[c] = "raised"
        /\ \A d \in Calls \ {c} :
              call'[d] = call[d] \/ (call[d] = "waiting" /\ call'[d] = "woken")
  BY <1>6 DEF TransferRaises, TransferState
<1>9. CancelWaiting(c) =>
        /\ call[c] \in {"waiting", "woken"} /\ call'[c] = "cancelled"
        /\ \A d \in Calls \ {c} :
              call'[d] = call[d] \/ (call[d] = "waiting" /\ call'[d] = "woken")
  BY <1>1, <1>6 DEF CancelWaiting, TransferState
<1> QED  BY <1>3, <1>4, <1>5, <1>7, <1>8, <1>9

\* The steps of transfer, whatever made the caller call it.
TransferStep ==
    \E c \in Calls :
        \/ TransferAtOnce(c) \/ TransferWaits(c) \/ Resume(c)
        \/ TransferReturns(c) \/ TransferRaises(c) \/ CancelWaiting(c)

LEMMA TransferStepConserves ==
    ASSUME TransferInv, TransferStep \/ UNCHANGED transferVars
    PROVE  TransferInv'
<1>1. ASSUME UNCHANGED transferVars  PROVE  TransferInv'
  BY <1>1 DEF TransferInv, WaitersQueued, CallsIn, CountIn, Distinct, transferVars
<1>2. ASSUME NEW c \in Calls,
             \/ TransferAtOnce(c) \/ TransferWaits(c) \/ Resume(c)
             \/ TransferReturns(c) \/ TransferRaises(c) \/ CancelWaiting(c)
      PROVE  TransferInv'
  BY <1>2, TransferAtOnceConserves, TransferWaitsConserves, ResumeConserves,
     TransferReturnsConserves, TransferRaisesConserves, CancelWaitingConserves
<1> QED  BY <1>1, <1>2 DEF TransferStep

------------------------------------------------------------------------------
(* The descriptors and the memory behind them *)

TableInv ==
    /\ nixl_available \in BOOLEAN
    /\ lifecycle \in {"new", "starting", "started", "stopping", "stopped"}
    /\ descriptors \subseteq Handles /\ regions \subseteq Handles /\ warned \subseteq Handles
    /\ registration \in [Handles -> {"none", "registering", "registered", "raised"}]
    /\ expired \subseteq Handles
    /\ registered_times = {}
    /\ lifecycle \in {"new", "starting"} => \A h \in Handles : registration[h] = "none"
    /\ lifecycle = "starting" => nixl_available
    /\ ~HasAgent => regions = {}
    /\ \A h \in Handles : registration[h] = "registering" => h \in descriptors
    /\ RegionsTracked

\* The steps of the manager that the transfers do not take.
ManagerTableStep ==
    \/ Start \/ AgentInitialised \/ Stop \/ AgentClosed
    \/ \E h \in Handles :
           \/ RegisterTensor(h) \/ RegisterReturns(h) \/ RegisterRaises(h)
           \/ Evict(h)
           \/ TtlElapses(h)
    \/ EvictionPass

otherVars == <<nixl_available, lifecycle, tableVars, ttlVars>>

(* Evicting a descriptor that no registration is waiting for keeps the      *)
(* table and the agent's memory together, whether the agent refuses or not. *)
LEMMA EvictAllTracks ==
    ASSUME TableInv, NEW handles \in SUBSET Handles,
           \A h \in handles : registration[h] # "registering",
           EvictAll(handles),
           registered_times' = {}, expired' = expired,
           UNCHANGED <<nixl_available, lifecycle, registration>>
    PROVE  TableInv'
<1> DEFINE gone == handles \intersect descriptors
<1>1. PICK failed \in SUBSET (IF HasAgent THEN gone ELSE {}) :
          /\ warned' = warned \union failed
          /\ regions' = IF HasAgent THEN regions \ (gone \ failed) ELSE regions
  BY DEF EvictAll
<1>2. descriptors' = descriptors \ handles
  BY DEF EvictAll
<1>3. HasAgent' <=> HasAgent
  BY DEF HasAgent
<1>4. /\ descriptors' \subseteq Handles /\ regions' \subseteq Handles
      /\ warned' \subseteq Handles
  BY <1>1, <1>2 DEF TableInv
<1>5. ~HasAgent' => regions' = {}
  BY <1>1, <1>3 DEF TableInv
<1>6. \A h \in Handles : registration'[h] = "registering" => h \in descriptors'
  BY <1>2 DEF TableInv
<1>7. regions' \subseteq descriptors' \union warned'
  <2>1. CASE HasAgent
    BY <1>1, <1>2, <2>1 DEF TableInv, RegionsTracked
  <2>2. CASE ~HasAgent
    BY <1>3, <1>5, <2>2
  <2> QED  BY <2>1, <2>2
<1>8. nixl_available' /\ lifecycle' = "started" =>
          {h \in descriptors' : registration'[h] = "registered"} \subseteq regions'
  BY <1>1, <1>2 DEF TableInv, RegionsTracked
<1> QED  BY <1>4, <1>5, <1>6, <1>7, <1>8 DEF TableInv, RegionsTracked

LEMMA ManagerTableStepTracks ==
    ASSUME TableInv, ManagerTableStep \/ UNCHANGED otherVars
    PROVE  TableInv'
<1> USE DEF HasAgent, RegionsTracked
<1>1. ASSUME UNCHANGED otherVars  PROVE  TableInv'
  BY <1>1 DEF TableInv, otherVars, tableVars, ttlVars
<1>2. ASSUME Start  PROVE  TableInv'
  BY <1>2 DEF TableInv, Start, tableVars, ttlVars
<1>3. ASSUME AgentInitialised  PROVE  TableInv'
  BY <1>3 DEF TableInv, AgentInitialised, tableVars, ttlVars
<1>4. ASSUME Stop  PROVE  TableInv'
  BY <1>4 DEF TableInv, Stop, tableVars, ttlVars
<1>5. ASSUME AgentClosed  PROVE  TableInv'
  BY <1>5 DEF TableInv, AgentClosed, ttlVars
<1>6. ASSUME NEW h \in Handles, RegisterTensor(h)  PROVE  TableInv'
  BY <1>6 DEF TableInv, RegisterTensor, Usable, ttlVars
<1>7. ASSUME NEW h \in Handles, RegisterReturns(h)  PROVE  TableInv'
  BY <1>7 DEF TableInv, RegisterReturns, ttlVars
<1>8. ASSUME NEW h \in Handles, RegisterRaises(h)  PROVE  TableInv'
  BY <1>8 DEF TableInv, RegisterRaises, ttlVars
<1>9. ASSUME NEW h \in Handles, Evict(h)  PROVE  TableInv'
  <2>1. /\ EvictAll({h}) /\ registration[h] # "registering"
        /\ registered_times' = {} /\ expired' = expired
        /\ UNCHANGED <<nixl_available, lifecycle, registration>>
    BY <1>9 DEF Evict, TableInv, ttlVars
  <2> QED  BY <2>1, EvictAllTracks
<1>10. ASSUME NEW h \in Handles, TtlElapses(h)  PROVE  TableInv'
  BY <1>10 DEF TableInv, TtlElapses, tableVars
<1>11. ASSUME EvictionPass  PROVE  TableInv'
  <2>1. ToEvict = {}
    BY DEF ToEvict, TableInv
  <2>2. /\ EvictAll({}) /\ registered_times' = {} /\ expired' = expired
        /\ UNCHANGED <<nixl_available, lifecycle, registration>>
    BY <1>11, <2>1 DEF EvictionPass, TableInv
  <2> QED  BY <2>2, EvictAllTracks
<1> QED
  BY <1>1, <1>2, <1>3, <1>4, <1>5, <1>6, <1>7, <1>8, <1>9, <1>10, <1>11
  DEF ManagerTableStep

------------------------------------------------------------------------------
(* The manager *)

ManagerInv == TransferInv /\ TableInv

LEMMA ManagerStarts ==
    ASSUME Init
    PROVE  ManagerInv
<1> USE DEF Init
<1>1. call \in [Calls -> TransferState]
  BY DEF TransferState
<1>2. \A states \in {{"woken", "copying"}, {"copied", "placeholder"}, {"copying", "raised"},
                     {"waiting"}} :
          CallsIn(call, states) = {}
  BY DEF CallsIn
<1>3. \A states \in {{"woken", "copying"}, {"copied", "placeholder"}, {"copying", "raised"}} :
          CountIn(call, states) = 0
  BY <1>2, FS_EmptySet DEF CountIn
<1>4. WaitersQueued
  <2>1. queue \in Seq(Calls) /\ Len(queue) = 0 /\ DOMAIN queue = 1..Len(queue)
    BY EmptySeq, LenProperties
  <2>2. Distinct(queue) /\ ToSet(queue) = {}
    BY <2>1 DEF Distinct, ToSet
  <2> QED  BY <1>2, <2>1, <2>2 DEF WaitersQueued
<1>5. TransferInv
  <2>1. /\ permits = MaxConcurrent /\ MaxConcurrent \in Nat /\ queue = <<>>
        /\ stats.initiated = 0 /\ stats.completed = 0
        /\ stats \in [initiated : Nat, completed : Nat]
    BY NixlAssumption
  <2> QED  BY <1>1, <1>3, <1>4, <2>1 DEF TransferInv
<1>6. TableInv
  BY DEF TableInv, HasAgent, RegionsTracked
<1> QED  BY <1>5, <1>6 DEF ManagerInv

\* What a step of the manager may change: the transfers or the rest.
LEMMA StepParts ==
    ASSUME [Next]_vars
    PROVE  /\ TransferStep \/ UNCHANGED transferVars
           /\ ManagerTableStep \/ UNCHANGED otherVars
<1>1. CASE UNCHANGED vars
  BY <1>1 DEF vars, transferVars, otherVars
<1>2. CASE Start \/ AgentInitialised \/ Stop \/ AgentClosed \/ EvictionPass
  BY <1>2 DEF Start, AgentInitialised, Stop, AgentClosed, EvictionPass, ManagerTableStep
<1>3. ASSUME NEW h \in Handles,
             \/ RegisterTensor(h) \/ RegisterReturns(h) \/ RegisterRaises(h)
             \/ Evict(h) \/ TtlElapses(h)
      PROVE  /\ TransferStep \/ UNCHANGED transferVars
             /\ ManagerTableStep \/ UNCHANGED otherVars
  BY <1>3 DEF RegisterTensor, RegisterReturns, RegisterRaises, Evict, TtlElapses,
              ManagerTableStep
<1>4. ASSUME NEW c \in Calls,
             \/ TransferAtOnce(c) \/ TransferWaits(c) \/ Resume(c)
             \/ TransferReturns(c) \/ TransferRaises(c) \/ CancelWaiting(c)
      PROVE  /\ TransferStep \/ UNCHANGED transferVars
             /\ ManagerTableStep \/ UNCHANGED otherVars
  BY <1>4 DEF TransferAtOnce, TransferWaits, Resume, TransferReturns, TransferRaises,
              CancelWaiting, TransferStep, otherVars
<1> QED  BY <1>1, <1>2, <1>3, <1>4 DEF Next

LEMMA ManagerInductive ==
    ASSUME ManagerInv, [Next]_vars
    PROVE  ManagerInv'
BY StepParts, TransferStepConserves, ManagerTableStepTracks DEF ManagerInv

(* What the inductive invariant says of the properties the runs check.      *)
LEMMA ManagerInvMeaning ==
    ASSUME ManagerInv
    PROVE  TypeOK /\ PermitsConserved /\ StatsAccount /\ RegionsTracked
<1>1. /\ In("woken") \union In("copying") = CallsIn(call, {"woken", "copying"})
      /\ In("copied") \union In("placeholder") = CallsIn(call, {"copied", "placeholder"})
      /\ In("copying") \union In("raised") = CallsIn(call, {"copying", "raised"})
      /\ In("waiting") = CallsIn(call, {"waiting"})
  BY DEF In, CallsIn
<1>2. /\ queue \in Seq(Calls) /\ Len(queue) \in Nat /\ DOMAIN queue = 1..Len(queue)
      /\ Distinct(queue) /\ ToSet(queue) = In("waiting")
  BY <1>1, LenProperties DEF ManagerInv, TransferInv, WaitersQueued
<1>3. PermitsConserved
  <2>1. permits + Cardinality(In("woken") \union In("copying")) = MaxConcurrent
    BY <1>1 DEF ManagerInv, TransferInv, CountIn
  <2>2. Cardinality(In("waiting")) = Len(queue)
    BY <1>2, DistinctCardinality
  <2>3. \A c \in In("waiting") : \E i \in DOMAIN queue : queue[i] = c
    BY <1>2 DEF ToSet
  <2>4. queue # <<>> /\ permits > 0 => In("woken") # {}
    BY DEF ManagerInv, TransferInv, In
  <2> QED  BY <2>1, <2>2, <2>3, <2>4 DEF PermitsConserved
<1>4. StatsAccount
  BY <1>1 DEF ManagerInv, TransferInv, CountIn, StatsAccount
<1>5. permits \in 0..MaxConcurrent
  <2>1. CountIn(call, {"woken", "copying"}) \in Nat
    BY CountIsNat
  <2>2. permits \in Nat /\ permits + CountIn(call, {"woken", "copying"}) = MaxConcurrent
    BY DEF ManagerInv, TransferInv
  <2>3. MaxConcurrent \in Nat
    BY NixlAssumption
  <2> QED  BY <2>1, <2>2, <2>3
<1>6. TypeOK
  BY <1>2, <1>5 DEF ManagerInv, TransferInv, TableInv, TypeOK
<1> QED  BY <1>3, <1>4, <1>6 DEF ManagerInv, TableInv

(* Every behaviour of the manager satisfies its inductive invariant; no     *)
(* fairness is needed.                                                      *)
THEOREM ManagerCorrect == Init /\ [][Next]_vars => []ManagerInv
<1>1. Init => ManagerInv
  BY ManagerStarts
<1>2. ManagerInv /\ [Next]_vars => ManagerInv'
  BY ManagerInductive
<1> QED  BY <1>1, <1>2, PTL

(* The manager's variables keep their types: in particular the free permits *)
(* of the semaphore stay between 0 and max_concurrent.                      *)
THEOREM TypeCorrect == Spec => []TypeOK
<1>1. ManagerInv => TypeOK
  BY ManagerInvMeaning
<1> QED  BY <1>1, ManagerCorrect, PTL DEF Spec

(* NixlTransferManager.transfer loses and invents no permit of its          *)
(* semaphore, on whatever path a call leaves it, and leaves no call waiting *)
(* next to a free permit.                                                   *)
THEOREM PermitsAreConserved == Spec => []PermitsConserved
<1>1. ManagerInv => PermitsConserved
  BY ManagerInvMeaning
<1> QED  BY <1>1, ManagerCorrect, PTL DEF Spec

(* TransferStats account for every transfer that got a permit.              *)
THEOREM StatsAccountForTransfers == Spec => []StatsAccount
<1>1. ManagerInv => StatsAccount
  BY ManagerInvMeaning
<1> QED  BY <1>1, ManagerCorrect, PTL DEF Spec

(* No memory registered with the NIXL agent loses its descriptor, and no    *)
(* descriptor of a started manager its memory, whatever evict and the agent *)
(* do.                                                                      *)
THEOREM RegionsAreTracked == Spec => []RegionsTracked
<1>1. ManagerInv => RegionsTracked
  BY ManagerInvMeaning
<1> QED  BY <1>1, ManagerCorrect, PTL DEF Spec

------------------------------------------------------------------------------
(* The TTL scheduler *)

SchedulerTypeOK ==
    /\ registering \in [Registrations -> {"none", "computed", "stored"}]
    /\ overdue \subseteq Registrations
    /\ entries \in [Handles -> Registrations \union {None}]
    /\ tick \in [pc : {"sleeping", "locking", "evicting"},
                 passed : SUBSET Registrations, expired : SUBSET Handles]
    /\ before \in [Registrations -> SUBSET Registrations]

\* register is called for a descriptor that register_tensor returned.
RegistersReturned ==
    \A r \in Registrations : registering[r] # "none" => registration[HandleOf[r]] = "registered"

\* An entry stands for a call of register that stored it under its own handle.
EntriesStored ==
    \A h \in Handles : entries[h] # None =>
        HandleOf[entries[h]] = h /\ registering[entries[h]] = "stored"

\* While tick holds the lock, the entries it listed stay, and were overdue.
ListedOverdue ==
    /\ tick.passed \subseteq overdue
    /\ tick.pc = "evicting" => \A h \in tick.expired : entries[h] \in overdue

\* What had returned before a call began was stored for the same handle.
BeforeStored ==
    \A q \in Registrations : \A p \in before[q] :
        registering[p] = "stored" /\ HandleOf[p] = HandleOf[q]

\* No entry has been replaced by a call that began after it was stored.
EntryNotReplaced ==
    \A h \in Handles : entries[h] # None =>
        \A q \in Registrations :
            HandleOf[q] = h /\ registering[q] = "stored" => entries[h] \notin before[q]

SchedulerInv ==
    /\ SchedulerTypeOK
    /\ RegistersReturned
    /\ EntriesStored
    /\ ListedOverdue
    /\ BeforeStored
    /\ EntryNotReplaced

------------------------------------------------------------------------------
LEMMA SchedulerStarts ==
    ASSUME TTLInit
    PROVE  SchedulerInv
BY DEF TTLInit, SchedulerInv, SchedulerTypeOK, RegistersReturned, EntriesStored,
       ListedOverdue, BeforeStored, EntryNotReplaced

\* A descriptor that was returned stays returned.
LEMMA ReturnedStays ==
    ASSUME TableInv, [Next]_vars, NEW h \in Handles, registration[h] = "registered"
    PROVE  registration'[h] = "registered"
<1>1. CASE UNCHANGED otherVars
  BY <1>1 DEF otherVars, tableVars
<1>2. CASE Start \/ AgentInitialised \/ Stop \/ AgentClosed \/ EvictionPass
  BY <1>2 DEF Start, AgentInitialised, Stop, AgentClosed, EvictionPass, tableVars
<1>3. ASSUME NEW g \in Handles,
             \/ RegisterTensor(g) \/ RegisterReturns(g) \/ RegisterRaises(g)
             \/ Evict(g) \/ TtlElapses(g)
      PROVE  registration'[h] = "registered"
  BY <1>3 DEF RegisterTensor, RegisterReturns, RegisterRaises, Evict, TtlElapses,
              tableVars, TableInv
<1> QED  BY <1>1, <1>2, <1>3, StepParts DEF ManagerTableStep

\* The manager's own steps, and its steps as the scheduler sees them.
LEMMA ManagerStepKeepsScheduler ==
    ASSUME ManagerInv, SchedulerInv, [Next]_vars, UNCHANGED schedulerVars
    PROVE  SchedulerInv'
<1>1. ASSUME NEW r \in Registrations, registering[r] # "none"
      PROVE  registration'[HandleOf[r]] = "registered"
  <2>1. registration[HandleOf[r]] = "registered" /\ HandleOf[r] \in Handles
    BY <1>1, SchedulerAssumption DEF SchedulerInv, RegistersReturned
  <2> QED  BY <2>1, ReturnedStays DEF ManagerInv
<1> QED
  BY <1>1 DEF schedulerVars, SchedulerInv, SchedulerTypeOK, RegistersReturned,
              EntriesStored, ListedOverdue, BeforeStored, EntryNotReplaced

LEMMA RegisterBeginsKeeps ==
    ASSUME SchedulerInv, NEW r \in Registrations, RegisterBegins(r)
    PROVE  SchedulerInv'
<1> DEFINE stored == {q \in Registrations : registering[q] = "stored" /\ HandleOf[q] = HandleOf[r]}
<1>1. /\ registration[HandleOf[r]] = "registered" /\ registering[r] = "none"
      /\ registering' = [registering EXCEPT ![r] = "computed"]
      /\ before' = [before EXCEPT ![r] = stored]
      /\ UNCHANGED <<overdue, entries, tick, registration>>
  BY DEF RegisterBegins, vars, tableVars
<1>2. /\ registering \in [Registrations -> {"none", "computed", "stored"}]
      /\ before \in [Registrations -> SUBSET Registrations]
  BY DEF SchedulerInv, SchedulerTypeOK
<1>3. SchedulerTypeOK'
  BY <1>1 DEF SchedulerInv, SchedulerTypeOK
<1>4. RegistersReturned'
  BY <1>1, <1>2 DEF SchedulerInv, RegistersReturned
<1>5. EntriesStored'
  BY <1>1, <1>2 DEF SchedulerInv, SchedulerTypeOK, EntriesStored
<1>6. ListedOverdue'
  BY <1>1 DEF SchedulerInv, ListedOverdue
<1>7. BeforeStored'
  BY <1>1, <1>2 DEF SchedulerInv, BeforeStored
<1>8. EntryNotReplaced'
  BY <1>1, <1>2 DEF SchedulerInv, EntryNotReplaced
<1> QED  BY <1>3, <1>4, <1>5, <1>6, <1>7, <1>8 DEF SchedulerInv

LEMMA DeadlinePassesKeeps ==
    ASSUME SchedulerInv, NEW r \in Registrations, DeadlinePasses(r)
    PROVE  SchedulerInv'
BY DEF DeadlinePasses, vars, tableVars, SchedulerInv, SchedulerTypeOK, RegistersReturned,
       EntriesStored, ListedOverdue, BeforeStored, EntryNotReplaced

LEMMA RegisterStoresKeeps ==
    ASSUME SchedulerInv, NEW r \in Registrations, RegisterStores(r)
    PROVE  SchedulerInv'
<1>1. /\ registering[r] = "computed" /\ tick.pc # "evicting"
      /\ registering' = [registering EXCEPT ![r] = "stored"]
      /\ entries' = [entries EXCEPT ![HandleOf[r]] = r]
      /\ UNCHANGED <<overdue, before, tick, registration>>
  BY DEF RegisterStores, vars, tableVars
<1>2. /\ registering \in [Registrations -> {"none", "computed", "stored"}]
      /\ entries \in [Handles -> Registrations \union {None}]
      /\ before \in [Registrations -> SUBSET Registrations]
      /\ HandleOf \in [Registrations -> Handles]
  BY SchedulerAssumption DEF SchedulerInv, SchedulerTypeOK
<1>3. SchedulerTypeOK'
  BY <1>1, <1>2 DEF SchedulerInv, SchedulerTypeOK
<1>4. RegistersReturned'
  BY <1>1, <1>2 DEF SchedulerInv, RegistersReturned
<1>5. EntriesStored'
  BY <1>1, <1>2 DEF SchedulerInv, EntriesStored
<1>6. ListedOverdue'
  BY <1>1 DEF SchedulerInv, ListedOverdue
<1>7. BeforeStored'
  BY <1>1, <1>2 DEF SchedulerInv, BeforeStored
<1>8. EntryNotReplaced'
  <2> SUFFICES ASSUME NEW h \in Handles, entries'[h] # None,
                      NEW q \in Registrations, HandleOf[q] = h, registering'[q] = "stored"
               PROVE  entries'[h] \notin before[q]
    BY <1>1 DEF EntryNotReplaced
  <2>1. CASE h = HandleOf[r]
    <3>1. entries'[h] = r
      BY <1>1, <1>2, <2>1
    <3>2. r \notin before[q]
      BY <1>1 DEF SchedulerInv, BeforeStored
    <3> QED  BY <3>1, <3>2
  <2>2. CASE h # HandleOf[r]
    <3>1. entries'[h] = entries[h] /\ q # r /\ registering[q] = "stored"
      BY <1>1, <1>2, <2>2
    <3> QED  BY <3>1 DEF SchedulerInv, EntryNotReplaced
  <2> QED  BY <2>1, <2>2
<1> QED  BY <1>3, <1>4, <1>5, <1>6, <1>7, <1>8 DEF SchedulerInv

LEMMA TickReadsClockKeeps ==
    ASSUME SchedulerInv, TickReadsClock
    PROVE  SchedulerInv'
<1>1. /\ tick' = [tick EXCEPT !.pc = "locking", !.passed = overdue]
      /\ UNCHANGED <<registering, overdue, entries, before, registration>>
  BY DEF TickReadsClock, vars, tableVars
<1>2. tick' = [pc |-> "locking", passed |-> overdue, expired |-> tick.expired]
  BY <1>1 DEF SchedulerInv, SchedulerTypeOK
<1> QED
  BY <1>1, <1>2 DEF SchedulerInv, SchedulerTypeOK, RegistersReturned,
       EntriesStored, ListedOverdue, BeforeStored, EntryNotReplaced

LEMMA TickCollectsKeeps ==
    ASSUME SchedulerInv, TickCollects
    PROVE  SchedulerInv'
<1>1. /\ tick' = [pc |-> IF Expired = {} THEN "sleeping" ELSE "evicting",
                  passed |-> {}, expired |-> Expired]
      /\ UNCHANGED <<registering, overdue, entries, before, registration>>
  BY DEF TickCollects, vars, tableVars
<1>2. Expired \subseteq Handles /\ \A h \in Expired : entries[h] \in overdue
  BY DEF Expired, SchedulerInv, ListedOverdue
<1> HIDE DEF Expired
<1> QED
  BY <1>1, <1>2 DEF SchedulerInv, SchedulerTypeOK, RegistersReturned,
       EntriesStored, ListedOverdue, BeforeStored, EntryNotReplaced

\* A listed handle has been returned by register_tensor.
LEMMA ListedReturned ==
    ASSUME SchedulerInv, NEW h \in tick.expired, tick.pc = "evicting"
    PROVE  /\ h \in Handles /\ entries[h] \in overdue /\ entries[h] # None
           /\ registration[h] = "registered"
<1>1. h \in Handles /\ entries[h] \in overdue /\ overdue \subseteq Registrations
  BY DEF SchedulerInv, SchedulerTypeOK, ListedOverdue
<1>2. entries[h] # None
  BY <1>1, SchedulerAssumption
<1>3. HandleOf[entries[h]] = h /\ registering[entries[h]] = "stored"
  BY <1>1, <1>2 DEF SchedulerInv, EntriesStored
<1> QED  BY <1>1, <1>2, <1>3 DEF SchedulerInv, RegistersReturned

LEMMA TickEvictsKeeps ==
    ASSUME SchedulerInv, NEW h \in Handles, TickEvicts(h)
    PROVE  SchedulerInv'
<1>1. /\ tick.pc = "evicting" /\ h \in tick.expired
      /\ entries' = [entries EXCEPT ![h] = None]
      /\ tick' = [tick EXCEPT !.expired = @ \ {h},
                              !.pc = IF tick.expired = {h} THEN "sleeping" ELSE @]
      /\ UNCHANGED <<registration, registering, overdue, before>>
  BY DEF TickEvicts
<1>2. tick' = [pc |-> IF tick.expired = {h} THEN "sleeping" ELSE tick.pc,
               passed |-> tick.passed, expired |-> tick.expired \ {h}]
  BY <1>1 DEF SchedulerInv, SchedulerTypeOK
<1>3. SchedulerTypeOK'
  BY <1>1, <1>2 DEF SchedulerInv, SchedulerTypeOK
<1>4. EntriesStored'
  BY <1>1 DEF SchedulerInv, SchedulerTypeOK, EntriesStored
<1>5. ListedOverdue'
  <2>1. tick'.passed = tick.passed /\ tick'.expired = tick.expired \ {h}
    BY <1>2
  <2>2. tick.passed \subseteq overdue /\ \A g \in tick.expired : entries[g] \in overdue
    BY <1>1 DEF SchedulerInv, ListedOverdue
  <2>3. tick.expired \subseteq Handles /\ entries \in [Handles -> Registrations \union {None}]
    BY DEF SchedulerInv, SchedulerTypeOK
  <2>4. \A g \in tick.expired \ {h} : entries'[g] = entries[g]
    BY <1>1, <2>3
  <2> QED  BY <1>1, <2>1, <2>2, <2>4 DEF ListedOverdue
<1>6. EntryNotReplaced'
  BY <1>1 DEF SchedulerInv, SchedulerTypeOK, EntryNotReplaced
<1> QED  BY <1>1, <1>3, <1>4, <1>5, <1>6 DEF SchedulerInv, RegistersReturned, BeforeStored

------------------------------------------------------------------------------
\* Each step of the composition is one of the manager, or does not touch it:
\* tick evicts as the holder of the descriptor does.
LEMMA StepIsManagers ==
    ASSUME SchedulerInv, [TTLNext]_ttlEvictionVars
    PROVE  [Next]_vars
<1>1. ASSUME NEW h \in Handles, TickEvicts(h)  PROVE  Next
  <2>1. registration[h] = "registered"
    BY <1>1, ListedReturned DEF TickEvicts
  <2>2. Evict(h)
    BY <1>1, <2>1 DEF TickEvicts, Evict
  <2> QED  BY <2>2 DEF Next
<1>2. ASSUME NEW r \in Registrations, RegisterBegins(r) \/ RegisterStores(r) \/ DeadlinePasses(r)
      PROVE  UNCHANGED vars
  BY <1>2 DEF RegisterBegins, RegisterStores, DeadlinePasses
<1>3. ASSUME TickReadsClock \/ TickCollects  PROVE  UNCHANGED vars
  BY <1>3 DEF TickReadsClock, TickCollects
<1>4. ManagerStep => Next
  BY DEF ManagerStep
<1> QED  BY <1>1, <1>2, <1>3, <1>4 DEF TTLNext, ttlEvictionVars

LEMMA SchedulerInductive ==
    ASSUME ManagerInv, SchedulerInv, [TTLNext]_ttlEvictionVars
    PROVE  ManagerInv' /\ SchedulerInv'
<1>1. ManagerInv'
  BY StepIsManagers, ManagerInductive
<1>2. ASSUME UNCHANGED ttlEvictionVars  PROVE  SchedulerInv'
  <2>1. UNCHANGED vars /\ UNCHANGED schedulerVars
    BY <1>2 DEF ttlEvictionVars
  <2> QED  BY <2>1, ManagerStepKeepsScheduler
<1>3. ASSUME ManagerStep  PROVE  SchedulerInv'
  <2>1. Next /\ UNCHANGED schedulerVars
    BY <1>3 DEF ManagerStep
  <2> QED  BY <2>1, ManagerStepKeepsScheduler
<1>4. ASSUME NEW r \in Registrations, RegisterBegins(r) \/ RegisterStores(r) \/ DeadlinePasses(r)
      PROVE  SchedulerInv'
  BY <1>4, RegisterBeginsKeeps, RegisterStoresKeeps, DeadlinePassesKeeps
<1>5. ASSUME NEW h \in Handles, TickEvicts(h)  PROVE  SchedulerInv'
  BY <1>5, TickEvictsKeeps
<1> QED
  BY <1>1, <1>2, <1>3, <1>4, <1>5, TickReadsClockKeeps, TickCollectsKeeps DEF TTLNext

\* What may become of an entry in one step.
LEMMA EvictionJustified ==
    ASSUME SchedulerInv, [TTLNext]_ttlEvictionVars,
           NEW h \in Handles, entries[h] # None, entries'[h] = None
    PROVE  /\ entries[h] \in overdue
           /\ \A r \in Registrations :
                  HandleOf[r] = h /\ registering[r] = "stored" => entries[h] \notin before[r]
<1>1. \E g \in Handles : TickEvicts(g)
  <2>1. ASSUME NEW r \in Registrations, RegisterStores(r)  PROVE  entries'[h] # None
    <3>1. /\ entries' = [entries EXCEPT ![HandleOf[r]] = r]
          /\ entries \in [Handles -> Registrations \union {None}] /\ r # None
      BY <2>1, SchedulerAssumption DEF RegisterStores, SchedulerInv, SchedulerTypeOK
    <3> QED  BY <3>1
  <2>2. ASSUME NEW r \in Registrations, RegisterBegins(r) \/ DeadlinePasses(r)
        PROVE  entries' = entries
    BY <2>2 DEF RegisterBegins, DeadlinePasses
  <2>3. ASSUME ManagerStep \/ TickReadsClock \/ TickCollects  PROVE  entries' = entries
    BY <2>3 DEF ManagerStep, TickReadsClock, TickCollects, schedulerVars
  <2>4. ASSUME UNCHANGED ttlEvictionVars  PROVE  entries' = entries
    BY <2>4 DEF ttlEvictionVars, schedulerVars
  <2> QED  BY <2>1, <2>2, <2>3, <2>4 DEF TTLNext
<1>2. PICK g \in Handles : TickEvicts(g)
  BY <1>1
<1>3. /\ tick.pc = "evicting" /\ g \in tick.expired
      /\ entries' = [entries EXCEPT ![g] = None]
  BY <1>2 DEF TickEvicts
<1>4. g = h
  BY <1>3 DEF SchedulerInv, SchedulerTypeOK
<1> QED  BY <1>3, <1>4 DEF SchedulerInv, ListedOverdue, EntryNotReplaced

(* The scheduler and the manager each keep their invariant when composed.   *)
THEOREM SchedulerCorrect == TTLInit /\ [][TTLNext]_ttlEvictionVars => [](ManagerInv /\ SchedulerInv)
<1>1. TTLInit => ManagerInv /\ SchedulerInv
  BY ManagerStarts, SchedulerStarts DEF TTLInit
<1>2. ManagerInv /\ SchedulerInv /\ [TTLNext]_ttlEvictionVars => ManagerInv' /\ SchedulerInv'
  BY SchedulerInductive
<1> QED  BY <1>1, <1>2, PTL

(* Driven by the TTLEvictionScheduler, the NixlTransferManager does nothing *)
(* it may not do by itself: tick's callbacks are evictions by the holder of *)
(* a descriptor.                                                            *)
THEOREM SchedulerRefinesManager == TTLSpec => Spec
<1>1. TTLInit => Init
  BY DEF TTLInit
<1>2. SchedulerInv /\ [TTLNext]_ttlEvictionVars => [Next]_vars
  BY StepIsManagers
<1>3. TTLFairness => Fairness
  BY PTL DEF TTLFairness
<1> QED  BY <1>1, <1>2, <1>3, SchedulerCorrect, PTL DEF TTLSpec, Spec

(* With the scheduler at work, the semaphore's permits, the statistics and  *)
(* the registered memory are as sound as without it.                        *)
THEOREM ComposedManagerSound == TTLSpec => [](PermitsConserved /\ StatsAccount /\ RegionsTracked)
BY SchedulerRefinesManager, PermitsAreConserved, StatsAccountForTransfers, RegionsAreTracked, PTL

(* tick evicts a handle only when the deadline of the entry it pops has     *)
(* passed and no later register, begun after that one returned, stands for  *)
(* it: however the threads of register meet tick at the lock.               *)
THEOREM EvictionsAreJustified == TTLSpec => EvictsOnlyOverdue
<1>1. SchedulerInv /\ [TTLNext]_ttlEvictionVars =>
        [\A h \in Handles :
           entries[h] # None /\ entries'[h] = None =>
               /\ entries[h] \in overdue
               /\ \A r \in Registrations :
                      HandleOf[r] = h /\ registering[r] = "stored" => entries[h] \notin before[r]
        ]_ttlEvictionVars
  BY EvictionJustified
<1> QED  BY <1>1, SchedulerCorrect, PTL DEF TTLSpec, EvictsOnlyOverdue
==============================================================================
