------------------------- MODULE DynamoWorkerProofs -------------------------
(***************************************************************************)
(* Proofs about DynamoWorker, for any finite sets of prefill and decode    *)
(* requests, any message bus and any number of permits.  The worker drives *)
(* its manager through a part of the manager's steps, so the lemmas of     *)
(* NixlTransferProofs carry over: they are instantiated here as Manager,   *)
(* with a TTL scheduler that is not there, as in the worker's process.     *)
(***************************************************************************)
EXTENDS DynamoWorker, FiniteSetTheorems, TLAPS

Manager == INSTANCE NixlTransferProofs WITH
    Registrations <- {}, HandleOf <- [r \in {} |-> r], WiredCalls <- {}, UnwiredHandles <- {},
    wired <- FALSE, registering <- [r \in {} |-> "none"], overdue <- {},
    entries <- [h \in Handles |-> None],
    tick <- [pc |-> "sleeping", passed |-> {}, expired |-> {}],
    before <- [r \in {} |-> {}]

------------------------------------------------------------------------------
(* The manager's steps, as the worker and as its proofs name them *)

\* What NixlTransferProofs assumes of its constants.
LEMMA ManagerAssumption ==
    /\ Manager!IsFiniteSet(Handles) /\ Manager!IsFiniteSet(Calls)
    /\ MaxConcurrent \in Nat \ {0}
    /\ [r \in {} |-> r] \in [{} -> Handles] /\ {} \subseteq Calls /\ {} \subseteq Handles
    /\ None \notin {}
BY WorkerAssumption DEF Manager!IsFiniteSet, IsFiniteSet

LEMMA SameGuards ==
    /\ Manager!Init <=> Nixl!Init
    /\ Manager!HasAgent <=> Nixl!HasAgent
    /\ Manager!Usable <=> Nixl!Usable
    /\ Manager!TypeOK <=> Nixl!TypeOK
BY DEF Manager!Init, Nixl!Init, Manager!HasAgent, Nixl!HasAgent, Manager!Usable, Nixl!Usable,
       Manager!TypeOK, Nixl!TypeOK, Manager!TransferState, Nixl!TransferState

LEMMA SameTransferSteps ==
    ASSUME NEW c \in Calls
    PROVE  /\ Manager!TransferAtOnce(c) <=> Nixl!TransferAtOnce(c)
           /\ Manager!TransferWaits(c) <=> Nixl!TransferWaits(c)
           /\ Manager!Resume(c) <=> Nixl!Resume(c)
           /\ Manager!TransferReturns(c) <=> Nixl!TransferReturns(c)
           /\ Manager!TransferRaises(c) <=> Nixl!TransferRaises(c)
           /\ Manager!CancelWaiting(c) <=> Nixl!CancelWaiting(c)
<1> USE DEF Manager!tableVars, Nixl!tableVars, Manager!ttlVars, Nixl!ttlVars,
            Manager!HasAgent, Nixl!HasAgent
<1>1. ASSUME NEW s, NEW k, NEW p
      PROVE  Manager!HandOver(c, s, k, p) <=> Nixl!HandOver(c, s, k, p)
  BY Zenon DEF Manager!HandOver, Nixl!HandOver, Manager!Min, Nixl!Min, Manager!ToSet, Nixl!ToSet
<1>2. Manager!TransferAtOnce(c) <=> Nixl!TransferAtOnce(c)
  BY Zenon DEF Manager!TransferAtOnce, Nixl!TransferAtOnce, Manager!Unlocked, Nixl!Unlocked,
               Manager!Usable, Nixl!Usable
<1>3. Manager!TransferWaits(c) <=> Nixl!TransferWaits(c)
  BY Zenon DEF Manager!TransferWaits, Nixl!TransferWaits, Manager!Unlocked, Nixl!Unlocked,
               Manager!Usable, Nixl!Usable
<1>4. Manager!Resume(c) <=> Nixl!Resume(c)
  BY <1>1, Zenon DEF Manager!Resume, Nixl!Resume
<1>5. Manager!TransferReturns(c) <=> Nixl!TransferReturns(c)
  BY <1>1, Zenon DEF Manager!TransferReturns, Nixl!TransferReturns, Manager!Leave, Nixl!Leave
<1>6. Manager!TransferRaises(c) <=> Nixl!TransferRaises(c)
  BY <1>1, Zenon DEF Manager!TransferRaises, Nixl!TransferRaises, Manager!Leave, Nixl!Leave
<1>7. Manager!CancelWaiting(c) <=> Nixl!CancelWaiting(c)
  BY <1>1, Zenon DEF Manager!CancelWaiting, Nixl!CancelWaiting, Manager!Leave, Nixl!Leave,
                     Manager!RemoveAt, Nixl!RemoveAt
<1> QED  BY <1>2, <1>3, <1>4, <1>5, <1>6, <1>7

LEMMA SameTableSteps ==
    /\ Manager!Start <=> Nixl!Start
    /\ Manager!AgentInitialised <=> Nixl!AgentInitialised
    /\ Manager!Stop <=> Nixl!Stop
    /\ Manager!AgentClosed <=> Nixl!AgentClosed
    /\ \A h \in Handles :
           /\ Manager!RegisterTensor(h) <=> Nixl!RegisterTensor(h)
           /\ Manager!RegisterReturns(h) <=> Nixl!RegisterReturns(h)
           /\ Manager!RegisterRaises(h) <=> Nixl!RegisterRaises(h)
BY Zenon DEF Manager!tableVars, Nixl!tableVars, Manager!ttlVars, Nixl!ttlVars,
       Manager!transferVars, Nixl!transferVars, Manager!HasAgent, Nixl!HasAgent,
       Manager!Usable, Nixl!Usable, Manager!Start, Nixl!Start,
       Manager!AgentInitialised, Nixl!AgentInitialised, Manager!Stop, Nixl!Stop,
       Manager!AgentClosed, Nixl!AgentClosed, Manager!RegisterTensor, Nixl!RegisterTensor,
       Manager!RegisterReturns, Nixl!RegisterReturns,
       Manager!RegisterRaises, Nixl!RegisterRaises

\* The steps of the manager a worker takes, and the one of the message bus.
TransferMoves == Manager!TransferStep \/ UNCHANGED Manager!transferVars

TableMoves ==
    \/ Manager!ManagerTableStep \/ UNCHANGED Manager!otherVars
    \/ \E h \in Handles : BusDelivers(h)

LEMMA WorkerStep ==
    ASSUME [Next]_vars
    PROVE  TransferMoves /\ TableMoves
<1> USE DEF TransferMoves, TableMoves
<1>1. ASSUME UNCHANGED nixlVars  PROVE  TransferMoves /\ TableMoves
  BY <1>1 DEF nixlVars, Manager!transferVars, Manager!otherVars, Manager!tableVars,
              Manager!ttlVars
<1>2. ASSUME Start \/ AgentInitialised \/ Stop \/ AgentClosed
      PROVE  TransferMoves /\ TableMoves
  <2>1. Manager!Start \/ Manager!AgentInitialised \/ Manager!Stop \/ Manager!AgentClosed
    BY <1>2, SameTableSteps DEF Start, AgentInitialised, Stop, AgentClosed
  <2> QED
    BY <2>1 DEF Manager!Start, Manager!AgentInitialised, Manager!Stop, Manager!AgentClosed,
                Manager!ManagerTableStep
<1>3. ASSUME NEW h \in Handles, Prefill(h) \/ PrefillReturns(h) \/ PrefillRaises(h)
      PROVE  TransferMoves /\ TableMoves
  <2>1. Manager!RegisterTensor(h) \/ Manager!RegisterReturns(h) \/ Manager!RegisterRaises(h)
    BY <1>3, SameTableSteps DEF Prefill, PrefillReturns, PrefillRaises
  <2> QED
    BY <2>1 DEF Manager!RegisterTensor, Manager!RegisterReturns, Manager!RegisterRaises,
                Manager!ManagerTableStep
<1>4. ASSUME NEW h \in Handles, BusDelivers(h)  PROVE  TransferMoves /\ TableMoves
  BY <1>4 DEF BusDelivers, Manager!transferVars
<1>5. ASSUME NEW c \in Calls,
             \/ Decode(c) \/ DecodeResumes(c) \/ DecodeReturns(c)
             \/ DecodeRaises(c) \/ DecodeCancelled(c)
      PROVE  TransferMoves /\ TableMoves
  <2>1. \/ Manager!TransferAtOnce(c) \/ Manager!TransferWaits(c) \/ Manager!Resume(c)
        \/ Manager!TransferReturns(c) \/ Manager!TransferRaises(c) \/ Manager!CancelWaiting(c)
    BY <1>5, SameTransferSteps
    DEF Decode, DecodeResumes, DecodeReturns, DecodeRaises, DecodeCancelled
  <2>2. UNCHANGED Manager!otherVars
    BY <2>1 DEF Manager!TransferAtOnce, Manager!TransferWaits, Manager!Resume,
                Manager!TransferReturns, Manager!TransferRaises, Manager!CancelWaiting,
                Manager!otherVars
  <2> QED  BY <2>1, <2>2 DEF Manager!TransferStep
<1>6. ASSUME NEW h \in Handles, Refuse(h) \/ PrefillBadTtl(h)  PROVE  UNCHANGED nixlVars
  BY <1>6 DEF Refuse, PrefillBadTtl
<1>7. ASSUME NEW c \in Calls, RefuseDecode(c) \/ DecodeUnknown(c)  PROVE  UNCHANGED nixlVars
  BY <1>7 DEF RefuseDecode, DecodeUnknown
<1>8. UNCHANGED vars => UNCHANGED nixlVars
  BY DEF vars
<1> QED  BY <1>1, <1>2, <1>3, <1>4, <1>5, <1>6, <1>7, <1>8 DEF Next

------------------------------------------------------------------------------
(* The two roles *)

\* A decode worker registers nothing, and only the bus gives it descriptors.
RolesKept ==
    /\ role \in {"prefill", "decode"}
    /\ role = "decode" => /\ descriptors \subseteq Bus
                          /\ \A h \in Handles : registration[h] = "none"

\* What a step changes outside of the requests.
LEMMA RolesStay ==
    ASSUME RolesKept, Manager!TableInv, [Next]_vars
    PROVE  RolesKept'
<1> USE DEF RolesKept, workerVars
<1>1. ASSUME UNCHANGED nixlVars, role' = role  PROVE  RolesKept'
  BY <1>1 DEF nixlVars
<1>2. ASSUME Start \/ AgentInitialised \/ Stop \/ AgentClosed  PROVE  RolesKept'
  <2>1. Manager!Start \/ Manager!AgentInitialised \/ Manager!Stop \/ Manager!AgentClosed
    BY <1>2, SameTableSteps DEF Start, AgentInitialised, Stop, AgentClosed
  <2>2. UNCHANGED <<descriptors, registration>>
    BY <2>1 DEF Manager!Start, Manager!AgentInitialised, Manager!Stop, Manager!AgentClosed,
                Manager!tableVars
  <2>3. role' = role
    BY <1>2 DEF Start, AgentInitialised, Stop, AgentClosed
  <2> QED  BY <2>2, <2>3
<1>3. ASSUME NEW h \in Handles, Prefill(h)  PROVE  RolesKept'
  BY <1>3 DEF Prefill
<1>4. ASSUME NEW h \in Handles, PrefillReturns(h) \/ PrefillRaises(h)  PROVE  RolesKept'
  <2>1. registration[h] = "registering" /\ role' = role
    BY <1>4, SameTableSteps
    DEF PrefillReturns, PrefillRaises, Manager!RegisterReturns, Manager!RegisterRaises
  <2> QED  BY <2>1
<1>5. ASSUME NEW h \in Handles, BusDelivers(h)  PROVE  RolesKept'
  BY <1>5 DEF BusDelivers
<1>6. ASSUME NEW c \in Calls,
             \/ Decode(c) \/ DecodeResumes(c) \/ DecodeReturns(c)
             \/ DecodeRaises(c) \/ DecodeCancelled(c)
      PROVE  RolesKept'
  <2>1. /\ role' = role
        /\ \/ Manager!TransferAtOnce(c) \/ Manager!TransferWaits(c) \/ Manager!Resume(c)
           \/ Manager!TransferReturns(c) \/ Manager!TransferRaises(c) \/ Manager!CancelWaiting(c)
    BY <1>6, SameTransferSteps
    DEF Decode, DecodeResumes, DecodeReturns, DecodeRaises, DecodeCancelled
  <2>2. UNCHANGED <<descriptors, registration>>
    BY <2>1 DEF Manager!TransferAtOnce, Manager!TransferWaits, Manager!Resume,
                Manager!TransferReturns, Manager!TransferRaises, Manager!CancelWaiting,
                Manager!tableVars
  <2> QED  BY <2>1, <2>2
<1>7. ASSUME NEW h \in Handles, Refuse(h) \/ PrefillBadTtl(h)
      PROVE  UNCHANGED nixlVars /\ role' = role
  BY <1>7 DEF Refuse, PrefillBadTtl
<1>8. ASSUME NEW c \in Calls, RefuseDecode(c) \/ DecodeUnknown(c)
      PROVE  UNCHANGED nixlVars /\ role' = role
  BY <1>8 DEF RefuseDecode, DecodeUnknown
<1>9. UNCHANGED vars => UNCHANGED nixlVars /\ role' = role
  BY DEF vars
<1> QED  BY <1>1, <1>2, <1>3, <1>4, <1>5, <1>6, <1>7, <1>8, <1>9 DEF Next

(* The manager's invariant holds in a worker, where a message bus may       *)
(* deliver descriptors.                                                     *)
LEMMA ManagerStays ==
    ASSUME Manager!ManagerInv, RolesKept, [Next]_vars
    PROVE  Manager!ManagerInv'
<1>1. Manager!TransferInv'
  BY WorkerStep, ManagerAssumption, Manager!TransferStepConserves
  DEF TransferMoves, Manager!ManagerInv
<1>2. Manager!TableInv'
  <2>1. ASSUME NEW h \in Handles, BusDelivers(h)  PROVE  Manager!TableInv'
    BY <2>1 DEF BusDelivers, Manager!ManagerInv, Manager!TableInv, Manager!RegionsTracked,
                Manager!HasAgent, RolesKept
  <2>2. ASSUME Manager!ManagerTableStep \/ UNCHANGED Manager!otherVars
        PROVE  Manager!TableInv'
    BY <2>2, ManagerAssumption, Manager!ManagerTableStepTracks DEF Manager!ManagerInv
  <2> QED  BY <2>1, <2>2, WorkerStep DEF TableMoves
<1> QED  BY <1>1, <1>2 DEF Manager!ManagerInv

------------------------------------------------------------------------------
(* The requests and the count *)

Counted == {"active", "failed"}

One(b) == IF b THEN 1 ELSE 0

\* The requests of f in one of the given states.
Jobs(D, f, states) == {x \in D : f[x] \in states}

LEMMA JobsFinite ==
    ASSUME NEW D, IsFiniteSet(D), NEW f, NEW states
    PROVE  IsFiniteSet(Jobs(D, f, states)) /\ Cardinality(Jobs(D, f, states)) \in Nat
<1>1. Jobs(D, f, states) \in SUBSET D
  BY DEF Jobs
<1> QED  BY <1>1, FS_Subset, FS_CardinalityType

Moved(f, d, s) == [f EXCEPT ![d] = s]

(* How one request that changes its state changes the number of requests in *)
(* a set of states.                                                         *)
LEMMA Tally ==
    ASSUME NEW D, IsFiniteSet(D), NEW f, f \in [D -> JobState], NEW d \in D,
           NEW s, NEW states
    PROVE  Cardinality(Jobs(D, Moved(f, d, s), states)) =
             Cardinality(Jobs(D, f, states)) - One(f[d] \in states) + One(s \in states)
<1> DEFINE A == Jobs(D, f, states)
           B == A \ {d}
           C == Jobs(D, Moved(f, d, s), states)
<1>1. IsFiniteSet(A) /\ Cardinality(A) \in Nat
  BY JobsFinite
<1>2. d \in A <=> f[d] \in states
  BY DEF Jobs
<1>3. C = IF s \in states THEN B \union {d} ELSE B
  BY DEF Jobs, Moved
<1> HIDE DEF A, C
<1>4. /\ IsFiniteSet(B) /\ Cardinality(B) \in Nat /\ d \notin B
      /\ Cardinality(B) = Cardinality(A) - One(f[d] \in states)
  <2>1. /\ IsFiniteSet(A \ {d})
        /\ Cardinality(A \ {d}) = IF d \in A THEN Cardinality(A) - 1 ELSE Cardinality(A)
    BY <1>1, FS_RemoveElement
  <2>2. Cardinality(A \ {d}) \in Nat
    BY <2>1, FS_CardinalityType
  <2> QED  BY <1>1, <1>2, <2>1, <2>2 DEF One
<1> HIDE DEF B
<1>5. Cardinality(B \union {d}) = Cardinality(B) + 1
  BY <1>4, FS_AddElement
<1>6. Cardinality(C) = Cardinality(B) + One(s \in states)
  BY <1>3, <1>4, <1>5 DEF One
<1>7. Cardinality(C) = Cardinality(A) - One(f[d] \in states) + One(s \in states)
  BY <1>1, <1>4, <1>6 DEF One
<1> QED  BY <1>7 DEF A, C

CountInv ==
    /\ prefill \in [Handles -> JobState]
    /\ decode \in [Calls -> JobState]
    /\ request_count = JobsIn(Counted)

(* The count follows a request that is counted when it enters one of the    *)
(* counted states and discounted when it leaves them.                       *)
LEMMA CountFollows ==
    ASSUME CountInv, NEW s \in JobState,
           \/ \E h \in Handles :
                 /\ prefill' = [prefill EXCEPT ![h] = s] /\ decode' = decode
                 /\ request_count' = request_count - One(prefill[h] \in Counted)
                                                   + One(s \in Counted)
           \/ \E c \in Calls :
                 /\ decode' = [decode EXCEPT ![c] = s] /\ prefill' = prefill
                 /\ request_count' = request_count - One(decode[c] \in Counted)
                                                   + One(s \in Counted)
    PROVE  CountInv'
<1> DEFINE P == Cardinality(Jobs(Handles, prefill, Counted))
           Q == Cardinality(Jobs(Calls, decode, Counted))
<1>1. P \in Nat /\ Q \in Nat
  BY WorkerAssumption, JobsFinite
<1>2. /\ IsFiniteSet(Handles) /\ IsFiniteSet(Calls)
      /\ prefill \in [Handles -> JobState] /\ decode \in [Calls -> JobState]
  BY WorkerAssumption DEF CountInv
<1>3. /\ request_count = P + Q
      /\ JobsIn(Counted)' = Cardinality(Jobs(Handles, prefill', Counted))
                              + Cardinality(Jobs(Calls, decode', Counted))
  BY DEF CountInv, JobsIn, Jobs, Counted
<1>4. ASSUME NEW h \in Handles,
             prefill' = [prefill EXCEPT ![h] = s], decode' = decode,
             request_count' = request_count - One(prefill[h] \in Counted) + One(s \in Counted)
      PROVE  request_count' = JobsIn(Counted)'
  <2>1. Cardinality(Jobs(Handles, prefill', Counted))
          = P - One(prefill[h] \in Counted) + One(s \in Counted)
    <3>1. Cardinality(Jobs(Handles, Moved(prefill, h, s), Counted))
            = P - One(prefill[h] \in Counted) + One(s \in Counted)
      BY <1>2, Tally
    <3> QED  BY <1>4, <3>1 DEF Moved
  <2>2. Cardinality(Jobs(Calls, decode', Counted)) = Q
    BY <1>4
  <2>3. One(prefill[h] \in Counted) \in {0, 1} /\ One(s \in Counted) \in {0, 1}
    BY DEF One
  <2> HIDE DEF P, Q
  <2> QED  BY <1>1, <1>3, <1>4, <2>1, <2>2, <2>3
<1>5. ASSUME NEW c \in Calls,
             decode' = [decode EXCEPT ![c] = s], prefill' = prefill,
             request_count' = request_count - One(decode[c] \in Counted) + One(s \in Counted)
      PROVE  request_count' = JobsIn(Counted)'
  <2>1. Cardinality(Jobs(Calls, decode', Counted))
          = Q - One(decode[c] \in Counted) + One(s \in Counted)
    <3>1. Cardinality(Jobs(Calls, Moved(decode, c, s), Counted))
            = Q - One(decode[c] \in Counted) + One(s \in Counted)
      BY <1>2, Tally
    <3> QED  BY <1>5, <3>1 DEF Moved
  <2>2. Cardinality(Jobs(Handles, prefill', Counted)) = P
    BY <1>5
  <2>3. One(decode[c] \in Counted) \in {0, 1} /\ One(s \in Counted) \in {0, 1}
    BY DEF One
  <2> HIDE DEF P, Q
  <2> QED  BY <1>1, <1>3, <1>5, <2>1, <2>2, <2>3
<1>6. prefill' \in [Handles -> JobState] /\ decode' \in [Calls -> JobState]
  BY <1>2
<1> QED  BY <1>4, <1>5, <1>6 DEF CountInv

LEMMA CountIsNat == ASSUME CountInv PROVE request_count \in Nat
<1>1. /\ Cardinality(Jobs(Handles, prefill, Counted)) \in Nat
      /\ Cardinality(Jobs(Calls, decode, Counted)) \in Nat
  BY WorkerAssumption, JobsFinite
<1> QED  BY <1>1 DEF CountInv, JobsIn, Jobs

------------------------------------------------------------------------------
(* The requests and the manager *)

InFlight == {"waiting", "woken", "copying"}

RequestsMatch ==
    /\ \A h \in Handles :
          /\ prefill[h] = "active" <=> registration[h] = "registering"
          /\ prefill[h] = "returned" => registration[h] = "registered" /\ h \in descriptors
    /\ \A c \in Calls :
          /\ decode[c] = "active" <=> call[c] \in InFlight
          /\ decode[c] \in {"active", "returned"} => role = "decode" /\ KvHandle[c] \in Bus

LifecycleMatches ==
    /\ has_registry \in BOOLEAN /\ registered \in BOOLEAN /\ running \in BOOLEAN
    /\ RegisteredMeansReady

WorkerInv ==
    /\ Manager!ManagerInv
    /\ RolesKept
    /\ LifecycleMatches
    /\ CountInv
    /\ RequestsMatch

LEMMA LifecycleStepKeeps ==
    ASSUME WorkerInv, Start \/ AgentInitialised \/ Stop \/ AgentClosed
    PROVE  LifecycleMatches' /\ CountInv' /\ RequestsMatch'
<1>1. /\ \/ Manager!Start \/ Manager!AgentInitialised \/ Manager!Stop \/ Manager!AgentClosed
      /\ UNCHANGED <<jobVars, role>>
  BY SameTableSteps DEF Start, AgentInitialised, Stop, AgentClosed, workerVars
<1>2. UNCHANGED <<descriptors, registration, call>>
  BY <1>1 DEF Manager!Start, Manager!AgentInitialised, Manager!Stop, Manager!AgentClosed,
              Manager!tableVars, Manager!transferVars
<1>3. CountInv' /\ RequestsMatch'
  BY <1>1, <1>2 DEF WorkerInv, CountInv, RequestsMatch, JobsIn, jobVars
<1>4. LifecycleMatches'
  <2> USE DEF WorkerInv, LifecycleMatches, RegisteredMeansReady
  <2>1. CASE Start
    BY <2>1, SameTableSteps DEF Start, Manager!Start, Manager!ManagerInv, Manager!TableInv
  <2>2. CASE AgentInitialised
    BY <2>2, SameTableSteps DEF AgentInitialised, Manager!AgentInitialised
  <2>3. CASE Stop
    BY <2>3 DEF Stop
  <2>4. CASE AgentClosed
    BY <2>4, SameTableSteps DEF AgentClosed, Manager!AgentClosed, workerVars
  <2> QED  BY <2>1, <2>2, <2>3, <2>4
<1> QED  BY <1>3, <1>4

LEMMA RefusalsKeep ==
    ASSUME WorkerInv,
           \/ \E h \in Handles : Refuse(h) \/ PrefillBadTtl(h)
           \/ \E c \in Calls : RefuseDecode(c) \/ DecodeUnknown(c)
    PROVE  LifecycleMatches' /\ CountInv' /\ RequestsMatch'
<1> USE DEF Arrives, Accept
<1>1. UNCHANGED <<nixlVars, workerVars>>
  BY DEF Refuse, PrefillBadTtl, RefuseDecode, DecodeUnknown
<1>2. UNCHANGED <<lifecycle, registered, running, has_registry, role, registration,
                  descriptors, call>>
  BY <1>1 DEF nixlVars, workerVars
<1>3. LifecycleMatches'
  BY <1>2 DEF WorkerInv, LifecycleMatches, RegisteredMeansReady
<1>4. /\ prefill \in [Handles -> JobState] /\ decode \in [Calls -> JobState]
      /\ request_count \in Nat /\ CountInv
  BY CountIsNat DEF WorkerInv, CountInv
<1>5. ASSUME NEW h \in Handles, Refuse(h)  PROVE  CountInv' /\ RequestsMatch'
  <2>1. /\ prefill' = [prefill EXCEPT ![h] = "refused"] /\ decode' = decode
        /\ prefill[h] = "new" /\ request_count' = request_count
    BY <1>5 DEF Refuse
  <2>2. CountInv'
    <3>1. /\ "refused" \in JobState
          /\ request_count' = request_count - One(prefill[h] \in Counted) + One("refused" \in Counted)
      BY <1>4, <2>1 DEF One, Counted, JobState
    <3> QED  BY <1>4, <2>1, <3>1, CountFollows, Zenon
  <2> QED  BY <1>2, <1>4, <2>1, <2>2 DEF WorkerInv, RequestsMatch
<1>6. ASSUME NEW h \in Handles, PrefillBadTtl(h)  PROVE  CountInv' /\ RequestsMatch'
  <2>1. /\ prefill' = [prefill EXCEPT ![h] = "failed"] /\ decode' = decode
        /\ prefill[h] = "new" /\ request_count' = request_count + 1
    BY <1>6 DEF PrefillBadTtl
  <2>2. CountInv'
    <3>1. /\ "failed" \in JobState
          /\ request_count' = request_count - One(prefill[h] \in Counted) + One("failed" \in Counted)
      BY <1>4, <2>1 DEF One, Counted, JobState
    <3> QED  BY <1>4, <2>1, <3>1, CountFollows, Zenon
  <2> QED  BY <1>2, <1>4, <2>1, <2>2 DEF WorkerInv, RequestsMatch
<1>7. ASSUME NEW c \in Calls, RefuseDecode(c)  PROVE  CountInv' /\ RequestsMatch'
  <2>1. /\ decode' = [decode EXCEPT ![c] = "refused"] /\ prefill' = prefill
        /\ decode[c] = "new" /\ request_count' = request_count
    BY <1>7 DEF RefuseDecode
  <2>2. CountInv'
    <3>1. /\ "refused" \in JobState
          /\ request_count' = request_count - One(decode[c] \in Counted) + One("refused" \in Counted)
      BY <1>4, <2>1 DEF One, Counted, JobState
    <3> QED  BY <1>4, <2>1, <3>1, CountFollows, Zenon
  <2> QED  BY <1>2, <1>4, <2>1, <2>2 DEF WorkerInv, RequestsMatch
<1>8. ASSUME NEW c \in Calls, DecodeUnknown(c)  PROVE  CountInv' /\ RequestsMatch'
  <2>1. /\ decode' = [decode EXCEPT ![c] = "failed"] /\ prefill' = prefill
        /\ decode[c] = "new" /\ request_count' = request_count + 1
    BY <1>8 DEF DecodeUnknown
  <2>2. CountInv'
    <3>1. /\ "failed" \in JobState
          /\ request_count' = request_count - One(decode[c] \in Counted) + One("failed" \in Counted)
      BY <1>4, <2>1 DEF One, Counted, JobState
    <3> QED  BY <1>4, <2>1, <3>1, CountFollows, Zenon
  <2> QED  BY <1>2, <1>4, <2>1, <2>2 DEF WorkerInv, RequestsMatch
<1> QED  BY <1>3, <1>5, <1>6, <1>7, <1>8

LEMMA PrefillStepKeeps ==
    ASSUME WorkerInv, NEW h \in Handles,
           Prefill(h) \/ PrefillReturns(h) \/ PrefillRaises(h)
    PROVE  LifecycleMatches' /\ CountInv' /\ RequestsMatch'
<1>1. /\ UNCHANGED <<workerVars, decode>>
      /\ Manager!RegisterTensor(h) \/ Manager!RegisterReturns(h) \/ Manager!RegisterRaises(h)
  BY SameTableSteps DEF Prefill, PrefillReturns, PrefillRaises
<1>2. UNCHANGED <<lifecycle, call, registered, running, has_registry, role, decode>>
  BY <1>1 DEF workerVars, Manager!RegisterTensor, Manager!RegisterReturns,
              Manager!RegisterRaises, Manager!transferVars
<1>3. LifecycleMatches'
  BY <1>2 DEF WorkerInv, LifecycleMatches, RegisteredMeansReady
<1>4. /\ prefill \in [Handles -> JobState] /\ decode \in [Calls -> JobState]
      /\ request_count \in Nat /\ CountInv
      /\ registration \in [Handles -> {"none", "registering", "registered", "raised"}]
      /\ registration[h] = "registering" => h \in descriptors
      /\ prefill[h] = "active" <=> registration[h] = "registering"
  BY CountIsNat
  DEF WorkerInv, CountInv, Manager!ManagerInv, Manager!TableInv, RequestsMatch
<1> USE DEF Arrives, Accept, Settle
<1>5. CASE Prefill(h)
  <2>1. /\ prefill[h] = "new" /\ Manager!RegisterTensor(h)
        /\ \/ /\ Manager!HasAgent /\ prefill' = [prefill EXCEPT ![h] = "active"]
              /\ request_count' = request_count + 1
           \/ /\ ~Manager!HasAgent /\ prefill' = [prefill EXCEPT ![h] = "returned"]
              /\ request_count' = request_count
    BY <1>5, SameTableSteps, SameGuards DEF Prefill
  <2>2. /\ descriptors' = descriptors \union {h}
        /\ registration' = [registration EXCEPT ![h] =
               IF Manager!HasAgent THEN "registering" ELSE "registered"]
    BY <2>1 DEF Manager!RegisterTensor
  <2>3. RequestsMatch'
    BY <1>2, <1>4, <2>1, <2>2 DEF WorkerInv, RequestsMatch
  <2>4. \E s \in JobState :
            /\ prefill' = [prefill EXCEPT ![h] = s]
            /\ request_count' = request_count - One(prefill[h] \in Counted) + One(s \in Counted)
    BY <1>4, <2>1 DEF One, Counted, JobState
  <2>5. CountInv'
    BY <1>2, <1>4, <2>4, CountFollows, Zenon
  <2> QED  BY <1>3, <2>3, <2>5
<1>6. CASE PrefillReturns(h)
  <2>1. /\ prefill' = [prefill EXCEPT ![h] = "returned"] /\ request_count' = request_count - 1
        /\ registration[h] = "registering" /\ descriptors' = descriptors
        /\ registration' = [registration EXCEPT ![h] = "registered"]
    BY <1>6, SameTableSteps DEF PrefillReturns, Manager!RegisterReturns
  <2>2. RequestsMatch'
    BY <1>2, <1>4, <2>1 DEF WorkerInv, RequestsMatch
  <2>3. /\ "returned" \in JobState
        /\ request_count' = request_count - One(prefill[h] \in Counted)
                              + One("returned" \in Counted)
    BY <1>4, <2>1 DEF One, Counted, JobState
  <2>4. CountInv'
    BY <1>2, <1>4, <2>1, <2>3, CountFollows, Zenon
  <2> QED  BY <1>3, <2>2, <2>4
<1>7. CASE PrefillRaises(h)
  <2>1. /\ prefill' = [prefill EXCEPT ![h] = "failed"] /\ request_count' = request_count
        /\ registration[h] = "registering" /\ descriptors' = descriptors
        /\ registration' = [registration EXCEPT ![h] = "raised"]
    BY <1>7, SameTableSteps DEF PrefillRaises, Manager!RegisterRaises
  <2>2. RequestsMatch'
    BY <1>2, <1>4, <2>1 DEF WorkerInv, RequestsMatch
  <2>3. /\ "failed" \in JobState
        /\ request_count' = request_count - One(prefill[h] \in Counted)
                              + One("failed" \in Counted)
    BY <1>4, <2>1 DEF One, Counted, JobState
  <2>4. CountInv'
    BY <1>2, <1>4, <2>1, <2>3, CountFollows, Zenon
  <2> QED  BY <1>3, <2>2, <2>4
<1> QED  BY <1>5, <1>6, <1>7

LEMMA BusKeeps ==
    ASSUME WorkerInv, NEW h \in Handles, BusDelivers(h)
    PROVE  LifecycleMatches' /\ CountInv' /\ RequestsMatch'
BY DEF BusDelivers, workerVars, jobVars, WorkerInv, LifecycleMatches, RegisteredMeansReady,
       CountInv, JobsIn, RequestsMatch

(* What a decode request does to itself, the others and the count; its      *)
(* transfer moves along, and waiting transfers may be handed permits.       *)
LEMMA DecodeStepKeeps ==
    ASSUME WorkerInv, NEW c \in Calls,
           \/ Decode(c) \/ DecodeResumes(c) \/ DecodeReturns(c)
           \/ DecodeRaises(c) \/ DecodeCancelled(c)
    PROVE  LifecycleMatches' /\ CountInv' /\ RequestsMatch'
<1> USE DEF Arrives, Accept, Settle
<1>1. /\ UNCHANGED <<workerVars, prefill>>
      /\ \/ Manager!TransferAtOnce(c) \/ Manager!TransferWaits(c) \/ Manager!Resume(c)
         \/ Manager!TransferReturns(c) \/ Manager!TransferRaises(c) \/ Manager!CancelWaiting(c)
  BY SameTransferSteps DEF Decode, DecodeResumes, DecodeReturns, DecodeRaises, DecodeCancelled
<1>2. UNCHANGED <<lifecycle, descriptors, registration, registered, running, has_registry,
                  role, prefill>>
  BY <1>1 DEF workerVars, Manager!TransferAtOnce, Manager!TransferWaits, Manager!Resume,
              Manager!TransferReturns, Manager!TransferRaises, Manager!CancelWaiting,
              Manager!tableVars
<1>3. LifecycleMatches'
  BY <1>2 DEF WorkerInv, LifecycleMatches, RegisteredMeansReady
<1>4. Manager!TransferInv
  BY DEF WorkerInv, Manager!ManagerInv
<1>5. /\ \A d \in Calls \ {c} :
            call'[d] = call[d] \/ (call[d] = "waiting" /\ call'[d] = "woken")
      /\ Manager!TransferAtOnce(c) => call[c] = "idle"
            /\ call'[c] = (IF Manager!HasAgent THEN "copying" ELSE "placeholder")
      /\ Manager!TransferWaits(c) => call[c] = "idle" /\ call'[c] = "waiting"
      /\ Manager!Resume(c) => call[c] = "woken"
            /\ call'[c] = (IF Manager!HasAgent THEN "copying" ELSE "placeholder")
      /\ Manager!TransferReturns(c) => call[c] = "copying" /\ call'[c] = "copied"
      /\ Manager!TransferRaises(c) => call[c] = "copying" /\ call'[c] = "raised"
      /\ Manager!CancelWaiting(c) => call[c] \in {"waiting", "woken"} /\ call'[c] = "cancelled"
  BY <1>1, <1>4, ManagerAssumption, Manager!CallMoves
<1>6. /\ prefill \in [Handles -> JobState] /\ decode \in [Calls -> JobState]
      /\ request_count \in Nat /\ CountInv
      /\ decode[c] = "active" <=> call[c] \in InFlight
  BY CountIsNat DEF WorkerInv, CountInv, RequestsMatch
\* The state s the request goes to is "active" exactly while its transfer is.
<1>7. PICK s \in JobState :
        /\ decode' = [decode EXCEPT ![c] = s]
        /\ s = "active" <=> call'[c] \in InFlight
        /\ s \in {"active", "returned"} => role = "decode" /\ KvHandle[c] \in Bus
        /\ request_count' = request_count - One(decode[c] \in Counted) + One(s \in Counted)
  <2> USE DEF InFlight, One, Counted, JobState
  <2>1. CASE Decode(c)
    <3>1. /\ decode[c] = "new" /\ role = "decode" /\ KvHandle[c] \in descriptors
          /\ \/ /\ (Manager!TransferAtOnce(c) /\ Manager!HasAgent) \/ Manager!TransferWaits(c)
                /\ request_count' = request_count + 1
                /\ decode' = [decode EXCEPT ![c] = "active"]
             \/ /\ Manager!TransferAtOnce(c) /\ ~Manager!HasAgent
                /\ decode' = [decode EXCEPT ![c] = "returned"]
                /\ request_count' = request_count
      BY <2>1, SameTransferSteps, SameGuards DEF Decode
    <3>2. KvHandle[c] \in Bus
      BY <3>1 DEF WorkerInv, RolesKept
    <3> QED  BY <1>5, <1>6, <3>1, <3>2
  <2>2. CASE DecodeResumes(c)
    <3>1. /\ Manager!Resume(c)
          /\ \/ /\ Manager!HasAgent
                /\ request_count' = request_count /\ decode' = decode
             \/ /\ ~Manager!HasAgent
                /\ request_count' = request_count - 1
                /\ decode' = [decode EXCEPT ![c] = "returned"]
      BY <2>2, SameTransferSteps, SameGuards DEF DecodeResumes
    <3>2. decode[c] = "active" /\ role = "decode" /\ KvHandle[c] \in Bus
      BY <1>5, <1>6, <3>1 DEF WorkerInv, RequestsMatch
    <3>3. decode = [decode EXCEPT ![c] = "active"]
      BY <1>6, <3>2
    <3> QED  BY <1>5, <1>6, <3>1, <3>2, <3>3
  <2>3. CASE DecodeReturns(c)
    <3>1. /\ Manager!TransferReturns(c) /\ request_count' = request_count - 1
          /\ decode' = [decode EXCEPT ![c] = "returned"]
      BY <2>3, SameTransferSteps DEF DecodeReturns
    <3>2. decode[c] = "active" /\ role = "decode" /\ KvHandle[c] \in Bus
      BY <1>5, <1>6, <3>1 DEF WorkerInv, RequestsMatch
    <3> QED  BY <1>5, <1>6, <3>1, <3>2
  <2>4. CASE DecodeRaises(c)
    <3>1. /\ Manager!TransferRaises(c) /\ request_count' = request_count
          /\ decode' = [decode EXCEPT ![c] = "failed"]
      BY <2>4, SameTransferSteps DEF DecodeRaises
    <3> QED  BY <1>5, <1>6, <3>1
  <2>5. CASE DecodeCancelled(c)
    <3>1. /\ Manager!CancelWaiting(c) /\ request_count' = request_count
          /\ decode' = [decode EXCEPT ![c] = "failed"]
      BY <2>5, SameTransferSteps DEF DecodeCancelled
    <3> QED  BY <1>5, <1>6, <3>1
  <2> QED  BY <2>1, <2>2, <2>3, <2>4, <2>5
<1>8. CountInv'
  BY <1>2, <1>6, <1>7, CountFollows, Zenon
<1>9. RequestsMatch'
  <2>1. \A d \in Calls \ {c} : decode'[d] = decode[d] /\ (call'[d] \in InFlight <=> call[d] \in InFlight)
    BY <1>5, <1>6, <1>7 DEF InFlight
  <2>2. decode'[c] = s
    BY <1>6, <1>7
  <2>3. \A d \in Calls :
           /\ decode'[d] = "active" <=> call'[d] \in InFlight
           /\ decode'[d] \in {"active", "returned"} => role = "decode" /\ KvHandle[d] \in Bus
    BY <1>7, <2>1, <2>2 DEF WorkerInv, RequestsMatch
  <2> QED  BY <1>2, <2>3 DEF WorkerInv, RequestsMatch
<1> QED  BY <1>3, <1>8, <1>9

------------------------------------------------------------------------------
(* The invariant *)

LEMMA WorkerStarts ==
    ASSUME Init
    PROVE  WorkerInv
<1>1. Manager!ManagerInv
  BY SameGuards, ManagerAssumption, Manager!ManagerStarts DEF Init
<1>2. RolesKept /\ LifecycleMatches /\ RequestsMatch
  BY DEF Init, Nixl!Init, RolesKept, LifecycleMatches, RegisteredMeansReady, RequestsMatch,
         InFlight
<1>3. CountInv
  <2>1. /\ prefill \in [Handles -> JobState] /\ decode \in [Calls -> JobState]
        /\ request_count = 0
    BY DEF Init, JobState
  <2>2. Jobs(Handles, prefill, Counted) = {} /\ Jobs(Calls, decode, Counted) = {}
    BY DEF Init, Jobs, Counted
  <2>3. /\ Cardinality(Jobs(Handles, prefill, Counted)) = 0
        /\ Cardinality(Jobs(Calls, decode, Counted)) = 0
    BY <2>2, FS_EmptySet
  <2>4. JobsIn(Counted) = 0
    BY <2>3 DEF JobsIn, Jobs
  <2> QED  BY <2>1, <2>4 DEF CountInv
<1> QED  BY <1>1, <1>2, <1>3 DEF WorkerInv

LEMMA WorkerInductive ==
    ASSUME WorkerInv, [Next]_vars
    PROVE  WorkerInv'
<1>1. Manager!ManagerInv' /\ RolesKept'
  BY ManagerStays, RolesStay DEF WorkerInv, Manager!ManagerInv
<1>2. LifecycleMatches' /\ CountInv' /\ RequestsMatch'
  <2>1. CASE UNCHANGED vars
    BY <2>1 DEF vars, nixlVars, workerVars, jobVars, WorkerInv, LifecycleMatches,
                RegisteredMeansReady, CountInv, JobsIn, RequestsMatch
  <2>2. CASE Start \/ AgentInitialised \/ Stop \/ AgentClosed
    BY <2>2, LifecycleStepKeeps
  <2>3. ASSUME NEW h \in Handles, Prefill(h) \/ PrefillReturns(h) \/ PrefillRaises(h)
        PROVE  LifecycleMatches' /\ CountInv' /\ RequestsMatch'
    BY <2>3, PrefillStepKeeps
  <2>4. ASSUME NEW h \in Handles, BusDelivers(h)
        PROVE  LifecycleMatches' /\ CountInv' /\ RequestsMatch'
    BY <2>4, BusKeeps
  <2>5. CASE \/ \E h \in Handles : Refuse(h) \/ PrefillBadTtl(h)
             \/ \E c \in Calls : RefuseDecode(c) \/ DecodeUnknown(c)
    BY <2>5, RefusalsKeep
  <2>6. ASSUME NEW c \in Calls,
               \/ Decode(c) \/ DecodeResumes(c) \/ DecodeReturns(c)
               \/ DecodeRaises(c) \/ DecodeCancelled(c)
        PROVE  LifecycleMatches' /\ CountInv' /\ RequestsMatch'
    BY <2>6, DecodeStepKeeps
  <2> QED  BY <2>1, <2>2, <2>3, <2>4, <2>5, <2>6 DEF Next
<1> QED  BY <1>1, <1>2 DEF WorkerInv

LEMMA WorkerInvMeaning ==
    ASSUME WorkerInv
    PROVE  TypeOK /\ RegisteredMeansReady /\ CountAccounts /\ ReturnedHandleIsGood
           /\ TranscriptNeedsBus
<1>1. Nixl!TypeOK /\ Manager!RegionsTracked
  BY ManagerAssumption, Manager!ManagerInvMeaning, SameGuards DEF WorkerInv
<1>2. TypeOK
  BY <1>1, CountIsNat DEF WorkerInv, RolesKept, LifecycleMatches, CountInv, TypeOK
<1>3. ReturnedHandleIsGood
  BY <1>1 DEF Manager!RegionsTracked, WorkerInv, RequestsMatch, ReturnedHandleIsGood
<1> QED
  BY <1>2, <1>3
  DEF WorkerInv, LifecycleMatches, CountInv, Counted, RequestsMatch, CountAccounts,
      TranscriptNeedsBus

(* Every behaviour of a worker satisfies the invariant; no fairness is      *)
(* needed.                                                                  *)
THEOREM WorkerCorrect == Spec => []WorkerInv
<1>1. Init => WorkerInv
  BY WorkerStarts
<1>2. WorkerInv /\ [Next]_vars => WorkerInv'
  BY WorkerInductive
<1> QED  BY <1>1, <1>2, PTL DEF Spec

(* The variables of a worker and of its manager keep their types: in        *)
(* particular _request_count never becomes negative.                        *)
THEOREM TypeCorrect == Spec => []TypeOK
<1>1. WorkerInv => TypeOK
  BY WorkerInvMeaning
<1> QED  BY <1>1, WorkerCorrect, PTL

(* A worker is in the registry only with its NIXL agent initialised, not    *)
(* yet closing and the worker running: start registers last, stop           *)
(* deregisters first.                                                       *)
THEOREM RegistrationIsReady == Spec => []RegisteredMeansReady
<1>1. WorkerInv => RegisteredMeansReady
  BY WorkerInvMeaning
<1> QED  BY <1>1, WorkerCorrect, PTL

(* What _request_count, which the reported load is computed from, really    *)
(* counts: requests in progress and requests that failed after they were    *)
(* counted, on every path out of handle_request.                            *)
THEOREM CountIsAccounted == Spec => []CountAccounts
<1>1. WorkerInv => CountAccounts
  BY WorkerInvMeaning
<1> QED  BY <1>1, WorkerCorrect, PTL

(* The descriptor of every prefill request that returned stays in the       *)
(* manager's table, and its tensor registered while the agent is up.        *)
THEOREM ReturnedHandlesStayGood == Spec => []ReturnedHandleIsGood
<1>1. WorkerInv => ReturnedHandleIsGood
  BY WorkerInvMeaning
<1> QED  BY <1>1, WorkerCorrect, PTL

(* A decode worker starts a transfer, and returns a transcript, only for a  *)
(* descriptor that a message bus outside this repository delivered.         *)
THEOREM TranscriptsNeedBus == Spec => []TranscriptNeedsBus
<1>1. WorkerInv => TranscriptNeedsBus
  BY WorkerInvMeaning
<1> QED  BY <1>1, WorkerCorrect, PTL

(* The worker uses its manager soundly: permits, statistics and RDMA        *)
(* regions stay right when requests of either role drive it and a message   *)
(* bus adds descriptors it never registered.                                *)
THEOREM WorkerKeepsManagerSound ==
    Spec => [](Manager!PermitsConserved /\ Manager!StatsAccount /\ Manager!RegionsTracked)
<1>1. WorkerInv => Manager!PermitsConserved /\ Manager!StatsAccount /\ Manager!RegionsTracked
  BY ManagerAssumption, Manager!ManagerInvMeaning DEF WorkerInv
<1> QED  BY <1>1, WorkerCorrect, PTL
==============================================================================
