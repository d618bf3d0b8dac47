-------------------------- MODULE SmartRouterProofs --------------------------
(***************************************************************************)
(* Proofs about SmartRouter, for any set of workers, any finite set of     *)
(* requests, any assignment of request ids and hints, and any number of    *)
(* attempts.                                                               *)
(***************************************************************************)
EXTENDS SmartRouter, SequenceTheorems, FiniteSetTheorems, TLAPS

(* What a registry dict loses when a key is removed: the entries behind it *)
(* move up, the others stay.                                               *)
LEMMA RemoveAtProperties ==
    ASSUME NEW S, NEW s \in Seq(S), NEW i \in 1..Len(s)
    PROVE  /\ RemoveAt(s, i) \in Seq(S)
           /\ Len(RemoveAt(s, i)) = Len(s) - 1
           /\ \A j \in 1..(Len(s) - 1) :
                 RemoveAt(s, i)[j] = IF j < i THEN s[j] ELSE s[j + 1]
<1> DEFINE a == SubSeq(s, 1, i - 1)
           b == SubSeq(s, i + 1, Len(s))
<1>1. /\ a \in Seq(S)
      /\ Len(a) = i - 1
      /\ \A j \in 1..(i - 1) : a[j] = s[j]
  BY SubSeqProperties
<1>2. /\ b \in Seq(S)
      /\ Len(b) = Len(s) - i
      /\ \A j \in 1..(Len(s) - i) : b[j] = s[i + j]
  <2>1. i \in Int /\ i + 1 \in Int /\ Len(s) \in Nat /\ \A j \in (i + 1)..Len(s) : s[j] \in S
    BY ElementOfSeq
  <2>2. /\ SubSeq(s, i + 1, Len(s)) \in Seq(S)
        /\ Len(SubSeq(s, i + 1, Len(s))) =
              IF i + 1 <= Len(s) THEN Len(s) - (i + 1) + 1 ELSE 0
        /\ \A j \in 1..(Len(s) - (i + 1) + 1) :
              SubSeq(s, i + 1, Len(s))[j] = s[i + 1 + j - 1]
    BY <2>1, SubSeqProperties
  <2> QED  BY <2>1, <2>2
<1>3. RemoveAt(s, i) = a \o b
  BY DEF RemoveAt
<1> HIDE DEF a, b
<1>4. /\ a \o b \in Seq(S)
      /\ Len(a \o b) = Len(a) + Len(b)
      /\ \A j \in 1..(Len(a) + Len(b)) :
            (a \o b)[j] = IF j <= Len(a) THEN a[j] ELSE b[j - Len(a)]
  BY <1>1, <1>2, ConcatProperties
<1>5. Len(a) + Len(b) = Len(s) - 1
  BY <1>1, <1>2
<1> DEFINE c == a \o b
<1> HIDE DEF c
<1>6. /\ c \in Seq(S)
      /\ Len(c) = Len(s) - 1
      /\ \A j \in 1..(Len(s) - 1) : c[j] = IF j <= Len(a) THEN a[j] ELSE b[j - Len(a)]
  BY <1>4, <1>5 DEF c
<1>7. \A j \in 1..(Len(s) - 1) : c[j] = IF j < i THEN s[j] ELSE s[j + 1]
  <2> SUFFICES ASSUME NEW j \in 1..(Len(s) - 1)
               PROVE  c[j] = IF j < i THEN s[j] ELSE s[j + 1]
    OBVIOUS
  <2>1. CASE j < i
    BY <2>1, <1>1, <1>6
  <2>2. CASE ~(j < i)
    <3>1. c[j] = b[j - (i - 1)]
      BY <2>2, <1>1, <1>6
    <3>2. j - (i - 1) \in 1..(Len(s) - i)
      BY <2>2
    <3>3. b[j - (i - 1)] = s[i + (j - (i - 1))]
      BY <3>2, <1>2
    <3>4. i + (j - (i - 1)) = j + 1
      OBVIOUS
    <3> QED  BY <2>2, <3>1, <3>3, <3>4
  <2> QED  BY <2>1, <2>2
<1> QED  BY <1>3, <1>6, <1>7 DEF c

------------------------------------------------------------------------------
(* The registry *)

ConfiguredRoles ==
    \A i \in DOMAIN workers : workers[i].role = RoleOf[workers[i].worker_id]

RegistryInv ==
    /\ workers \in Seq(Endpoint)
    /\ OneEndpointPerWorker
    /\ ConfiguredRoles

(* Overwriting one endpoint keeps the registry sound when its id and role   *)
(* stay (re-registration, a load report, a failed health check).            *)
LEMMA EndpointOverwritten ==
    ASSUME RegistryInv, NEW i \in DOMAIN workers, NEW e \in Endpoint,
           e.worker_id = workers[i].worker_id, e.role = workers[i].role,
           workers' = [workers EXCEPT ![i] = e]
    PROVE  RegistryInv'
<1>1. /\ workers' \in Seq(Endpoint)
      /\ DOMAIN workers' = DOMAIN workers
      /\ \A j \in DOMAIN workers : workers'[j] = IF j = i THEN e ELSE workers[j]
  BY ExceptSeq DEF RegistryInv
<1>2. \A j \in DOMAIN workers' :
         /\ workers'[j].worker_id = workers[j].worker_id
         /\ workers'[j].role = workers[j].role
  BY <1>1
<1>3. OneEndpointPerWorker'
  BY <1>1, <1>2 DEF RegistryInv, OneEndpointPerWorker
<1>4. ConfiguredRoles'
  BY <1>1, <1>2 DEF RegistryInv, ConfiguredRoles
<1> QED  BY <1>1, <1>3, <1>4 DEF RegistryInv

LEMMA RegisterKeepsRegistry ==
    ASSUME RegistryInv, NEW w \in Workers, Register(w)
    PROVE  RegistryInv'
<1> DEFINE e == [worker_id |-> w, role |-> RoleOf[w], load |-> 0, healthy |-> TRUE]
<1>1. e \in Endpoint /\ e.worker_id = w /\ e.role = RoleOf[w]
  BY WorkersAssumption DEF Endpoint, RequestPhase
<1>2. CASE Position(w) = {} /\ workers' = Append(workers, e)
  <2> HIDE DEF e
  <2>1. /\ workers' \in Seq(Endpoint)
        /\ Len(workers') = Len(workers) + 1
        /\ \A j \in 1..Len(workers) : workers'[j] = workers[j]
        /\ workers'[Len(workers) + 1] = e
    BY <1>1, <1>2, AppendProperties DEF RegistryInv
  <2>2. /\ Len(workers) \in Nat
        /\ DOMAIN workers = 1..Len(workers)
        /\ DOMAIN workers' = 1..(Len(workers) + 1)
    BY <2>1, LenProperties DEF RegistryInv
  <2>3. \A j \in DOMAIN workers : workers[j].worker_id # w
    BY <1>2 DEF Position
  <2>4. OneEndpointPerWorker'
    BY <1>1, <2>1, <2>2, <2>3 DEF RegistryInv, OneEndpointPerWorker
  <2>5. ConfiguredRoles'
    BY <1>1, <2>1, <2>2 DEF RegistryInv, ConfiguredRoles
  <2> QED  BY <2>1, <2>4, <2>5 DEF RegistryInv
<1>3. CASE \E i \in Position(w) : workers' = [workers EXCEPT ![i] = e]
  <2>1. PICK i \in Position(w) : workers' = [workers EXCEPT ![i] = e]
    BY <1>3
  <2>2. /\ i \in DOMAIN workers
        /\ workers[i].worker_id = w
        /\ workers[i].role = RoleOf[w]
    BY DEF Position, RegistryInv, ConfiguredRoles
  <2> HIDE DEF e
  <2> QED  BY <1>1, <2>1, <2>2, EndpointOverwritten
<1> QED  BY <1>2, <1>3 DEF Register

LEMMA DeregisterKeepsRegistry ==
    ASSUME RegistryInv, NEW w \in Workers, Deregister(w)
    PROVE  RegistryInv'
<1>1. PICK i \in DOMAIN workers : workers' = RemoveAt(workers, i)
  BY DEF Deregister, Position
<1>2. Len(workers) \in Nat /\ DOMAIN workers = 1..Len(workers)
  BY LenProperties DEF RegistryInv
<1>3. /\ workers' \in Seq(Endpoint)
      /\ Len(workers') = Len(workers) - 1
      /\ \A j \in 1..(Len(workers) - 1) :
            workers'[j] = IF j < i THEN workers[j] ELSE workers[j + 1]
  BY <1>1, <1>2, RemoveAtProperties DEF RegistryInv
<1>4. DOMAIN workers' = 1..(Len(workers) - 1)
  BY <1>3, LenProperties
<1>5. OneEndpointPerWorker'
  <2> SUFFICES ASSUME NEW j \in DOMAIN workers', NEW k \in DOMAIN workers',
                      workers'[j].worker_id = workers'[k].worker_id
               PROVE  j = k
    BY DEF OneEndpointPerWorker
  <2> DEFINE old(n) == IF n < i THEN n ELSE n + 1
  <2>1. /\ old(j) \in DOMAIN workers /\ workers'[j] = workers[old(j)]
        /\ old(k) \in DOMAIN workers /\ workers'[k] = workers[old(k)]
    BY <1>2, <1>3, <1>4
  <2>2. old(j) = old(k)
    BY <2>1 DEF RegistryInv, OneEndpointPerWorker
  <2> QED  BY <1>2, <1>4, <2>2
<1>6. ConfiguredRoles'
  BY <1>2, <1>3, <1>4 DEF RegistryInv, ConfiguredRoles
<1> QED  BY <1>3, <1>5, <1>6 DEF RegistryInv

LEMMA ReportsKeepRegistry ==
    ASSUME RegistryInv, NEW w \in Workers,
           MarkUnhealthy(w) \/ \E l \in LoadLevels[w] : UpdateLoad(w, l)
    PROVE  RegistryInv'
<1>1. \A i \in DOMAIN workers : workers[i] \in Endpoint
  BY DEF RegistryInv
<1>2. CASE MarkUnhealthy(w)
  <2>1. PICK i \in DOMAIN workers : workers' = [workers EXCEPT ![i].healthy = FALSE]
    BY <1>2 DEF MarkUnhealthy, Position
  <2> DEFINE e == [workers[i] EXCEPT !.healthy = FALSE]
  <2>2. /\ e \in Endpoint
        /\ e.worker_id = workers[i].worker_id /\ e.role = workers[i].role
    BY <1>1 DEF Endpoint
  <2>3. workers' = [workers EXCEPT ![i] = e]
    BY <2>1
  <2> HIDE DEF e
  <2> QED  BY <2>2, <2>3, EndpointOverwritten
<1>3. CASE \E l \in LoadLevels[w] : UpdateLoad(w, l)
  <2>1. PICK l \in LoadLevels[w] : UpdateLoad(w, l)
    BY <1>3
  <2>2. PICK i \in DOMAIN workers : workers' = [workers EXCEPT ![i].load = l]
    BY <2>1 DEF UpdateLoad, Position
  <2> DEFINE e == [workers[i] EXCEPT !.load = l]
  <2>3. /\ e \in Endpoint
        /\ e.worker_id = workers[i].worker_id /\ e.role = workers[i].role
    BY <1>1, LoadAssumption DEF Endpoint
  <2>4. workers' = [workers EXCEPT ![i] = e]
    BY <2>2
  <2> HIDE DEF e
  <2> QED  BY <2>3, <2>4, EndpointOverwritten
<1> QED  BY <1>2, <1>3

(* Only the registry's own operations touch the registry. *)
RegistryStep ==
    \E w \in Workers :
        \/ Register(w) \/ Deregister(w) \/ MarkUnhealthy(w)
        \/ \E l \in LoadLevels[w] : UpdateLoad(w, l)

RequestStep ==
    \E r \in Requests :
        \/ RouteToPrefill(r) \/ RouteRaises(r) \/ PrefillReturns(r)
        \/ DecodeReturns(r) \/ Cancel(r)

LEMMA StepSplit ==
    /\ [Next]_vars => RegistryStep \/ RequestStep \/ UNCHANGED vars
    /\ RegistryStep => UNCHANGED requestVars
    /\ RequestStep => UNCHANGED workers
<1>1. [Next]_vars => RegistryStep \/ RequestStep \/ UNCHANGED vars
  BY DEF Next, RegistryStep, RequestStep
<1>2. RegistryStep => UNCHANGED requestVars
  BY DEF RegistryStep, Register, Deregister, MarkUnhealthy, UpdateLoad
<1>3. RequestStep => UNCHANGED workers
  BY DEF RequestStep, RouteToPrefill, RouteRaises, PrefillReturns, DecodeReturns, Cancel
<1> QED  BY <1>1, <1>2, <1>3

LEMMA RegistryInductive ==
    ASSUME RegistryInv, [Next]_vars
    PROVE  RegistryInv'
<1>1. CASE RegistryStep
  BY <1>1, RegisterKeepsRegistry, DeregisterKeepsRegistry, ReportsKeepRegistry
     DEF RegistryStep
<1>2. CASE UNCHANGED workers
  BY <1>2 DEF RegistryInv, OneEndpointPerWorker, ConfiguredRoles
<1> QED  BY <1>1, <1>2, StepSplit DEF vars

(* However workers register, report, fail and leave, the registry holds one *)
(* endpoint per worker id (WorkerRegistry).                                 *)
THEOREM RegistryIsKeyed == Spec => []OneEndpointPerWorker
<1>1. Init => RegistryInv
  BY DEF Init, RegistryInv, OneEndpointPerWorker, ConfiguredRoles
<1>2. RegistryInv /\ [Next]_vars => RegistryInv'
  BY RegistryInductive
<1>3. RegistryInv => OneEndpointPerWorker
  BY DEF RegistryInv
<1> QED  BY <1>1, <1>2, <1>3, PTL DEF Spec

------------------------------------------------------------------------------
(* The requests *)

\* A running call has been counted, and one in its prefill RPC is waiting
\* for a prefill worker.
RunningCalls ==
    \A r \in Requests :
        /\ Running(r) => attempts[r] > 0
        /\ pc[r] = "prefill" => chosen[r] \in Workers /\ RoleOf[chosen[r]] = "prefill"

RequestInv ==
    /\ RequestTypes
    /\ RunningCalls
    /\ InFlightIsRunning
    /\ UntrackedOnlyOnClash
    /\ DecodesOwnHandle

LEMMA SelectedWorker ==
    ASSUME RegistryInv, NEW role, NEW r \in Requests, NEW i \in SelectWorker(role, r)
    PROVE  /\ workers[i].worker_id \in Workers
           /\ RoleOf[workers[i].worker_id] = role
<1>1. i \in DOMAIN workers /\ workers[i].role = role
  BY DEF SelectWorker, LeastLoaded, Candidates
<1>2. workers[i] \in Endpoint
  BY <1>1 DEF RegistryInv
<1> QED  BY <1>1, <1>2 DEF RegistryInv, ConfiguredRoles, Endpoint

(* The finally clause of route(): whatever else the step does, as long as   *)
(* it touches only this request, the table stays sound.                     *)
LEMMA ReturnKeepsTable ==
    ASSUME RequestInv, NEW r \in Requests, NEW outcome \in {"done", "failed"},
           Return(r, outcome),
           \A s \in Requests : attempts'[s] >= attempts[s],
           attempts' \in [Requests -> Nat],
           Running(r) \/ attempts'[r] > 0
    PROVE  /\ DOMAIN in_flight' \subseteq Ids
           /\ in_flight' \in [DOMAIN in_flight' -> Requests]
           /\ pc' \in [Requests -> {"idle", "prefill", "decode", "done", "failed"}]
           /\ chosen' \in [Requests -> Workers \union {None}]
           /\ RunningCalls'
           /\ InFlightIsRunning'
           /\ UntrackedOnlyOnClash'
<1>1. /\ DOMAIN in_flight' = DOMAIN in_flight \ {RequestId[r]}
      /\ \A i \in DOMAIN in_flight' : in_flight'[i] = in_flight[i]
      /\ in_flight' \in [DOMAIN in_flight' -> Requests]
  BY DEF Return, Pop, RequestInv, RequestTypes
<1>2. /\ pc'[r] = outcome
      /\ \A s \in Requests \ {r} : pc'[s] = pc[s] /\ chosen'[s] = chosen[s]
  BY DEF Return, RequestInv, RequestTypes
<1>3. ~Running(r)' /\ \A s \in Requests \ {r} : Running(s)' <=> Running(s)
  BY <1>2 DEF Running
<1>4. /\ pc' \in [Requests -> {"idle", "prefill", "decode", "done", "failed"}]
      /\ chosen' \in [Requests -> Workers \union {None}]
  BY DEF Return, RequestInv, RequestTypes
<1>5. RunningCalls'
  BY <1>2, <1>3 DEF RunningCalls, RequestInv, RequestTypes
<1>6. InFlightIsRunning'
  BY <1>1, <1>3 DEF InFlightIsRunning, RequestInv, RequestTypes
<1>7. attempts'[r] > 0
  BY DEF RequestInv, RunningCalls, RequestTypes
<1>8. UntrackedOnlyOnClash'
  <2> SUFFICES ASSUME NEW s \in Requests, Running(s)'
               PROVE  \/ RequestId[s] \in DOMAIN in_flight' /\ in_flight'[RequestId[s]] = s
                      \/ \E t \in Requests \ {s} :
                            RequestId[t] = RequestId[s] /\ attempts'[t] > 0
    BY DEF UntrackedOnlyOnClash
  <2>1. s # r /\ Running(s)
    BY <1>3
  <2>2. CASE RequestId[s] = RequestId[r]
    BY <1>7, <2>1, <2>2
  <2>3. CASE /\ RequestId[s] # RequestId[r]
             /\ RequestId[s] \in DOMAIN in_flight /\ in_flight[RequestId[s]] = s
    BY <1>1, <2>3
  <2>4. CASE \E t \in Requests \ {s} : RequestId[t] = RequestId[s] /\ attempts[t] > 0
    BY <2>4 DEF RequestInv, RequestTypes
  <2> QED  BY <2>1, <2>2, <2>3, <2>4 DEF RequestInv, UntrackedOnlyOnClash
<1> QED  BY <1>1, <1>4, <1>5, <1>6, <1>8 DEF RequestInv, RequestTypes

LEMMA RouteToPrefillKeepsRequests ==
    ASSUME RegistryInv, RequestInv, NEW r \in Requests, RouteToPrefill(r)
    PROVE  RequestInv'
<1>1. PICK i \in SelectWorker("prefill", r) :
         chosen' = [chosen EXCEPT ![r] = workers[i].worker_id]
  BY DEF RouteToPrefill
<1>2. workers[i].worker_id \in Workers /\ RoleOf[workers[i].worker_id] = "prefill"
  BY SelectedWorker
<1>3. /\ DOMAIN in_flight' = DOMAIN in_flight \union {RequestId[r]}
      /\ in_flight'[RequestId[r]] = r
      /\ \A j \in DOMAIN in_flight \ {RequestId[r]} : in_flight'[j] = in_flight[j]
      /\ in_flight' \in [DOMAIN in_flight' -> Requests]
  BY DEF RouteToPrefill, RequestInv, RequestTypes
<1>4. /\ pc'[r] = "prefill" /\ attempts'[r] = attempts[r] + 1 /\ ~Running(r)
      /\ \A s \in Requests \ {r} : pc'[s] = pc[s] /\ attempts'[s] = attempts[s]
  BY DEF RouteToPrefill, Callable, Running, RequestInv, RequestTypes
<1>5. Running(r)' /\ \A s \in Requests \ {r} : Running(s)' <=> Running(s)
  BY <1>4 DEF Running
<1>6. RequestTypes'
  <2>1. RequestId[r] \in Ids
    BY DEF Ids
  <2> QED  BY <1>1, <1>2, <1>3, <2>1 DEF RouteToPrefill, RequestInv, RequestTypes
<1>7. RunningCalls'
  BY <1>1, <1>2, <1>4, <1>5 DEF RunningCalls, RequestInv, RequestTypes
<1>8. InFlightIsRunning'
  BY <1>3, <1>5 DEF InFlightIsRunning, RequestInv
<1>9. UntrackedOnlyOnClash'
  <2> SUFFICES ASSUME NEW s \in Requests, Running(s)', s # r
               PROVE  \/ RequestId[s] \in DOMAIN in_flight' /\ in_flight'[RequestId[s]] = s
                      \/ \E t \in Requests \ {s} :
                            RequestId[t] = RequestId[s] /\ attempts'[t] > 0
    BY <1>3 DEF UntrackedOnlyOnClash
  <2>1. attempts'[r] > 0
    BY <1>4 DEF RequestInv, RequestTypes
  <2>2. CASE RequestId[s] = RequestId[r]
    BY <2>1, <2>2
  <2>3. CASE /\ RequestId[s] # RequestId[r]
             /\ RequestId[s] \in DOMAIN in_flight /\ in_flight[RequestId[s]] = s
    BY <1>3, <2>3
  <2>4. CASE \E t \in Requests \ {s} : RequestId[t] = RequestId[s] /\ attempts[t] > 0
    BY <1>4, <2>1, <2>4
  <2> QED  BY <1>5, <2>2, <2>3, <2>4 DEF RequestInv, UntrackedOnlyOnClash
<1>10. DecodesOwnHandle'
  BY <1>4 DEF RouteToPrefill, DecodesOwnHandle, RequestInv
<1> QED  BY <1>6, <1>7, <1>8, <1>9, <1>10 DEF RequestInv

LEMMA RouteRaisesKeepsRequests ==
    ASSUME RequestInv, NEW r \in Requests, RouteRaises(r)
    PROVE  RequestInv'
<1>1. /\ attempts' \in [Requests -> Nat]
      /\ attempts'[r] > 0
      /\ \A s \in Requests : attempts'[s] >= attempts[s]
  BY DEF RouteRaises, RequestInv, RequestTypes
<1>2. Return(r, "failed") /\ UNCHANGED <<phase, kv_handle, stats>>
  BY DEF RouteRaises
<1>3. pc'[r] = "failed" /\ \A s \in Requests \ {r} : pc'[s] = pc[s]
  BY <1>2 DEF Return, RequestInv, RequestTypes
<1>4. DecodesOwnHandle'
  BY <1>2, <1>3 DEF DecodesOwnHandle, RequestInv
<1> QED  BY <1>1, <1>2, <1>4, ReturnKeepsTable DEF RequestInv, RequestTypes

LEMMA PrefillReturnsKeepsRequests ==
    ASSUME RegistryInv, RequestInv, NEW r \in Requests, PrefillReturns(r)
    PROVE  RequestInv'
<1> DEFINE h == [worker |-> chosen[r], request |-> RequestId[r]]
<1>1. /\ h \in Handles /\ h # None
      /\ h.request = RequestId[r] /\ RoleOf[h.worker] = "prefill"
  BY NoneAssumption DEF PrefillReturns, RequestInv, RunningCalls, Handles, Ids
<1>2. /\ kv_handle' = [kv_handle EXCEPT ![r] = h]
      /\ phase' = [phase EXCEPT ![r] = "decode"]
      /\ UNCHANGED attempts
      /\ stats' \in Stats
  BY DEF PrefillReturns, RequestInv, RequestTypes, Stats
<1> HIDE DEF h
<1>3. /\ kv_handle' \in [Requests -> Handles \union {None}]
      /\ kv_handle'[r] = h
      /\ \A s \in Requests \ {r} : kv_handle'[s] = kv_handle[s]
      /\ phase' \in [Requests -> RequestPhase]
      /\ phase'[r] = "decode"
      /\ \A s \in Requests \ {r} : phase'[s] = phase[s]
  BY <1>1, <1>2 DEF RequestInv, RequestTypes, RequestPhase
<1>4. Running(r) /\ attempts' \in [Requests -> Nat] /\ \A s \in Requests : attempts'[s] >= attempts[s]
  BY <1>2 DEF PrefillReturns, Running, RequestInv, RequestTypes
<1>5. CASE /\ \E i \in SelectWorker("decode", r) :
                 chosen' = [chosen EXCEPT ![r] = workers[i].worker_id]
           /\ pc' = [pc EXCEPT ![r] = "decode"]
           /\ UNCHANGED in_flight
  <2>1. PICK i \in SelectWorker("decode", r) :
             chosen' = [chosen EXCEPT ![r] = workers[i].worker_id]
    BY <1>5
  <2>2. workers[i].worker_id \in Workers
    BY SelectedWorker
  <2>3. /\ pc'[r] = "decode"
        /\ \A s \in Requests \ {r} : pc'[s] = pc[s] /\ chosen'[s] = chosen[s]
    BY <1>5, <2>1 DEF RequestInv, RequestTypes
  <2>4. \A s \in Requests : Running(s)' <=> Running(s)
    BY <1>4, <2>3 DEF Running
  <2>5. RequestTypes'
    BY <1>2, <1>3, <1>4, <1>5, <2>1, <2>2 DEF RequestInv, RequestTypes
  <2>6. RunningCalls'
    BY <1>2, <2>3, <2>4 DEF RunningCalls, RequestInv
  <2>7. InFlightIsRunning' /\ UntrackedOnlyOnClash'
    BY <1>2, <1>5, <2>4 DEF InFlightIsRunning, UntrackedOnlyOnClash, RequestInv, RequestTypes
  <2>8. DecodesOwnHandle'
    BY <1>1, <1>3, <2>3 DEF DecodesOwnHandle, RequestInv
  <2> QED  BY <2>5, <2>6, <2>7, <2>8 DEF RequestInv
<1>6. CASE Return(r, "failed")
  <2>1. pc'[r] = "failed" /\ \A s \in Requests \ {r} : pc'[s] = pc[s]
    BY <1>6 DEF Return, RequestInv, RequestTypes
  <2>2. DecodesOwnHandle'
    BY <1>3, <2>1 DEF DecodesOwnHandle, RequestInv
  <2> QED  BY <1>2, <1>3, <1>4, <1>6, <2>2, ReturnKeepsTable DEF RequestInv, RequestTypes
<1> QED  BY <1>5, <1>6 DEF PrefillReturns

LEMMA DecodeCounted ==
    ASSUME stats \in Stats, NEW r, DecodeReturns(r)
    PROVE  /\ stats' \in Stats
           /\ stats'.completed = stats.completed + 1
           /\ stats'.decodes = stats.decodes + 1
           /\ stats'.prefills = stats.prefills
<1> DEFINE one == [stats EXCEPT !.decodes = stats.decodes + 1]
<1>1. /\ one \in Stats
      /\ one.completed = stats.completed
      /\ one.decodes = stats.decodes + 1
      /\ one.prefills = stats.prefills
  BY DEF Stats
<1>2. stats' = [one EXCEPT !.completed = stats.completed + 1]
  BY DEF DecodeReturns
<1> HIDE DEF one
<1> QED  BY <1>1, <1>2 DEF Stats

LEMMA DecodeReturnsKeepsRequests ==
    ASSUME RequestInv, NEW r \in Requests, DecodeReturns(r)
    PROVE  RequestInv'
<1>1. /\ Return(r, "done") /\ Running(r)
      /\ UNCHANGED <<phase, kv_handle, attempts>>
      /\ stats' \in Stats
  <2>1. /\ Return(r, "done") /\ pc[r] = "decode"
        /\ UNCHANGED <<phase, kv_handle, attempts>>
    BY DEF DecodeReturns
  <2>2. stats' \in Stats
    BY DecodeCounted DEF RequestInv, RequestTypes
  <2> QED  BY <2>1, <2>2 DEF Running
<1>2. /\ pc[r] = "decode" /\ pc'[r] = "done"
      /\ \A s \in Requests \ {r} : pc'[s] = pc[s]
  BY <1>1 DEF DecodeReturns, Return, RequestInv, RequestTypes
<1>3. DecodesOwnHandle'
  BY <1>1, <1>2 DEF DecodesOwnHandle, RequestInv
<1>4. attempts' \in [Requests -> Nat] /\ \A s \in Requests : attempts'[s] >= attempts[s]
  BY <1>1 DEF RequestInv, RequestTypes
<1> QED  BY <1>1, <1>3, <1>4, ReturnKeepsTable DEF RequestInv, RequestTypes

LEMMA CancelKeepsRequests ==
    ASSUME RequestInv, NEW r \in Requests, Cancel(r)
    PROVE  RequestInv'
<1>1. /\ Return(r, "failed") /\ Running(r)
      /\ UNCHANGED <<phase, kv_handle, attempts, stats>>
  BY DEF Cancel, Running
<1>2. pc'[r] = "failed" /\ \A s \in Requests \ {r} : pc'[s] = pc[s]
  BY <1>1 DEF Return, RequestInv, RequestTypes
<1>3. DecodesOwnHandle'
  BY <1>1, <1>2 DEF DecodesOwnHandle, RequestInv
<1>4. attempts' \in [Requests -> Nat] /\ \A s \in Requests : attempts'[s] >= attempts[s]
  BY <1>1 DEF RequestInv, RequestTypes
<1> QED  BY <1>1, <1>3, <1>4, ReturnKeepsTable DEF RequestInv, RequestTypes

LEMMA RequestInductive ==
    ASSUME RegistryInv, RequestInv, [Next]_vars
    PROVE  RequestInv'
<1>1. CASE RequestStep
  BY <1>1, RouteToPrefillKeepsRequests, RouteRaisesKeepsRequests,
     PrefillReturnsKeepsRequests, DecodeReturnsKeepsRequests, CancelKeepsRequests
     DEF RequestStep
<1>2. CASE UNCHANGED requestVars
  BY <1>2 DEF requestVars, RequestInv, RequestTypes, RunningCalls, InFlightIsRunning,
     UntrackedOnlyOnClash, DecodesOwnHandle, Running
<1> QED  BY <1>1, <1>2, StepSplit DEF vars, requestVars

LEMMA InitialInvariants == Init => RegistryInv /\ RequestInv
<1> SUFFICES ASSUME Init PROVE RegistryInv /\ RequestInv
  OBVIOUS
<1>1. RegistryInv
  BY DEF Init, RegistryInv, OneEndpointPerWorker, ConfiguredRoles
<1>2. DOMAIN in_flight = {}
  BY DEF Init
<1>3. RequestTypes
  BY <1>2 DEF Init, RequestTypes, RequestPhase, Stats
<1>4. RunningCalls /\ InFlightIsRunning /\ UntrackedOnlyOnClash /\ DecodesOwnHandle
  BY <1>2 DEF Init, RunningCalls, InFlightIsRunning, UntrackedOnlyOnClash,
     DecodesOwnHandle, Running
<1> QED  BY <1>1, <1>3, <1>4 DEF RequestInv

LEMMA Invariants == Spec => [](RegistryInv /\ RequestInv)
<1>1. Init => RegistryInv /\ RequestInv
  BY InitialInvariants
<1>2. RegistryInv /\ RequestInv /\ [Next]_vars => (RegistryInv /\ RequestInv)'
  BY RegistryInductive, RequestInductive
<1> QED  BY <1>1, <1>2, PTL DEF Spec

(* The type invariant of the router and its registry.                       *)
THEOREM TypeCorrect == Spec => []TypeOK
<1>1. RegistryInv /\ RequestInv => TypeOK
  BY DEF RegistryInv, RequestInv, TypeOK
<1> QED  BY <1>1, Invariants, PTL

(* route()'s try/finally: no in-flight entry outlives its call, whatever     *)
(* raises or is cancelled, also when request ids clash.                     *)
THEOREM NoStaleInFlight == Spec => []InFlightIsRunning
<1>1. RequestInv => InFlightIsRunning
  BY DEF RequestInv
<1> QED  BY <1>1, Invariants, PTL

(* A running call disappears from the in-flight table only if another       *)
(* object was routed under its request_id.                                  *)
THEOREM TrackedUnlessClash == Spec => []UntrackedOnlyOnClash
<1>1. RequestInv => UntrackedOnlyOnClash
  BY DEF RequestInv
<1> QED  BY <1>1, Invariants, PTL

(* Decoding starts from the KV handle of the request's own prefill.         *)
THEOREM HandleIsOwn == Spec => []DecodesOwnHandle
<1>1. RequestInv => DecodesOwnHandle
  BY DEF RequestInv
<1> QED  BY <1>1, Invariants, PTL

------------------------------------------------------------------------------
(* The statistics *)

At(stage) == {r \in Requests : pc[r] = stage}

LEMMA AtIsFinite == \A stage : IsFiniteSet(At(stage)) /\ Cardinality(At(stage)) \in Nat
<1> SUFFICES ASSUME NEW stage PROVE IsFiniteSet(At(stage)) /\ Cardinality(At(stage)) \in Nat
  OBVIOUS
<1>1. At(stage) \in SUBSET Requests
  BY DEF At
<1> QED  BY <1>1, RequestAssumption, FS_Subset, FS_CardinalityType

(* When one request moves, the requests at a stage gain it, lose it or stay. *)
LEMMA OneMoves ==
    ASSUME RequestTypes, NEW r \in Requests, NEW to, NEW stage,
           pc' = [pc EXCEPT ![r] = to]
    PROVE  Cardinality(At(stage))' =
              Cardinality(At(stage)) + (IF to = stage /\ pc[r] # stage THEN 1 ELSE 0)
                                     - (IF to # stage /\ pc[r] = stage THEN 1 ELSE 0)
<1>1. IsFiniteSet(At(stage)) /\ Cardinality(At(stage)) \in Nat
  BY AtIsFinite
<1>2. pc'[r] = to /\ \A s \in Requests \ {r} : pc'[s] = pc[s]
  BY DEF RequestTypes
<1>3. CASE to = stage
  <2>1. At(stage)' = At(stage) \union {r}
    BY <1>2, <1>3 DEF At
  <2>2. r \in At(stage) <=> pc[r] = stage
    BY DEF At
  <2> QED  BY <1>1, <1>3, <2>1, <2>2, FS_AddElement
<1>4. CASE to # stage
  <2>1. At(stage)' = At(stage) \ {r}
    BY <1>2, <1>4 DEF At
  <2>2. r \in At(stage) <=> pc[r] = stage
    BY DEF At
  <2>3. Cardinality(At(stage) \ {r}) =
           IF r \in At(stage) THEN Cardinality(At(stage)) - 1 ELSE Cardinality(At(stage))
    BY <1>1, FS_RemoveElement
  <2> QED  BY <1>1, <1>4, <2>1, <2>2, <2>3
<1> QED  BY <1>3, <1>4

LEMMA StatsInductive ==
    ASSUME RequestInv, StatsAddUp, [Next]_vars
    PROVE  StatsAddUp'
<1> USE DEF RequestInv
<1>0. /\ Cardinality(At("done")) \in Nat /\ Cardinality(At("decode")) \in Nat
      /\ stats.completed = Cardinality(At("done"))
      /\ stats.decodes = stats.completed
      /\ stats.prefills >= stats.completed + Cardinality(At("decode"))
      /\ stats.prefills \in Nat /\ stats \in Stats
  <2>1. /\ stats.completed = Cardinality(At("done"))
        /\ stats.decodes = stats.completed
        /\ stats.prefills >= stats.completed + Cardinality(At("decode"))
    BY DEF StatsAddUp, At
  <2>2. stats \in Stats /\ stats.prefills \in Nat
    BY DEF RequestTypes, Stats
  <2> QED  BY <2>1, <2>2, AtIsFinite
<1>g. SUFFICES /\ stats'.completed = Cardinality(At("done"))'
               /\ stats'.decodes = stats'.completed
               /\ stats'.prefills >= stats'.completed + Cardinality(At("decode"))'
  BY DEF StatsAddUp, At
<1>1. ASSUME NEW r \in Requests, RouteToPrefill(r)
      PROVE  /\ stats' = stats
             /\ pc' = [pc EXCEPT ![r] = "prefill"] /\ pc[r] \in {"idle", "failed"}
  BY <1>1 DEF RouteToPrefill, Callable
<1>2. ASSUME NEW r \in Requests, RouteRaises(r)
      PROVE  /\ stats' = stats
             /\ pc' = [pc EXCEPT ![r] = "failed"] /\ pc[r] \in {"idle", "failed"}
  BY <1>2 DEF RouteRaises, Callable, Return
<1>3. ASSUME NEW r \in Requests, PrefillReturns(r)
      PROVE  /\ stats'.completed = stats.completed
             /\ stats'.decodes = stats.decodes
             /\ stats'.prefills = stats.prefills + 1
             /\ pc[r] = "prefill"
             /\ \/ pc' = [pc EXCEPT ![r] = "decode"]
                \/ pc' = [pc EXCEPT ![r] = "failed"]
  <2>1. stats' = [stats EXCEPT !.prefills = @ + 1]
    BY <1>3 DEF PrefillReturns
  <2>2. /\ stats'.completed = stats.completed
        /\ stats'.decodes = stats.decodes
        /\ stats'.prefills = stats.prefills + 1
    BY <1>0, <2>1 DEF Stats
  <2> QED  BY <1>3, <2>2 DEF PrefillReturns, Return
<1>4. ASSUME NEW r \in Requests, DecodeReturns(r)
      PROVE  /\ stats'.completed = stats.completed + 1
             /\ stats'.decodes = stats.decodes + 1
             /\ stats'.prefills = stats.prefills
             /\ pc' = [pc EXCEPT ![r] = "done"] /\ pc[r] = "decode"
  BY <1>0, <1>4, DecodeCounted DEF DecodeReturns, Return
<1>5. ASSUME NEW r \in Requests, Cancel(r)
      PROVE  /\ stats' = stats
             /\ pc' = [pc EXCEPT ![r] = "failed"] /\ pc[r] \in {"prefill", "decode"}
  BY <1>5 DEF Cancel, Return
<1>6. CASE RequestStep
  <2>1. PICK r \in Requests :
           RouteToPrefill(r) \/ RouteRaises(r) \/ PrefillReturns(r) \/ DecodeReturns(r) \/ Cancel(r)
    BY <1>6 DEF RequestStep
  <2> DEFINE Moves(from, to) ==
         /\ Cardinality(At("done"))' =
               Cardinality(At("done")) + (IF to = "done" /\ from # "done" THEN 1 ELSE 0)
                                       - (IF to # "done" /\ from = "done" THEN 1 ELSE 0)
         /\ Cardinality(At("decode"))' =
               Cardinality(At("decode")) + (IF to = "decode" /\ from # "decode" THEN 1 ELSE 0)
                                         - (IF to # "decode" /\ from = "decode" THEN 1 ELSE 0)
  <2>m. \A to : pc' = [pc EXCEPT ![r] = to] => Moves(pc[r], to)
    BY OneMoves
  <2> HIDE DEF Moves
  <2>2. CASE RouteToPrefill(r)
    <3>1. Moves(pc[r], "prefill")
      BY <1>1, <2>2, <2>m
    <3> QED  BY <1>0, <1>1, <2>2, <3>1 DEF Moves
  <2>3. CASE RouteRaises(r)
    <3>1. Moves(pc[r], "failed")
      BY <1>2, <2>3, <2>m
    <3> QED  BY <1>0, <1>2, <2>3, <3>1 DEF Moves
  <2>4. CASE PrefillReturns(r)
    <3>1. Moves(pc[r], "decode") \/ Moves(pc[r], "failed")
      BY <1>3, <2>4, <2>m
    <3> QED  BY <1>0, <1>3, <2>4, <3>1 DEF Moves
  <2>5. CASE DecodeReturns(r)
    <3>1. Moves(pc[r], "done")
      BY <1>4, <2>5, <2>m
    <3> QED  BY <1>0, <1>4, <2>5, <3>1 DEF Moves
  <2>6. CASE Cancel(r)
    <3>1. Moves(pc[r], "failed")
      BY <1>5, <2>6, <2>m
    <3> QED  BY <1>0, <1>5, <2>6, <3>1 DEF Moves
  <2> QED  BY <2>1, <2>2, <2>3, <2>4, <2>5, <2>6
<1>7. CASE UNCHANGED requestVars
  BY <1>0, <1>7 DEF requestVars, At
<1> QED  BY <1>6, <1>7, StepSplit DEF vars, requestVars

(* RouterStats counts what was served: one completion and one decode latency *)
(* per transcript, and a prefill latency for each of them.                   *)
THEOREM StatsCorrect == Spec => []StatsAddUp
<1>1. Init => StatsAddUp
  <2> SUFFICES ASSUME Init PROVE StatsAddUp
    OBVIOUS
  <2>1. {r \in Requests : pc[r] = "done"} = {} /\ {r \in Requests : pc[r] = "decode"} = {}
    BY DEF Init
  <2>2. stats.completed = 0 /\ stats.prefills = 0 /\ stats.decodes = 0
    BY DEF Init
  <2>3. Cardinality({}) = 0
    BY FS_EmptySet
  <2> QED  BY <2>1, <2>2, <2>3 DEF StatsAddUp
<1>2. RequestInv /\ StatsAddUp /\ [Next]_vars => StatsAddUp'
  BY StatsInductive
<1> QED  BY <1>1, <1>2, Invariants, PTL DEF Spec

------------------------------------------------------------------------------
(* Scheduling *)

LEMMA LeastLoadedIsLeast ==
    ASSUME RegistryInv, NEW role, NEW r, NEW i \in SelectWorker(role, r)
    PROVE  /\ i \in DOMAIN workers
           /\ workers[i].role = role /\ workers[i].healthy
           /\ \A j \in DOMAIN workers :
                 /\ workers[j].role = role /\ workers[j].healthy
                 /\ workers[j].load <= workers[i].load
                 => workers[j].load = workers[i].load /\ i <= j
<1>1. i \in LeastLoaded(role)
  BY DEF SelectWorker
<1>2. DOMAIN workers = 1..Len(workers) /\ Len(workers) \in Nat
  BY LenProperties DEF RegistryInv
<1>3. \A j \in DOMAIN workers : workers[j] \in Endpoint
  BY DEF RegistryInv
<1>4. \A j \in DOMAIN workers : workers[j].load \in Int
  BY <1>3 DEF Endpoint
<1> QED  BY <1>1, <1>2, <1>4 DEF LeastLoaded, Candidates

(* Whatever the workers do while calls are waiting, a prefill or decode RPC  *)
(* goes to a worker that is at that moment registered for the role, healthy  *)
(* and least loaded.                                                         *)
THEOREM Scheduling == Spec => DispatchesToLeastLoaded
<1> DEFINE Least(r, role) ==
       \E i \in DOMAIN workers :
          /\ workers[i].worker_id = chosen'[r]
          /\ workers[i].role = role /\ workers[i].healthy
          /\ \A j \in DOMAIN workers :
                /\ workers[j].role = role /\ workers[j].healthy
                /\ workers[j].load <= workers[i].load
                => /\ workers[j].load = workers[i].load
                   /\ i <= j
<1>1. ASSUME RegistryInv, RequestInv, [Next]_vars,
             NEW r \in Requests, NEW role \in RequestPhase, Dispatched(r, role)
      PROVE  Least(r, role)
  <2> USE DEF RequestInv
  <2>1. pc[r] # role /\ pc'[r] = role
    BY <1>1 DEF Dispatched
  <2>2. RequestStep
    BY <1>1, <2>1, StepSplit DEF requestVars, vars
  <2>3. PICK s \in Requests :
           RouteToPrefill(s) \/ RouteRaises(s) \/ PrefillReturns(s) \/ DecodeReturns(s) \/ Cancel(s)
    BY <2>2 DEF RequestStep
  <2>4. role = "prefill" \/ role = "decode"
    BY DEF RequestPhase
  <2>5. \E to \in {"prefill", "decode", "done", "failed"} : pc' = [pc EXCEPT ![s] = to]
    BY <2>3 DEF RouteToPrefill, RouteRaises, PrefillReturns, DecodeReturns, Cancel, Return
  <2>6. s = r
    BY <1>1, <2>1, <2>5 DEF RequestTypes
  <2>7. \E i \in SelectWorker(role, r) : chosen' = [chosen EXCEPT ![r] = workers[i].worker_id]
    <3>1. CASE RouteToPrefill(s)
      <4>1. pc'[r] = "prefill"
        BY <1>1, <2>6, <3>1 DEF RouteToPrefill, RequestTypes
      <4> QED  BY <2>1, <2>6, <3>1, <4>1 DEF RouteToPrefill
    <3>2. CASE PrefillReturns(s)
      <4>1. pc'[r] \in {"decode", "failed"} /\ (pc'[r] = "decode" => ~Return(r, "failed"))
        BY <1>1, <2>6, <3>2 DEF PrefillReturns, Return, RequestTypes
      <4> QED  BY <2>1, <2>4, <2>6, <3>2, <4>1 DEF PrefillReturns
    <3>3. CASE RouteRaises(s) \/ DecodeReturns(s) \/ Cancel(s)
      <4>1. pc'[r] \in {"done", "failed"}
        BY <1>1, <2>6, <3>3 DEF RouteRaises, DecodeReturns, Cancel, Return, RequestTypes
      <4> QED  BY <2>1, <2>4, <4>1
    <3> QED  BY <2>3, <3>1, <3>2, <3>3
  <2>8. PICK i \in SelectWorker(role, r) : chosen' = [chosen EXCEPT ![r] = workers[i].worker_id]
    BY <2>7
  <2>9. workers[i].worker_id = chosen'[r]
    BY <1>1, <2>8 DEF RequestTypes
  <2> QED  BY <1>1, <2>8, <2>9, LeastLoadedIsLeast
<1>2. RegistryInv /\ RequestInv /\ [Next]_vars =>
         [\A r \in Requests, role \in RequestPhase : Dispatched(r, role) => Least(r, role)]_vars
  BY <1>1
<1> QED  BY <1>2, Invariants, PTL DEF Spec, DispatchesToLeastLoaded

------------------------------------------------------------------------------
(* Refinement *)

StageOf == [r \in Requests |-> Stage(r)]

LEMMA StageMoves ==
    ASSUME RequestTypes, NEW r \in Requests, NEW to, pc' = [pc EXCEPT ![r] = to]
    PROVE  StageOf' = [StageOf EXCEPT ![r] =
               CASE to = "idle"    -> "outside"
                 [] to = "prefill" -> "prefilling"
                 [] to = "decode"  -> "decoding"
                 [] to = "done"    -> "served"
                 [] to = "failed"  -> "abandoned"]
<1>1. pc'[r] = to /\ \A s \in Requests \ {r} : pc'[s] = pc[s]
  BY DEF RequestTypes
<1>2. \A s \in Requests \ {r} : Stage(s)' = Stage(s)
  BY <1>1 DEF Stage
<1>3. Stage(r)' = CASE to = "idle"    -> "outside"
                    [] to = "prefill" -> "prefilling"
                    [] to = "decode"  -> "decoding"
                    [] to = "done"    -> "served"
                    [] to = "failed"  -> "abandoned"
  BY <1>1 DEF Stage
<1> QED  BY <1>2, <1>3 DEF StageOf

LEMMA StepRefines ==
    ASSUME RegistryInv, RequestInv, [Next]_vars
    PROVE  [PDD!PDDNext]_(PDD!pddVars)
<1> USE DEF RequestInv
<1>1. CASE RequestStep
  <2>1. PICK r \in Requests :
           RouteToPrefill(r) \/ RouteRaises(r) \/ PrefillReturns(r) \/ DecodeReturns(r) \/ Cancel(r)
    BY <1>1 DEF RequestStep
  <2>2. CASE RouteToPrefill(r)
    <3>1. /\ pc' = [pc EXCEPT ![r] = "prefill"] /\ pc[r] \in {"idle", "failed"}
          /\ kv_handle' = kv_handle /\ stats' = stats
      BY <2>2 DEF RouteToPrefill, Callable
    <3>2. StageOf' = [StageOf EXCEPT ![r] = "prefilling"]
      BY <3>1, StageMoves
    <3>3. StageOf[r] \in {"outside", "abandoned"}
      BY <3>1 DEF StageOf, Stage
    <3>4. PDD!Admit(r)
      BY <3>1, <3>2, <3>3 DEF PDD!Admit, PDD!Outside, StageOf
    <3> QED  BY <3>4 DEF PDD!PDDNext
  <2>3. CASE RouteRaises(r)
    <3>1. /\ pc' = [pc EXCEPT ![r] = "failed"] /\ pc[r] \in {"idle", "failed"}
          /\ kv_handle' = kv_handle /\ stats' = stats
      BY <2>3 DEF RouteRaises, Callable, Return
    <3>2. StageOf' = [StageOf EXCEPT ![r] = "abandoned"]
      BY <3>1, StageMoves
    <3>3. StageOf[r] # "served"
      BY <3>1 DEF StageOf, Stage
    <3>4. PDD!Abandon(r)
      BY <3>1, <3>2, <3>3 DEF PDD!Abandon, StageOf
    <3> QED  BY <3>4 DEF PDD!PDDNext
  <2>4. CASE PrefillReturns(r)
    <3> DEFINE h == [worker |-> chosen[r], request |-> RequestId[r]]
    <3>1. /\ pc[r] = "prefill" /\ kv_handle' = [kv_handle EXCEPT ![r] = h]
          /\ stats' = [stats EXCEPT !.prefills = @ + 1]
          /\ pc' = [pc EXCEPT ![r] = "decode"] \/ pc' = [pc EXCEPT ![r] = "failed"]
      BY <2>4 DEF PrefillReturns, Return
    <3>2. h \in Handles
      BY <3>1 DEF Handles, Ids, RunningCalls
    <3> HIDE DEF h
    <3>3. stats'.completed = stats.completed
      BY <3>1 DEF RequestTypes, Stats
    <3>4. StageOf[r] = "prefilling"
      BY <3>1 DEF StageOf, Stage
    <3>5. CASE pc' = [pc EXCEPT ![r] = "decode"]
      <4>1. StageOf' = [StageOf EXCEPT ![r] = "decoding"]
        BY <3>5, StageMoves
      <4>2. PDD!Prefilled(r)
        BY <3>1, <3>2, <3>3, <3>4, <4>1 DEF PDD!Prefilled, StageOf
      <4> QED  BY <4>2 DEF PDD!PDDNext
    <3>6. CASE pc' = [pc EXCEPT ![r] = "failed"]
      <4>1. StageOf' = [StageOf EXCEPT ![r] = "abandoned"]
        BY <3>6, StageMoves
      <4>2. PDD!Abandon(r)
        BY <3>1, <3>2, <3>3, <3>4, <4>1 DEF PDD!Abandon, StageOf
      <4> QED  BY <4>2 DEF PDD!PDDNext
    <3> QED  BY <3>1, <3>5, <3>6
  <2>5. CASE DecodeReturns(r)
    <3>1. /\ pc' = [pc EXCEPT ![r] = "done"] /\ pc[r] = "decode"
          /\ kv_handle' = kv_handle
      BY <2>5 DEF DecodeReturns, Return
    <3>2. stats'.completed = stats.completed + 1
      BY <2>5, DecodeCounted DEF RequestTypes
    <3>3. kv_handle[r] \in Handles
      BY <3>1 DEF RequestTypes, DecodesOwnHandle
    <3>4. StageOf' = [StageOf EXCEPT ![r] = "served"]
      BY <3>1, StageMoves
    <3>5. StageOf[r] = "decoding"
      BY <3>1 DEF StageOf, Stage
    <3>6. PDD!Serve(r)
      BY <3>1, <3>2, <3>3, <3>4, <3>5 DEF PDD!Serve, StageOf
    <3> QED  BY <3>6 DEF PDD!PDDNext
  <2>6. CASE Cancel(r)
    <3>1. /\ pc' = [pc EXCEPT ![r] = "failed"] /\ pc[r] \in {"prefill", "decode"}
          /\ kv_handle' = kv_handle /\ stats' = stats
      BY <2>6 DEF Cancel, Return
    <3>2. StageOf' = [StageOf EXCEPT ![r] = "abandoned"]
      BY <3>1, StageMoves
    <3>3. StageOf[r] # "served"
      BY <3>1 DEF StageOf, Stage
    <3>4. PDD!Abandon(r)
      BY <3>1, <3>2, <3>3 DEF PDD!Abandon, StageOf
    <3> QED  BY <3>4 DEF PDD!PDDNext
  <2> QED  BY <2>1, <2>2, <2>3, <2>4, <2>5, <2>6
<1>2. CASE UNCHANGED requestVars
  BY <1>2 DEF requestVars, PDD!pddVars, Stage
<1> QED  BY <1>1, <1>2, StepSplit DEF vars, requestVars

(* The router implements the prefill-decode pipeline: every step of the      *)
(* event loop is a step of PDDPipeline or leaves its state alone (the safety *)
(* part of ImplementsPDD; its liveness is model-checked).                    *)
THEOREM RouterRefinesPDD == Spec => PDD!PDDSafety
<1>1. Init => PDD!PDDInit
  BY DEF Init, PDD!PDDInit, Stage
<1>2. RegistryInv /\ RequestInv /\ [Next]_vars => [PDD!PDDNext]_(PDD!pddVars)
  BY StepRefines
<1> QED  BY <1>1, <1>2, Invariants, PTL DEF Spec, PDD!PDDSafety
==============================================================================
