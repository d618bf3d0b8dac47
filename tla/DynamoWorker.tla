---------------------------- MODULE DynamoWorker ----------------------------
(***************************************************************************)
(* dynamo-orchestration/src/dynamo_worker.py: one worker process of either *)
(* role, composed with the NixlTransferManager it owns (NixlTransfer): its  *)
(* lifecycle and registration, the requests it handles and the count its    *)
(* load is computed from.                                                   *)
(*                                                                         *)
(* A worker never calls evict and starts no eviction loop, so those actions *)
(* of the manager are not part of its next-state relation.                  *)
(***************************************************************************)
EXTENDS Integers, Sequences, FiniteSets

CONSTANTS
    Handles,        \* prefill requests, each with the KV tensor it creates
    Calls,          \* decode requests
    KvHandle,       \* the kv_handle of each decode request
    None,           \* Python's None
    BadTtl,         \* prefill requests with a kv_ttl_ms hint int() raises on
    Bus,            \* external: descriptors a message bus delivers; nothing
                    \* in the repository sends one
    MaxConcurrent

ASSUME WorkerAssumption ==
    /\ IsFiniteSet(Handles) /\ IsFiniteSet(Calls) /\ MaxConcurrent \in Nat \ {0}
    /\ KvHandle \in [Calls -> Handles \union {None}] /\ None \notin Handles
    /\ BadTtl \subseteq Handles /\ Bus \subseteq Handles

VARIABLES
    nixl_available, lifecycle, descriptors, registration, regions, warned,
    call, queue, permits, stats, expired, registered_times,   \* the manager
    role,            \* config.role
    has_registry,    \* a registry was passed to the constructor
    registered,      \* the worker's endpoint is in the registry
    running,         \* _running
    request_count,   \* _request_count
    prefill,         \* where each prefill request is
    decode           \* where each decode request is

Nixl == INSTANCE NixlTransfer

nixlVars == <<nixl_available, lifecycle, descriptors, registration, regions, warned,
              call, queue, permits, stats, expired, registered_times>>
workerVars == <<role, has_registry, registered, running>>
jobVars == <<request_count, prefill, decode>>
vars == <<nixlVars, workerVars, jobVars>>

Init ==
    /\ Nixl!Init
    /\ role \in {"prefill", "decode"}
    /\ has_registry \in BOOLEAN
    /\ registered = FALSE
    /\ running = FALSE
    /\ request_count = 0
    /\ prefill = [h \in Handles |-> "new"]
    /\ decode = [c \in Calls |-> "new"]

------------------------------------------------------------------------------
(* start and stop *)

\* Mutant: the worker registers before its agent is ready.
RegisterFirst ==
    /\ Nixl!Start
    /\ registered' = has_registry
    /\ running' = TRUE
    /\ UNCHANGED <<role, has_registry, jobVars>>

\* start() up to the await of the agent's init, or through in stub mode.
Start ==
    /\ Nixl!Start
    /\ IF nixl_available THEN UNCHANGED <<registered, running>>
                         ELSE registered' = has_registry /\ running' = TRUE
    /\ UNCHANGED <<role, has_registry, jobVars>>

AgentInitialised ==
    /\ Nixl!AgentInitialised
    /\ registered' = has_registry
    /\ running' = TRUE
    /\ UNCHANGED <<role, has_registry, jobVars>>

\* The worker leaves the registry before it awaits the agent's close.
Stop ==
    /\ Nixl!Stop
    /\ running' = FALSE
    /\ registered' = FALSE
    /\ UNCHANGED <<role, has_registry, jobVars>>

AgentClosed == Nixl!AgentClosed /\ UNCHANGED <<workerVars, jobVars>>

------------------------------------------------------------------------------
(* handle_request.  It does not look at _running: a request that was routed  *)
(* to the worker before it left is handled during and after stop().          *)

Accept == request_count' = request_count + 1
Settle == request_count' = request_count - 1

Arrives(state) == Nixl!Usable /\ state = "new"

\* The other role's phase, which a request retried by the router may carry
\* (NotImplementedError), or a decode request without a handle (ValueError).
Refuse(h) ==
    /\ Arrives(prefill[h])
    /\ role = "decode"
    /\ prefill' = [prefill EXCEPT ![h] = "refused"]
    /\ UNCHANGED <<nixlVars, workerVars, request_count, decode>>

RefuseDecode(c) ==
    /\ Arrives(decode[c])
    /\ role = "prefill" \/ KvHandle[c] = None
    /\ decode' = [decode EXCEPT ![c] = "refused"]
    /\ UNCHANGED <<nixlVars, workerVars, request_count, prefill>>

\* int() raises on the TTL hint, after the request was counted.
PrefillBadTtl(h) ==
    /\ Arrives(prefill[h])
    /\ role = "prefill" /\ h \in BadTtl
    /\ Accept
    /\ prefill' = [prefill EXCEPT ![h] = "failed"]
    /\ UNCHANGED <<nixlVars, workerVars, decode>>

\* Up to the await in register_tensor, or through without an agent.
Prefill(h) ==
    /\ Arrives(prefill[h])
    /\ role = "prefill" /\ h \notin BadTtl
    /\ Nixl!RegisterTensor(h)
    /\ \/ /\ Nixl!HasAgent
          /\ Accept
          /\ prefill' = [prefill EXCEPT ![h] = "active"]
       \/ /\ ~Nixl!HasAgent
          /\ prefill' = [prefill EXCEPT ![h] = "returned"]
          /\ UNCHANGED request_count
    /\ UNCHANGED <<workerVars, decode>>

PrefillReturns(h) ==
    /\ Nixl!RegisterReturns(h)
    /\ Settle
    /\ prefill' = [prefill EXCEPT ![h] = "returned"]
    /\ UNCHANGED <<workerVars, decode>>

\* Mutant: the exception is swallowed and the descriptor returned.
PrefillSwallows(h) ==
    /\ Nixl!RegisterRaises(h)
    /\ Settle
    /\ prefill' = [prefill EXCEPT ![h] = "returned"]
    /\ UNCHANGED <<workerVars, decode>>

\* The exception skips the decrement.
PrefillRaises(h) ==
    /\ Nixl!RegisterRaises(h)
    /\ prefill' = [prefill EXCEPT ![h] = "failed"]
    /\ UNCHANGED <<workerVars, request_count, decode>>

\* KeyError: the handle is not in this worker's own manager.
DecodeUnknown(c) ==
    /\ Arrives(decode[c])
    /\ role = "decode" /\ KvHandle[c] # None
    /\ KvHandle[c] \notin descriptors
    /\ Accept
    /\ decode' = [decode EXCEPT ![c] = "failed"]
    /\ UNCHANGED <<nixlVars, workerVars, prefill>>

\* Mutant: any handle will do.
DecodeAnyHandle(c) ==
    /\ Arrives(decode[c])
    /\ role = "decode" /\ KvHandle[c] # None
    /\ \/ (Nixl!TransferAtOnce(c) /\ Nixl!HasAgent) \/ Nixl!TransferWaits(c)
    /\ Accept
    /\ decode' = [decode EXCEPT ![c] = "active"]
    /\ UNCHANGED <<workerVars, prefill>>

\* Up to the await of the semaphore or of the copy, or through without an
\* agent.
Decode(c) ==
    /\ Arrives(decode[c])
    /\ role = "decode" /\ KvHandle[c] \in descriptors
    /\ \/ /\ (Nixl!TransferAtOnce(c) /\ Nixl!HasAgent) \/ Nixl!TransferWaits(c)
          /\ Accept
          /\ decode' = [decode EXCEPT ![c] = "active"]
       \/ /\ Nixl!TransferAtOnce(c) /\ ~Nixl!HasAgent
          /\ decode' = [decode EXCEPT ![c] = "returned"]
          /\ UNCHANGED request_count
    /\ UNCHANGED <<workerVars, prefill>>

DecodeResumes(c) ==
    /\ Nixl!Resume(c)
    /\ \/ /\ Nixl!HasAgent
          /\ UNCHANGED <<request_count, decode>>
       \/ /\ ~Nixl!HasAgent
          /\ Settle
          /\ decode' = [decode EXCEPT ![c] = "returned"]
    /\ UNCHANGED <<workerVars, prefill>>

DecodeReturns(c) ==
    /\ Nixl!TransferReturns(c)
    /\ Settle
    /\ decode' = [decode EXCEPT ![c] = "returned"]
    /\ UNCHANGED <<workerVars, prefill>>

\* Mutant: the agent's exception is swallowed, the await never ends.
DecodeHangs(c) ==
    /\ Nixl!TransferRaises(c)
    /\ UNCHANGED <<workerVars, jobVars>>

DecodeRaises(c) ==
    /\ Nixl!TransferRaises(c)
    /\ decode' = [decode EXCEPT ![c] = "failed"]
    /\ UNCHANGED <<workerVars, request_count, prefill>>

\* Mutant: the one path with a finally clause.
CancelSettles(c) ==
    /\ Nixl!CancelWaiting(c)
    /\ Settle
    /\ decode' = [decode EXCEPT ![c] = "failed"]
    /\ UNCHANGED <<workerVars, prefill>>

DecodeCancelled(c) ==
    /\ Nixl!CancelWaiting(c)
    /\ decode' = [decode EXCEPT ![c] = "failed"]
    /\ UNCHANGED <<workerVars, request_count, prefill>>

\* External: "the prefill worker serialises the full descriptor and sends it
\* via the Dynamo message bus" (in production, says the comment).
BusDelivers(h) ==
    /\ role = "decode"
    /\ h \in Bus \ descriptors
    /\ descriptors' = descriptors \union {h}
    /\ UNCHANGED <<nixl_available, lifecycle, registration, regions, warned,
                   call, queue, permits, stats, expired, registered_times,
                   workerVars, jobVars>>

------------------------------------------------------------------------------
Next ==
    \/ Start \/ AgentInitialised \/ Stop \/ AgentClosed
    \/ \E h \in Handles :
           \/ Refuse(h) \/ PrefillBadTtl(h)
           \/ Prefill(h) \/ PrefillReturns(h) \/ PrefillRaises(h)
           \/ BusDelivers(h)
    \/ \E c \in Calls :
           \/ RefuseDecode(c) \/ DecodeUnknown(c)
           \/ Decode(c) \/ DecodeResumes(c) \/ DecodeReturns(c)
           \/ DecodeRaises(c) \/ DecodeCancelled(c)

\* As in NixlTransfer: the event loop and the agent make progress.
Fairness ==
    /\ WF_vars(AgentInitialised) /\ WF_vars(AgentClosed)
    /\ \A h \in Handles : WF_vars(PrefillReturns(h) \/ PrefillRaises(h))
    /\ \A c \in Calls : /\ WF_vars(DecodeResumes(c))
                        /\ WF_vars(DecodeReturns(c) \/ DecodeRaises(c))

Spec == Init /\ [][Next]_vars /\ Fairness

------------------------------------------------------------------------------
JobState == {"new", "active", "returned", "refused", "failed"}

TypeOK ==
    /\ Nixl!TypeOK
    /\ role \in {"prefill", "decode"}
    /\ has_registry \in BOOLEAN /\ registered \in BOOLEAN /\ running \in BOOLEAN
    /\ request_count \in Nat
    /\ prefill \in [Handles -> JobState]
    /\ decode \in [Calls -> JobState]

JobsIn(states) ==
    Cardinality({h \in Handles : prefill[h] \in states})
    + Cardinality({c \in Calls : decode[c] \in states})

(* The router can only choose a worker whose NIXL agent is initialised and  *)
(* not yet closing: registration is after the first and deregistration      *)
(* before the second, in stub mode too.                                     *)
RegisteredMeansReady ==
    registered => has_registry /\ running /\ lifecycle = "started"

(* What _request_count counts: the requests in progress and every request   *)
(* that failed after it was counted (bad TTL hint, unknown handle, agent    *)
(* error, cancellation).                                                    *)
CountAccounts == request_count = JobsIn({"active", "failed"})

(* load is "based on active requests".                                      *)
LoadIsActiveRequests == request_count = JobsIn({"active"})

(* A descriptor returned to the router stays good: it is in the manager's   *)
(* table, and its tensor registered for RDMA as long as the worker runs     *)
(* with an agent.                                                           *)
ReturnedHandleIsGood ==
    \A h \in Handles :
        prefill[h] = "returned" =>
            /\ h \in descriptors
            /\ nixl_available /\ lifecycle = "started" => h \in regions

(* A decode worker has only its own manager to look a handle up in: it      *)
(* returns a transcript only for a handle some message bus delivered, none  *)
(* of which this repository has.                                            *)
TranscriptNeedsBus ==
    \A c \in Calls : decode[c] \in {"active", "returned"} =>
        role = "decode" /\ KvHandle[c] \in Bus

(* Every request that is accepted ends, in a result or an exception.        *)
RequestEnds ==
    /\ \A h \in Handles : prefill[h] = "active" ~> prefill[h] # "active"
    /\ \A c \in Calls : decode[c] = "active" ~> decode[c] # "active"
==============================================================================
