----------------------------- MODULE SmartRouter -----------------------------
(***************************************************************************)
(* dynamo-orchestration/src/router.py: the WorkerRegistry, the SmartRouter *)
(* that takes a request through a prefill and a decode worker, and its     *)
(* RouterStats.                                                            *)
(*                                                                         *)
(* route() runs on one asyncio event loop: what happens between two awaits *)
(* is one action.  A call has two awaits, the prefill RPC and the decode   *)
(* RPC, so it is at pc "prefill" or "decode" while other calls, and the    *)
(* workers that register, leave, report their load or are marked           *)
(* unhealthy, take their steps.  The RPCs are stubs in the code; only      *)
(* their answer is modelled.                                               *)
(***************************************************************************)
EXTENDS Integers, Sequences, FiniteSets, SequencesExt

CONSTANTS
    Workers,      \* worker ids
    RoleOf,       \* the role each worker is configured with
    LoadLevels,   \* the loads (in percent) each worker may report
    Requests,     \* ASRRequest objects
    RequestId,    \* their request_id: two objects may carry the same one
    Priority,     \* their "priority" hint
    NotAnInt,     \* a hint int() raises on
    None,         \* Python's None
    MaxAttempts   \* bound: how often a caller routes each object

RequestPhase == {"prefill", "decode"}

ASSUME WorkersAssumption == RoleOf \in [Workers -> RequestPhase]
ASSUME LoadAssumption == LoadLevels \in [Workers -> SUBSET (0..100)]
ASSUME PriorityAssumption == Priority \in [Requests -> (0..9) \union {NotAnInt}]
ASSUME RequestAssumption ==
    IsFiniteSet(Requests) /\ MaxAttempts \in [Requests -> Nat]

Ids == {RequestId[r] : r \in Requests}

\* The handle string kv://<worker_id>/<request_id>.
Handles == [worker : Workers, request : Ids]

ASSUME NoneAssumption == None \notin Handles \union Workers

Endpoint == [worker_id : Workers, role : RequestPhase,
             load : 0..100, healthy : BOOLEAN]

VARIABLES
    workers,      \* WorkerRegistry._workers: a dict is a sequence with unique ids
    in_flight,    \* SmartRouter._in_flight: request_id -> request
    pc,           \* where the latest route() call for each object is
    chosen,       \* the worker the call's current RPC was sent to
    phase,        \* ASRRequest.phase
    kv_handle,    \* ASRRequest.kv_handle
    attempts,     \* how often each object has been passed to route()
    stats         \* RouterStats, the latency lists by their lengths

vars == <<workers, in_flight, pc, chosen, phase, kv_handle, attempts, stats>>
requestVars == <<in_flight, pc, chosen, phase, kv_handle, attempts, stats>>

Init ==
    /\ workers = <<>>
    /\ in_flight = [i \in {} |-> None]
    /\ pc = [r \in Requests |-> "idle"]
    /\ chosen = [r \in Requests |-> None]
    /\ phase = [r \in Requests |-> "prefill"]
    /\ kv_handle = [r \in Requests |-> None]
    /\ attempts = [r \in Requests |-> 0]
    /\ stats = [completed |-> 0, prefills |-> 0, decodes |-> 0]

------------------------------------------------------------------------------
(* WorkerRegistry *)

Position(w) == {i \in DOMAIN workers : workers[i].worker_id = w}

\* Mutant: a list instead of a dict.
RegisterAppends(w) ==
    /\ workers' = Append(workers, [worker_id |-> w, role |-> RoleOf[w],
                                   load |-> 0, healthy |-> TRUE])
    /\ UNCHANGED requestVars

\* A dict keeps the position of a key that is assigned again.
Register(w) ==
    LET fresh == [worker_id |-> w, role |-> RoleOf[w], load |-> 0, healthy |-> TRUE]
    IN  /\ \/ /\ Position(w) = {}
              /\ workers' = Append(workers, fresh)
           \/ \E i \in Position(w) : workers' = [workers EXCEPT ![i] = fresh]
        /\ UNCHANGED requestVars

Deregister(w) ==
    /\ \E i \in Position(w) : workers' = RemoveAt(workers, i)
    /\ UNCHANGED requestVars

\* Mutant: the reported load is added to the old one.
UpdateLoadAdds(w, load) ==
    /\ \E i \in Position(w) : workers' = [workers EXCEPT ![i].load = @ + load]
    /\ UNCHANGED requestVars

UpdateLoad(w, load) ==
    /\ \E i \in Position(w) : workers' = [workers EXCEPT ![i].load = load]
    /\ UNCHANGED requestVars

MarkUnhealthy(w) ==
    /\ \E i \in Position(w) : workers' = [workers EXCEPT ![i].healthy = FALSE]
    /\ UNCHANGED requestVars

\* Mutants: the role, or the health, is not looked at.
CandidatesOfAnyRole(role) == {i \in DOMAIN workers : workers[i].healthy}
CandidatesOfAnyHealth(role) == {i \in DOMAIN workers : workers[i].role = role}

Candidates(role) == {i \in DOMAIN workers : workers[i].role = role /\ workers[i].healthy}

\* min() returns the first of the smallest: at most one position, none if
\* there is no candidate.
LeastLoaded(role) ==
    {i \in Candidates(role) :
        \A j \in Candidates(role) :
            \/ workers[i].load < workers[j].load
            \/ workers[i].load = workers[j].load /\ i <= j}

------------------------------------------------------------------------------
(* SmartRouter *)

\* The priority hint only changes what is logged: the candidate is returned
\* whatever its load.  A hint that is not a number makes int() raise.
SelectWorker(role, r) == IF Priority[r] = NotAnInt THEN {} ELSE LeastLoaded(role)

\* Mutant: _in_flight.clear() instead of pop.
PopClears(id) == [i \in {} |-> in_flight[i]]

Pop(id) == [i \in DOMAIN in_flight \ {id} |-> in_flight[i]]

\* The finally clause of route().
Return(r, outcome) ==
    /\ in_flight' = Pop(RequestId[r])
    /\ pc' = [pc EXCEPT ![r] = outcome]
    /\ chosen' = [chosen EXCEPT ![r] = None]

Callable(r) == pc[r] \in {"idle", "failed"} /\ attempts[r] < MaxAttempts[r]

\* route() up to the await of the prefill RPC.  The object keeps the phase
\* and kv_handle an earlier attempt left in it.
RouteToPrefill(r) ==
    /\ Callable(r)
    /\ \E i \in SelectWorker("prefill", r) :
           chosen' = [chosen EXCEPT ![r] = workers[i].worker_id]
    /\ in_flight' = [i \in DOMAIN in_flight \union {RequestId[r]} |->
                        IF i = RequestId[r] THEN r ELSE in_flight[i]]
    /\ pc' = [pc EXCEPT ![r] = "prefill"]
    /\ attempts' = [attempts EXCEPT ![r] = @ + 1]
    /\ UNCHANGED <<workers, phase, kv_handle, stats>>

\* "No healthy prefill workers available", or a hint that is not a number:
\* the exception runs the finally clause before anything was awaited.
RouteRaises(r) ==
    /\ Callable(r)
    /\ SelectWorker("prefill", r) = {}
    /\ Return(r, "failed")
    /\ attempts' = [attempts EXCEPT ![r] = @ + 1]
    /\ UNCHANGED <<workers, phase, kv_handle, stats>>

\* Mutant: the call waits for a decode worker instead of raising.
PrefillReturnsWaits(r) ==
    /\ pc[r] = "prefill"
    /\ \E i \in SelectWorker("decode", r) :
           chosen' = [chosen EXCEPT ![r] = workers[i].worker_id]
    /\ phase' = [phase EXCEPT ![r] = "decode"]
    /\ kv_handle' = [kv_handle EXCEPT ![r] =
                        [worker |-> chosen[r], request |-> RequestId[r]]]
    /\ stats' = [stats EXCEPT !.prefills = @ + 1]
    /\ pc' = [pc EXCEPT ![r] = "decode"]
    /\ UNCHANGED <<workers, in_flight, attempts>>

\* The prefill RPC answers; the decode worker is selected in the registry as
\* it is now, and the decode RPC is sent unless there is none.
PrefillReturns(r) ==
    /\ pc[r] = "prefill"
    /\ phase' = [phase EXCEPT ![r] = "decode"]
    /\ kv_handle' = [kv_handle EXCEPT ![r] =
                        [worker |-> chosen[r], request |-> RequestId[r]]]
    /\ stats' = [stats EXCEPT !.prefills = @ + 1]
    /\ \/ /\ \E i \in SelectWorker("decode", r) :
                 chosen' = [chosen EXCEPT ![r] = workers[i].worker_id]
          /\ pc' = [pc EXCEPT ![r] = "decode"]
          /\ UNCHANGED in_flight
       \/ /\ SelectWorker("decode", r) = {}
          /\ Return(r, "failed")
    /\ UNCHANGED <<workers, attempts>>

DecodeReturns(r) ==
    /\ pc[r] = "decode"
    /\ stats' = [stats EXCEPT !.decodes = @ + 1, !.completed = @ + 1]
    /\ Return(r, "done")
    /\ UNCHANGED <<workers, phase, kv_handle, attempts>>

\* Mutants: no finally clause; stats recorded in the finally clause; the
\* cancellation swallowed, so that the caller gets an answer.
CancelLeaks(r) ==
    /\ pc[r] \in {"prefill", "decode"}
    /\ pc' = [pc EXCEPT ![r] = "failed"]
    /\ UNCHANGED <<workers, in_flight, chosen, phase, kv_handle, attempts, stats>>
CancelCounts(r) ==
    /\ pc[r] \in {"prefill", "decode"}
    /\ stats' = [stats EXCEPT !.completed = @ + 1]
    /\ Return(r, "failed")
    /\ UNCHANGED <<workers, phase, kv_handle, attempts>>
CancelAnswers(r) ==
    /\ pc[r] \in {"prefill", "decode"}
    /\ Return(r, "done")
    /\ UNCHANGED <<workers, phase, kv_handle, attempts, stats>>

\* The caller cancels route() (a timeout, a closed connection) at an await.
Cancel(r) ==
    /\ pc[r] \in {"prefill", "decode"}
    /\ Return(r, "failed")
    /\ UNCHANGED <<workers, phase, kv_handle, attempts, stats>>

------------------------------------------------------------------------------
Next ==
    \/ \E w \in Workers :
           \/ Register(w)
           \/ Deregister(w)
           \/ MarkUnhealthy(w)
           \/ \E l \in LoadLevels[w] : UpdateLoad(w, l)
    \/ \E r \in Requests :
           \/ RouteToPrefill(r)
           \/ RouteRaises(r)
           \/ PrefillReturns(r)
           \/ DecodeReturns(r)
           \/ Cancel(r)

\* The event loop resumes a coroutine whose await is over: an RPC answers.
Fairness ==
    \A r \in Requests : WF_vars(PrefillReturns(r)) /\ WF_vars(DecodeReturns(r))

Spec == Init /\ [][Next]_vars /\ Fairness

------------------------------------------------------------------------------
Running(r) == pc[r] \in {"prefill", "decode"}

Stats == [completed : Nat, prefills : Nat, decodes : Nat]

RequestTypes ==
    /\ DOMAIN in_flight \subseteq Ids
    /\ in_flight \in [DOMAIN in_flight -> Requests]
    /\ pc \in [Requests -> {"idle", "prefill", "decode", "done", "failed"}]
    /\ chosen \in [Requests -> Workers \union {None}]
    /\ phase \in [Requests -> RequestPhase]
    /\ kv_handle \in [Requests -> Handles \union {None}]
    /\ attempts \in [Requests -> Nat]
    /\ stats \in Stats

(* Every field of the registry, the request objects and the router holds   *)
(* what its annotation in router.py says.                                  *)
TypeOK == workers \in Seq(Endpoint) /\ RequestTypes

(* The in-flight table never outlives a call: whatever way route() ends    *)
(* (transcript, no worker, bad hint, cancellation) and however calls with  *)
(* the same request_id interleave, an entry names a call that is still     *)
(* running under that id (the try/finally of route()).                     *)
InFlightIsRunning ==
    \A i \in DOMAIN in_flight :
        /\ RequestId[in_flight[i]] = i
        /\ Running(in_flight[i])

(* A running call that the in-flight table does not show has been hidden   *)
(* by another object routed under the same request_id; with unique ids     *)
(* every running call is tracked.                                          *)
UntrackedOnlyOnClash ==
    \A r \in Requests :
        Running(r) =>
            \/ RequestId[r] \in DOMAIN in_flight /\ in_flight[RequestId[r]] = r
            \/ \E s \in Requests \ {r} : RequestId[s] = RequestId[r] /\ attempts[s] > 0

(* The registry is keyed by worker id: re-registration, departure and      *)
(* return of workers in any order leave one endpoint per worker.           *)
OneEndpointPerWorker ==
    \A i, j \in DOMAIN workers :
        workers[i].worker_id = workers[j].worker_id => i = j

(* A request that reaches decode carries the KV handle its own prefill     *)
(* left, from a prefill worker and for its own id, also when an earlier    *)
(* attempt of the same object failed half-way.                             *)
DecodesOwnHandle ==
    \A r \in Requests :
        pc[r] \in {"decode", "done"} =>
            /\ phase[r] = "decode"
            /\ kv_handle[r] # None
            /\ kv_handle[r].request = RequestId[r]
            /\ RoleOf[kv_handle[r].worker] = "prefill"

(* RouterStats adds up whatever fails or is cancelled: one completion and  *)
(* one decode latency per transcript returned, and every call that got to  *)
(* decode has recorded its prefill latency.                                *)
StatsAddUp ==
    /\ stats.completed = Cardinality({r \in Requests : pc[r] = "done"})
    /\ stats.decodes = stats.completed
    /\ stats.prefills >= stats.completed + Cardinality({r \in Requests : pc[r] = "decode"})

(* Every dispatch goes to a worker that is registered for the role,        *)
(* healthy, and the least loaded of those at that very moment; among equal *)
(* loads the one that registered first (the order of the dict).            *)
Dispatched(r, role) == pc[r] # role /\ pc'[r] = role

DispatchesToLeastLoaded ==
    [][\A r \in Requests, role \in RequestPhase :
          Dispatched(r, role) =>
              \E i \in DOMAIN workers :
                  /\ workers[i].worker_id = chosen'[r]
                  /\ workers[i].role = role /\ workers[i].healthy
                  /\ \A j \in DOMAIN workers :
                        /\ workers[j].role = role /\ workers[j].healthy
                        /\ workers[j].load <= workers[i].load
                        => /\ workers[j].load = workers[i].load
                           /\ i <= j
      ]_vars

(* Every call of route() returns or raises.                                *)
RouteReturns == \A r \in Requests : Running(r) ~> ~Running(r)

------------------------------------------------------------------------------
Stage(r) ==
    CASE pc[r] = "idle"    -> "outside"
      [] pc[r] = "prefill" -> "prefilling"
      [] pc[r] = "decode"  -> "decoding"
      [] pc[r] = "done"    -> "served"
      [] pc[r] = "failed"  -> "abandoned"

PDD == INSTANCE PDDPipeline WITH
          NoHandle <- None,
          stage <- [r \in Requests |-> Stage(r)],
          handle <- kv_handle,
          served <- stats.completed

(* The router implements the prefill-decode pipeline, liveness included.   *)
ImplementsPDD == PDD!PDDSpec
==============================================================================
