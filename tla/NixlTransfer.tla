---------------------------- MODULE NixlTransfer ----------------------------
(***************************************************************************)
(* dynamo-orchestration/src/nixl_rdma.py: the NixlTransferManager, with its *)
(* table of KV-cache descriptors, the semaphore that bounds concurrent      *)
(* RDMA transfers and its statistics, and run_ttl_eviction_loop.            *)
(*                                                                         *)
(* The manager lives on one asyncio event loop; its calls into the NIXL     *)
(* agent run in threads (asyncio.to_thread), which is where they await.     *)
(* The agent is external: a call to it may return or raise.  Time is        *)
(* abstracted to the moment a descriptor's TTL elapses.                     *)
(***************************************************************************)
EXTENDS Integers, Sequences, FiniteSets, SequencesExt

CONSTANTS
    Handles,        \* one per register_tensor call: the uuid it creates
    Calls,          \* calls of transfer
    MaxConcurrent   \* max_concurrent, the semaphore's initial value

ASSUME NixlAssumption ==
    IsFiniteSet(Handles) /\ IsFiniteSet(Calls) /\ MaxConcurrent \in Nat \ {0}

VARIABLES
    nixl_available,   \* _NIXL_AVAILABLE: FALSE is stub mode
    lifecycle,        \* how far start and stop have come
    descriptors,      \* _descriptors
    registration,     \* where each register_tensor call is
    regions,          \* external: memory registered with the agent
    warned,           \* handles whose deregistration failed (a logged warning)
    call,             \* where each transfer call is
    queue,            \* the semaphore's waiters, first come first served
    permits,          \* the semaphore's value
    stats,            \* TransferStats
    expired,          \* handles whose TTL has elapsed
    registered_times  \* run_ttl_eviction_loop's dict, by its keys

tableVars == <<descriptors, registration, regions, warned>>
transferVars == <<call, queue, permits, stats>>
ttlVars == <<expired, registered_times>>
vars == <<nixl_available, lifecycle, tableVars, transferVars, ttlVars>>

Init ==
    /\ nixl_available \in BOOLEAN
    /\ lifecycle = "new"
    /\ descriptors = {}
    /\ registration = [h \in Handles |-> "none"]
    /\ regions = {}
    /\ warned = {}
    /\ call = [c \in Calls |-> "idle"]
    /\ queue = <<>>
    /\ permits = MaxConcurrent
    /\ stats = [initiated |-> 0, completed |-> 0]
    /\ expired = {}
    /\ registered_times = {}

\* self._nixl_agent is not None: from before its init until after its close.
HasAgent == nixl_available /\ lifecycle \in {"starting", "started", "stopping"}

------------------------------------------------------------------------------
(* start and stop *)

Start ==
    /\ lifecycle = "new"
    /\ lifecycle' = IF nixl_available THEN "starting" ELSE "started"
    /\ UNCHANGED <<nixl_available, tableVars, transferVars, ttlVars>>

AgentInitialised ==
    /\ lifecycle = "starting"
    /\ lifecycle' = "started"
    /\ UNCHANGED <<nixl_available, tableVars, transferVars, ttlVars>>

Stop ==
    /\ lifecycle = "started"
    /\ lifecycle' = IF nixl_available THEN "stopping" ELSE "stopped"
    /\ UNCHANGED <<nixl_available, tableVars, transferVars, ttlVars>>

\* Closing the agent releases what was registered with it.  Nobody waits for
\* the transfers and registrations in progress.
AgentClosed ==
    /\ lifecycle = "stopping"
    /\ lifecycle' = "stopped"
    /\ regions' = {}
    /\ UNCHANGED <<nixl_available, descriptors, registration, warned,
                   transferVars, ttlVars>>

\* start() is awaited before the manager is used; it may be used during and
\* after stop().
Usable == lifecycle \in {"started", "stopping", "stopped"}

------------------------------------------------------------------------------
(* register_tensor and evict *)

\* The descriptor is in the table before the agent is asked.
RegisterTensor(h) ==
    /\ Usable
    /\ registration[h] = "none"
    /\ descriptors' = descriptors \union {h}
    /\ registration' = [registration EXCEPT ![h] = IF HasAgent THEN "registering"
                                                               ELSE "registered"]
    /\ UNCHANGED <<nixl_available, lifecycle, regions, warned, transferVars, ttlVars>>

RegisterReturns(h) ==
    /\ registration[h] = "registering"
    /\ registration' = [registration EXCEPT ![h] = "registered"]
    /\ regions' = IF HasAgent THEN regions \union {h} ELSE regions
    /\ UNCHANGED <<nixl_available, lifecycle, descriptors, warned, transferVars, ttlVars>>

\* The agent refuses: the exception leaves the descriptor in the table.
RegisterRaises(h) ==
    /\ registration[h] = "registering"
    /\ registration' = [registration EXCEPT ![h] = "raised"]
    /\ UNCHANGED <<nixl_available, lifecycle, descriptors, regions, warned,
                   transferVars, ttlVars>>

\* Mutant: the descriptor goes, the registration with the agent stays.
EvictOnlyDescriptors(handles) ==
    /\ descriptors' = descriptors \ handles
    /\ UNCHANGED <<regions, warned>>

\* evict for each of a set of handles.  A deregistration that raises is logged
\* and the region stays.  Handles that are not in the table are ignored.
EvictAll(handles) ==
    /\ descriptors' = descriptors \ handles
    /\ \E failed \in SUBSET (IF HasAgent THEN handles \intersect descriptors ELSE {}) :
           /\ warned' = warned \union failed
           /\ regions' = IF HasAgent THEN regions \ ((handles \intersect descriptors) \ failed)
                                     ELSE regions

\* The holder of a descriptor evicts it.
Evict(h) ==
    /\ registration[h] = "registered"
    /\ EvictAll({h})
    /\ UNCHANGED <<nixl_available, lifecycle, registration, transferVars, ttlVars>>

------------------------------------------------------------------------------
(* transfer *)

\* External (asyncio.Semaphore): c goes to state s, and up to k of the longest
\* waiting calls are woken with one of the p free permits each.
HandOver(c, s, k, p) ==
    LET n == Min({k, p, Len(queue)})
    IN  /\ call' = [d \in Calls |-> CASE d = c -> s
                                      [] d \in ToSet(SubSeq(queue, 1, n)) -> "woken"
                                      [] OTHER -> call[d]]
        /\ queue' = SubSeq(queue, n + 1, Len(queue))
        /\ permits' = p - n

\* A call with a permit leaves the semaphore.
Leave(c, s) == HandOver(c, s, 1, permits + 1)

\* The semaphore is not locked(): a free permit, and nobody waiting for one.
Unlocked == permits > 0 /\ queue = <<>> /\ \A c \in Calls : call[c] # "woken"

\* The body of transfer with a free permit: with an agent, up to its copy;
\* without one it runs to its end, and the permit is back at once.
TransferAtOnce(c) ==
    /\ Usable
    /\ call[c] = "idle"
    /\ Unlocked
    /\ \/ /\ HasAgent
          /\ call' = [call EXCEPT ![c] = "copying"]
          /\ permits' = permits - 1
          /\ stats' = [stats EXCEPT !.initiated = @ + 1]
       \/ /\ ~HasAgent
          /\ call' = [call EXCEPT ![c] = "placeholder"]
          /\ stats' = [initiated |-> stats.initiated + 1, completed |-> stats.completed + 1]
          /\ UNCHANGED permits
    /\ UNCHANGED <<nixl_available, lifecycle, tableVars, queue, ttlVars>>

TransferWaits(c) ==
    /\ Usable
    /\ call[c] = "idle"
    /\ ~Unlocked
    /\ call' = [call EXCEPT ![c] = "waiting"]
    /\ queue' = Append(queue, c)
    /\ UNCHANGED <<nixl_available, lifecycle, tableVars, permits, stats, ttlVars>>

\* Mutant: a resuming call does not wake the next one.
ResumeAlone(c) ==
    /\ call[c] = "woken"
    /\ \/ /\ HasAgent
          /\ HandOver(c, "copying", 0, permits)
          /\ stats' = [stats EXCEPT !.initiated = @ + 1]
       \/ /\ ~HasAgent
          /\ HandOver(c, "placeholder", 1, permits + 1)
          /\ stats' = [initiated |-> stats.initiated + 1, completed |-> stats.completed + 1]
    /\ UNCHANGED <<nixl_available, lifecycle, tableVars, ttlVars>>

\* A call that was handed a permit resumes: it wakes the next one if another
\* permit is free, and only now looks at the agent.  Without one it goes on
\* to its end and leaves.
Resume(c) ==
    /\ call[c] = "woken"
    /\ \/ /\ HasAgent
          /\ HandOver(c, "copying", 1, permits)
          /\ stats' = [stats EXCEPT !.initiated = @ + 1]
       \/ /\ ~HasAgent
          /\ HandOver(c, "placeholder", 2, permits + 1)
          /\ stats' = [initiated |-> stats.initiated + 1, completed |-> stats.completed + 1]
    /\ UNCHANGED <<nixl_available, lifecycle, tableVars, ttlVars>>

TransferReturns(c) ==
    /\ call[c] = "copying"
    /\ Leave(c, "copied")
    /\ stats' = [stats EXCEPT !.completed = @ + 1]
    /\ UNCHANGED <<nixl_available, lifecycle, tableVars, ttlVars>>

\* Mutants: the error path keeps the permit; counts a completion.
RaiseKeepsPermit(c) ==
    /\ call[c] = "copying"
    /\ HandOver(c, "raised", 0, permits)
    /\ UNCHANGED <<nixl_available, lifecycle, tableVars, stats, ttlVars>>
RaiseCompletes(c) ==
    /\ call[c] = "copying"
    /\ Leave(c, "raised")
    /\ stats' = [stats EXCEPT !.completed = @ + 1]
    /\ UNCHANGED <<nixl_available, lifecycle, tableVars, ttlVars>>

\* The copy fails, or the call is cancelled while it awaits the copy (whose
\* thread goes on, unseen by the manager).
TransferRaises(c) ==
    /\ call[c] = "copying"
    /\ Leave(c, "raised")
    /\ UNCHANGED <<nixl_available, lifecycle, tableVars, stats, ttlVars>>

\* The call is cancelled while it awaits the semaphore; a permit it was
\* already handed goes to the next.
CancelWaiting(c) ==
    /\ \/ /\ call[c] = "waiting"
          /\ call' = [call EXCEPT ![c] = "cancelled"]
          /\ \E i \in DOMAIN queue : queue[i] = c /\ queue' = RemoveAt(queue, i)
          /\ UNCHANGED permits
       \/ call[c] = "woken" /\ Leave(c, "cancelled")
    /\ UNCHANGED <<nixl_available, lifecycle, tableVars, stats, ttlVars>>

------------------------------------------------------------------------------
(* run_ttl_eviction_loop *)

TtlElapses(h) ==
    /\ h \in descriptors \ expired
    /\ expired' = expired \union {h}
    /\ UNCHANGED <<nixl_available, lifecycle, tableVars, transferVars, registered_times>>

\* Only handles with a registration time are considered, and no code adds one.
ToEvict == {h \in descriptors : h \in registered_times /\ h \in expired}

EvictionPass ==
    /\ Usable
    /\ EvictAll(ToEvict)
    /\ registered_times' = registered_times \ ToEvict
    /\ UNCHANGED <<nixl_available, lifecycle, registration, transferVars, expired>>

------------------------------------------------------------------------------
\* A transfer needs a descriptor that register_tensor returned.
HoldsDescriptor == \E h \in Handles : registration[h] = "registered"

Next ==
    \/ Start \/ AgentInitialised \/ Stop \/ AgentClosed
    \/ \E h \in Handles :
           \/ RegisterTensor(h) \/ RegisterReturns(h) \/ RegisterRaises(h)
           \/ Evict(h)
           \/ TtlElapses(h)
    \/ \E c \in Calls :
           \/ HoldsDescriptor /\ TransferAtOnce(c)
           \/ HoldsDescriptor /\ TransferWaits(c)
           \/ Resume(c)
           \/ TransferReturns(c) \/ TransferRaises(c)
           \/ CancelWaiting(c)
    \/ EvictionPass

\* The event loop resumes a coroutine whose await is over, the agent answers,
\* and the eviction loop keeps running.  Cancellation is not assumed.
Fairness ==
    /\ WF_vars(AgentInitialised) /\ WF_vars(AgentClosed) /\ WF_vars(EvictionPass)
    /\ \A h \in Handles : WF_vars(RegisterReturns(h) \/ RegisterRaises(h))
    /\ \A c \in Calls : /\ WF_vars(Resume(c))
                        /\ WF_vars(TransferReturns(c) \/ TransferRaises(c))

Spec == Init /\ [][Next]_vars /\ Fairness

------------------------------------------------------------------------------
TransferState == {"idle", "waiting", "woken", "copying",
                  "copied", "placeholder", "raised", "cancelled"}

TypeOK ==
    /\ nixl_available \in BOOLEAN
    /\ lifecycle \in {"new", "starting", "started", "stopping", "stopped"}
    /\ descriptors \subseteq Handles /\ regions \subseteq Handles /\ warned \subseteq Handles
    /\ registration \in [Handles -> {"none", "registering", "registered", "raised"}]
    /\ call \in [Calls -> TransferState]
    /\ queue \in Seq(Calls)
    /\ permits \in 0..MaxConcurrent
    /\ stats \in [initiated : Nat, completed : Nat]
    /\ expired \subseteq Handles /\ registered_times \subseteq Handles

In(state) == {c \in Calls : call[c] = state}

(* The semaphore loses and invents no permit on any path out of transfer    *)
(* (return, exception, cancellation before or after the permit was handed   *)
(* over, agent gone meanwhile): free permits and holders add up, the queue  *)
(* holds exactly the waiting calls, and none waits while a permit is free   *)
(* unless a call about to resume will wake it.                              *)
PermitsConserved ==
    /\ permits + Cardinality(In("woken") \union In("copying")) = MaxConcurrent
    /\ Cardinality(In("waiting")) = Len(queue)
    /\ \A c \in In("waiting") : \E i \in DOMAIN queue : queue[i] = c
    /\ queue # <<>> /\ permits > 0 => In("woken") # {}

(* TransferStats: initiated minus completed is what is being copied or has  *)
(* failed; a call that never got a permit is not counted.                   *)
StatsAccount ==
    /\ stats.completed = Cardinality(In("copied") \union In("placeholder"))
    /\ stats.initiated = stats.completed + Cardinality(In("copying") \union In("raised"))

(* Registered memory is never orphaned: what the agent holds has a          *)
(* descriptor that evict can find, unless a deregistration was logged as    *)
(* failed; and while the manager runs, a descriptor that register_tensor    *)
(* returned is backed by registered memory until it is evicted.             *)
RegionsTracked ==
    /\ regions \subseteq descriptors \union warned
    /\ nixl_available /\ lifecycle = "started" =>
          {h \in descriptors : registration[h] = "registered"} \subseteq regions

(* Every transfer ends, in a result or an exception, whatever fails, is     *)
(* cancelled or is shut down around it.                                     *)
TransferEnds ==
    \A c \in Calls : call[c] \in {"waiting", "woken", "copying"} ~>
                     call[c] \in {"copied", "placeholder", "raised", "cancelled"}

(* run_ttl_eviction_loop: "Periodically evict KV-cache descriptors whose    *)
(* TTL has expired."                                                        *)
ExpiredIsEvicted == \A h \in Handles : h \in expired ~> h \notin descriptors
==============================================================================
