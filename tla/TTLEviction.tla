----------------------------- MODULE TTLEviction -----------------------------
(***************************************************************************)
(* agentic-factory/src/agent_hints.py: the TTLEvictionScheduler, "used by   *)
(* the Dynamo orchestration layer to call NixlTransferManager.evict",       *)
(* composed with that manager (NixlTransfer).                               *)
(*                                                                         *)
(* tick is plain code that run_loop calls on the manager's event loop, so   *)
(* no step of the manager comes between its steps; register is called by    *)
(* threads, which the scheduler's lock keeps apart from it.  Time is        *)
(* abstracted to the moment the deadline of a registration passes.          *)
(***************************************************************************)
EXTENDS NixlTransfer

CONSTANTS
    Registrations,   \* calls of register
    HandleOf,        \* the handle each one registers
    WiredCalls,      \* bound: the transfers explored together with the scheduler
    UnwiredHandles,  \* bound: the handles explored without it
    None

ASSUME SchedulerAssumption ==
    /\ HandleOf \in [Registrations -> Handles]
    /\ WiredCalls \subseteq Calls /\ UnwiredHandles \subseteq Handles
    /\ None \notin Registrations

VARIABLES
    wired,         \* the deployment uses the scheduler
    registering,   \* where each call of register is
    overdue,       \* the registrations whose deadline has passed
    entries,       \* _entries: the registration stored for each handle
    tick,          \* where run_loop is, the deadlines that had passed when tick
                   \* read the clock, and the handles it still has to evict
    before         \* history: the calls for its handle that had returned when
                   \* each one began

schedulerVars == <<registering, overdue, entries, tick, before>>
ttlEvictionVars == <<vars, wired, schedulerVars>>

TTLInit ==
    /\ Init
    /\ wired \in BOOLEAN
    /\ registering = [r \in Registrations |-> "none"]
    /\ overdue = {}
    /\ entries = [h \in Handles |-> None]
    /\ tick = [pc |-> "sleeping", passed |-> {}, expired |-> {}]
    /\ before = [r \in Registrations |-> {}]

------------------------------------------------------------------------------
(* register, by the holder of a descriptor *)

\* The deadline is computed before the lock is asked for.
RegisterBegins(r) ==
    /\ wired /\ registration[HandleOf[r]] = "registered"
    /\ registering[r] = "none"
    /\ registering' = [registering EXCEPT ![r] = "computed"]
    /\ before' = [before EXCEPT ![r] =
           {q \in Registrations : registering[q] = "stored" /\ HandleOf[q] = HandleOf[r]}]
    /\ UNCHANGED <<vars, wired, overdue, entries, tick>>

DeadlinePasses(r) ==
    /\ registering[r] # "none" /\ r \notin overdue
    /\ overdue' = overdue \union {r}
    /\ UNCHANGED <<vars, wired, registering, entries, tick, before>>

\* Mutant: the entry is stored without the lock.
StoreUnlocked(r) ==
    /\ registering[r] = "computed"
    /\ registering' = [registering EXCEPT ![r] = "stored"]
    /\ entries' = [entries EXCEPT ![HandleOf[r]] = r]
    /\ UNCHANGED <<vars, wired, overdue, tick, before>>

\* tick holds the lock from its list to its last callback.
RegisterStores(r) ==
    /\ registering[r] = "computed"
    /\ tick.pc # "evicting"
    /\ registering' = [registering EXCEPT ![r] = "stored"]
    /\ entries' = [entries EXCEPT ![HandleOf[r]] = r]
    /\ UNCHANGED <<vars, wired, overdue, tick, before>>

------------------------------------------------------------------------------
(* run_loop and tick *)

\* The interval is over; tick reads the clock before it takes the lock.
TickReadsClock ==
    /\ wired /\ tick.pc = "sleeping"
    /\ tick' = [tick EXCEPT !.pc = "locking", !.passed = overdue]
    /\ UNCHANGED <<vars, wired, registering, overdue, entries, before>>

Expired == {h \in Handles : entries[h] \in tick.passed}

\* The lock is taken and the expired handles are listed.
TickCollects ==
    /\ tick.pc = "locking"
    /\ tick' = [pc |-> IF Expired = {} THEN "sleeping" ELSE "evicting",
                passed |-> {}, expired |-> Expired]
    /\ UNCHANGED <<vars, wired, registering, overdue, entries, before>>

\* Mutant: all expired entries are dropped, the first callback alone is called.
DropAllEvictOne(h) ==
    /\ tick.pc = "evicting" /\ h \in tick.expired
    /\ entries' = [g \in Handles |-> IF g \in tick.expired THEN None ELSE entries[g]]
    /\ EvictAll({h})
    /\ tick' = [tick EXCEPT !.expired = {}, !.pc = "sleeping"]
    /\ UNCHANGED <<nixl_available, lifecycle, registration, transferVars, ttlVars,
                   wired, registering, overdue, before>>

\* Whatever entry the handle has now is popped, then its callback is called:
\* evict, which catches what the agent raises.
TickEvicts(h) ==
    /\ tick.pc = "evicting" /\ h \in tick.expired
    /\ entries' = [entries EXCEPT ![h] = None]
    /\ EvictAll({h})
    /\ tick' = [tick EXCEPT !.expired = @ \ {h},
                            !.pc = IF tick.expired = {h} THEN "sleeping" ELSE @]
    /\ UNCHANGED <<nixl_available, lifecycle, registration, transferVars, ttlVars,
                   wired, registering, overdue, before>>

------------------------------------------------------------------------------
\* The manager's own steps.  With the scheduler, only WiredCalls are made and
\* the clock of run_ttl_eviction_loop, which evicts nothing, is left out;
\* without it, only UnwiredHandles are registered.
ManagerStep ==
    /\ tick.pc = "sleeping"
    /\ Next
    /\ IF wired
           THEN expired' = expired /\ \A c \in Calls \ WiredCalls : call'[c] = "idle"
           ELSE \A h \in Handles \ UnwiredHandles : registration'[h] = "none"
    /\ UNCHANGED <<wired, schedulerVars>>

TTLNext ==
    \/ ManagerStep
    \/ \E r \in Registrations : RegisterBegins(r) \/ RegisterStores(r) \/ DeadlinePasses(r)
    \/ TickReadsClock \/ TickCollects
    \/ \E h \in Handles : TickEvicts(h)

\* run_loop never ends, time passes, and a thread gets the lock it waits for.
TTLFairness ==
    /\ Fairness
    /\ WF_ttlEvictionVars(TickReadsClock) /\ WF_ttlEvictionVars(TickCollects)
    /\ WF_ttlEvictionVars(\E h \in Handles : TickEvicts(h))
    /\ \A r \in Registrations : /\ WF_ttlEvictionVars(DeadlinePasses(r))
                                /\ SF_ttlEvictionVars(RegisterStores(r))

TTLSpec == TTLInit /\ [][TTLNext]_ttlEvictionVars /\ TTLFairness

------------------------------------------------------------------------------
(* A handle is evicted only when the deadline of the registration it is     *)
(* evicted for has passed, and never for a registration that a later call   *)
(* of register, begun after that one returned, has replaced: a renewal that *)
(* races with tick is evicted neither with its predecessor nor undone by it. *)
EvictsOnlyOverdue ==
    [][\A h \in Handles :
          entries[h] # None /\ entries'[h] = None =>
              /\ entries[h] \in overdue
              /\ \A r \in Registrations :
                     HandleOf[r] = h /\ registering[r] = "stored" => entries[h] \notin before[r]
      ]_ttlEvictionVars

(* A handle that was registered with the scheduler leaves the manager's     *)
(* table, whether or not the agent refuses to deregister its memory, and    *)
(* however often register and tick meet at the lock.                        *)
RegisteredHandleLeaves == \A h \in Handles : entries[h] # None ~> h \notin descriptors
==============================================================================
