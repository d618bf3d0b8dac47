----------------------------- MODULE PDDPipeline -----------------------------
(***************************************************************************)
(* What prefill-decode disaggregation promises the caller of               *)
(* SmartRouter.route, with no worker, registry or event loop in sight: a   *)
(* request is prefilled, then decoded from the KV cache that prefill left, *)
(* and is counted exactly when its transcript is returned.  An attempt may *)
(* be abandoned at any point, a caller may try again, and no attempt stays *)
(* inside the pipeline for ever.                                           *)
(***************************************************************************)
EXTENDS Naturals

CONSTANTS
    Requests,    \* the ASRRequest objects
    Handles,     \* the KV-cache handles a prefill can leave
    NoHandle     \* a request that was never prefilled, not one of Handles

VARIABLES
    stage,       \* where each request is
    handle,      \* the KV cache of its latest prefill
    served       \* transcripts returned so far

pddVars == <<stage, handle, served>>

PDDInit ==
    /\ stage = [r \in Requests |-> "outside"]
    /\ handle = [r \in Requests |-> NoHandle]
    /\ served = 0

Outside == {"outside", "abandoned"}

Admit(r) ==
    /\ stage[r] \in Outside
    /\ stage' = [stage EXCEPT ![r] = "prefilling"]
    /\ UNCHANGED <<handle, served>>

\* The prefill worker's answer arrives and decoding starts from its handle.
Prefilled(r) ==
    /\ stage[r] = "prefilling"
    /\ stage' = [stage EXCEPT ![r] = "decoding"]
    /\ \E h \in Handles : handle' = [handle EXCEPT ![r] = h]
    /\ UNCHANGED served

Serve(r) ==
    /\ stage[r] = "decoding"
    /\ handle[r] \in Handles
    /\ stage' = [stage EXCEPT ![r] = "served"]
    /\ served' = served + 1
    /\ UNCHANGED handle

\* An attempt is given up: before it starts, or with a prefill in progress
\* (which may or may not have left a handle), or while decoding.
Abandon(r) ==
    /\ stage[r] # "served"
    /\ stage' = [stage EXCEPT ![r] = "abandoned"]
    /\ \/ UNCHANGED handle
       \/ /\ stage[r] = "prefilling"
          /\ \E h \in Handles : handle' = [handle EXCEPT ![r] = h]
    /\ UNCHANGED served

Leave(r) == Prefilled(r) \/ Serve(r) \/ (stage[r] \notin Outside /\ Abandon(r))

PDDNext == \E r \in Requests : Admit(r) \/ Prefilled(r) \/ Serve(r) \/ Abandon(r)

PDDSafety == PDDInit /\ [][PDDNext]_pddVars

PDDSpec ==
    /\ PDDSafety
    /\ \A r \in Requests : WF_pddVars(Leave(r))
==============================================================================
