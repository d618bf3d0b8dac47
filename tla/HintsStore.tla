----------------------------- MODULE HintsStore -----------------------------
(***************************************************************************)
(* What AgentHintsManager promises its callers ("Thread-safe manager for    *)
(* Agent Hints", agentic-factory/src/agent_hints.py): the active profile    *)
(* and the bounded history of those it replaced are one atomic object.      *)
(* Every call takes effect once, at one moment between its start and its    *)
(* end, or raises and has no effect.                                        *)
(***************************************************************************)
EXTENDS Integers, Sequences

CONSTANTS
    Calls,       \* calls into the store, each made by a thread of its own
    Ops,         \* what a call may be: set_profile, set_hint or a read
    Profiles,    \* hint profiles, each a function from its keys to values
    Default,     \* the profile at the start
    Numeric,     \* the keys whose value set_hint converts with int()
    NotInt,      \* a value int() raises on
    None,
    HistoryCap   \* how many replaced profiles are kept (100 in the code)

VARIABLES
    op,        \* what each call is
    active,    \* the active profile
    history,   \* the profiles it replaced, the oldest first
    outcome,   \* how each call ended
    seen       \* what each read returned

vars == <<op, active, history, outcome, seen>>

Init ==
    /\ op \in [Calls -> Ops]
    /\ active = Default
    /\ history = <<>>
    /\ outcome = [c \in Calls |-> "pending"]
    /\ seen = [c \in Calls |-> None]

\* set_hint's int(value) raises.
Raises(o) == o.kind = "set_hint" /\ o.key \in Numeric /\ o.value = NotInt

\* The profile that replaces p.  set_hint ignores a key no profile has.
Replacement(o, p) ==
    IF o.kind = "set_profile" THEN o.profile
    ELSE IF o.key \in DOMAIN p THEN [p EXCEPT ![o.key] = o.value] ELSE p

\* The oldest profile goes when there are more than HistoryCap.
Trimmed(h) == IF Len(h) > HistoryCap THEN Tail(h) ELSE h

Write(c) ==
    /\ outcome[c] = "pending"
    /\ op[c].kind # "get" /\ ~Raises(op[c])
    /\ history' = Trimmed(Append(history, active))
    /\ active' = Replacement(op[c], active)
    /\ outcome' = [outcome EXCEPT ![c] = "done"]
    /\ UNCHANGED <<op, seen>>

Fail(c) ==
    /\ outcome[c] = "pending"
    /\ Raises(op[c])
    /\ outcome' = [outcome EXCEPT ![c] = "raised"]
    /\ UNCHANGED <<op, active, history, seen>>

Get(c) ==
    /\ outcome[c] = "pending"
    /\ op[c].kind = "get"
    /\ seen' = [seen EXCEPT ![c] = active]
    /\ outcome' = [outcome EXCEPT ![c] = "done"]
    /\ UNCHANGED <<op, active, history>>

Next == \E c \in Calls : Write(c) \/ Fail(c) \/ Get(c)

Spec == Init /\ [][Next]_vars
==============================================================================
