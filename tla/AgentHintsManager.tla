-------------------------- MODULE AgentHintsManager --------------------------
(***************************************************************************)
(* agentic-factory/src/agent_hints.py: AgentHintsManager, the active hint   *)
(* profile and its history behind a re-entrant lock, called by threads that *)
(* may be preempted between any two steps.  set_hint reads the active       *)
(* profile, patches a copy and calls set_profile, which takes the lock      *)
(* again.  Shown to implement the atomic HintsStore.                        *)
(***************************************************************************)
EXTENDS Integers, Sequences

CONSTANTS Calls, Ops, Profiles, Default, Numeric, NotInt, None, HistoryCap

ASSUME ManagerAssumption ==
    /\ HistoryCap \in Nat \ {0}
    /\ None \notin Calls
    /\ Default \in Profiles
    /\ \A o \in Ops :
          \/ o.kind = "get"
          \/ o.kind = "set_profile" /\ o.profile \in Profiles
          \/ /\ o.kind = "set_hint"
             /\ \/ o.key \in Numeric /\ o.value = NotInt
                \/ \A p \in Profiles :
                      (IF o.key \in DOMAIN p THEN [p EXCEPT ![o.key] = o.value] ELSE p)
                          \in Profiles

VARIABLES
    op,        \* what each call is
    active,    \* _active
    history,   \* _history
    lock,      \* _lock: the call whose thread owns it, or None
    depth,     \* _lock: how often its owner has acquired it
    pc,        \* where each call is
    updated,   \* the profile a call is about to make active
    seen       \* what a read returned

vars == <<op, active, history, lock, depth, pc, updated, seen>>

Init ==
    /\ op \in [Calls -> Ops]
    /\ active = Default
    /\ history = <<>>
    /\ lock = None
    /\ depth = 0
    /\ pc = [c \in Calls |-> "call"]
    /\ updated = [c \in Calls |-> None]
    /\ seen = [c \in Calls |-> None]

Raises(o) == o.kind = "set_hint" /\ o.key \in Numeric /\ o.value = NotInt

Patched(p, o) == IF o.key \in DOMAIN p THEN [p EXCEPT ![o.key] = o.value] ELSE p

GoTo(c, step) == pc' = [pc EXCEPT ![c] = step]

------------------------------------------------------------------------------
(* The lock *)

\* Where a call goes once it has the lock.
Body(c) == CASE op[c].kind = "get" -> "read"
             [] op[c].kind = "set_hint" /\ pc[c] = "call" -> "patch"
             [] OTHER -> "append"

\* Mutants: the lock is not re-entrant; set_hint reads before it locks.
AcquireOnce(c) ==
    /\ pc[c] \in {"call", "enter"}
    /\ lock = None
    /\ lock' = c
    /\ depth' = depth + 1
    /\ GoTo(c, Body(c))
    /\ updated' = IF op[c].kind = "set_profile" THEN [updated EXCEPT ![c] = op[c].profile]
                                                ELSE updated
    /\ UNCHANGED <<op, active, history, seen>>
ReadUnlocked(c) ==
    \/ /\ pc[c] = "call" /\ op[c].kind = "set_hint"
       /\ GoTo(c, "patch")
       /\ UNCHANGED <<op, active, history, lock, depth, updated, seen>>
    \/ /\ pc[c] = "enter" \/ (pc[c] = "call" /\ op[c].kind # "set_hint")
       /\ lock = None
       /\ lock' = c
       /\ depth' = depth + 1
       /\ GoTo(c, Body(c))
       /\ updated' = IF op[c].kind = "set_profile" THEN [updated EXCEPT ![c] = op[c].profile]
                                                   ELSE updated
       /\ UNCHANGED <<op, active, history, seen>>

\* A with block of the RLock is entered: by its first owner, or again by it.
Acquire(c) ==
    /\ pc[c] \in {"call", "enter"}
    /\ lock \in {None, c}
    /\ lock' = c
    /\ depth' = depth + 1
    /\ GoTo(c, Body(c))
    /\ updated' = IF op[c].kind = "set_profile" THEN [updated EXCEPT ![c] = op[c].profile]
                                                ELSE updated
    /\ UNCHANGED <<op, active, history, seen>>

\* A with block is left; the call returns from its outermost one.
Release(c) ==
    /\ pc[c] = "release"
    /\ depth' = depth - 1
    /\ lock' = IF depth = 1 THEN None ELSE lock
    /\ GoTo(c, IF depth = 1 THEN "done" ELSE "release")
    /\ UNCHANGED <<op, active, history, updated, seen>>

------------------------------------------------------------------------------
(* set_hint *)

\* A copy of the active profile with one key replaced, then set_profile.
Patch(c) ==
    /\ pc[c] = "patch"
    /\ ~Raises(op[c])
    /\ updated' = [updated EXCEPT ![c] = Patched(active, op[c])]
    /\ GoTo(c, "enter")
    /\ UNCHANGED <<op, active, history, lock, depth, seen>>

\* int(value) raises: the exception leaves the with block, which unlocks.
PatchRaises(c) ==
    /\ pc[c] = "patch"
    /\ Raises(op[c])
    /\ depth' = depth - 1
    /\ lock' = IF depth = 1 THEN None ELSE lock
    /\ GoTo(c, "raised")
    /\ UNCHANGED <<op, active, history, updated, seen>>

------------------------------------------------------------------------------
(* set_profile *)

AppendHistory(c) ==
    /\ pc[c] = "append"
    /\ history' = Append(history, active)
    /\ GoTo(c, "trim")
    /\ UNCHANGED <<op, active, lock, depth, updated, seen>>

\* Mutant: off by one, the history grows by one beyond the cap.
TrimLate(c) ==
    /\ pc[c] = "trim"
    /\ history' = IF Len(history) > HistoryCap + 1 THEN Tail(history) ELSE history
    /\ GoTo(c, "assign")
    /\ UNCHANGED <<op, active, lock, depth, updated, seen>>

TrimHistory(c) ==
    /\ pc[c] = "trim"
    /\ history' = IF Len(history) > HistoryCap THEN Tail(history) ELSE history
    /\ GoTo(c, "assign")
    /\ UNCHANGED <<op, active, lock, depth, updated, seen>>

SetActive(c) ==
    /\ pc[c] = "assign"
    /\ active' = updated[c]
    /\ GoTo(c, "release")
    /\ UNCHANGED <<op, history, lock, depth, updated, seen>>

------------------------------------------------------------------------------
(* active, get_headers, get_dict *)

Read(c) ==
    /\ pc[c] = "read"
    /\ seen' = [seen EXCEPT ![c] = active]
    /\ GoTo(c, "release")
    /\ UNCHANGED <<op, active, history, lock, depth, updated>>

------------------------------------------------------------------------------
Step(c) == \/ Acquire(c) \/ Release(c)
           \/ Patch(c) \/ PatchRaises(c)
           \/ AppendHistory(c) \/ TrimHistory(c) \/ SetActive(c)
           \/ Read(c)

Next == \E c \in Calls : Step(c)

\* A thread that can run is run, and one that waits for the lock gets it when
\* it keeps coming free (each call is a thread of its own, and ends).
Fairness == \A c \in Calls : WF_vars(Step(c))

Spec == Init /\ [][Next]_vars /\ Fairness

------------------------------------------------------------------------------
Critical == {"patch", "enter", "append", "trim", "assign", "read", "release"}

TypeOK ==
    /\ op \in [Calls -> Ops]
    /\ active \in Profiles
    /\ history \in Seq(Profiles)
    /\ lock \in Calls \union {None}
    /\ depth \in 0..2
    /\ pc \in [Calls -> Critical \union {"call", "done", "raised"}]
    /\ updated \in [Calls -> Profiles \union {None}]
    /\ seen \in [Calls -> Profiles \union {None}]
    /\ lock = None => Len(history) <= HistoryCap

\* A write takes effect when it appends to the history: from there to its
\* assignment its profile counts as the active one, and before the trim the
\* history as trimmed.
Writing == {c \in Calls : pc[c] \in {"trim", "assign"}}

AbstractActive ==
    IF Writing = {} THEN active ELSE updated[CHOOSE c \in Writing : TRUE]

AbstractHistory ==
    IF \E c \in Calls : pc[c] = "trim" /\ Len(history) > HistoryCap
    THEN Tail(history) ELSE history

Outcome == [c \in Calls |->
    CASE pc[c] = "raised" -> "raised"
      [] pc[c] \in {"trim", "assign", "release", "done"} -> "done"
      [] OTHER -> "pending"]

Store == INSTANCE HintsStore WITH
    active <- AbstractActive, history <- AbstractHistory, outcome <- Outcome

(* However the threads are interleaved, every set_profile, set_hint and     *)
(* read is one atomic operation on the profile and its history: no update   *)
(* is lost, a patch changes one key of the profile it replaces, a read      *)
(* never sees half a write, and a call that raises changes nothing.         *)
ImplementsStore == Store!Init /\ [][Store!Next]_Store!vars

(* No call waits for ever: set_hint takes the lock it already holds, and an *)
(* exception gives it back.                                                 *)
CallEnds == \A c \in Calls : <>(pc[c] \in {"done", "raised"})
==============================================================================
