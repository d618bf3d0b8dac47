--------------------------- MODULE AgentHintsProofs ---------------------------
(***************************************************************************)
(* Proofs about AgentHintsManager, for every set of calls, every profile    *)
(* type and every history cap: the lock discipline, and that the manager    *)
(* implements the atomic HintsStore.                                        *)
(***************************************************************************)
EXTENDS AgentHintsManager, SequenceTheorems, TLAPS

Steps == Critical \union {"call", "done", "raised"}

Types ==
    /\ op \in [Calls -> Ops]
    /\ active \in Profiles
    /\ history \in Seq(Profiles)
    /\ lock \in Calls \union {None}
    /\ depth \in 0..2
    /\ pc \in [Calls -> Steps]
    /\ updated \in [Calls -> Profiles \union {None}]
    /\ seen \in [Calls -> Profiles \union {None}]

(* A call is inside the lock exactly when it owns it: the lock excludes.    *)
Exclusion == \A c \in Calls : pc[c] \in Critical <=> lock = c

(* What holds of the owner at each step.  The profile it is about to write  *)
(* was computed from the profile that is still active: nobody else can have *)
(* replaced it in between.                                                  *)
Owner(c) ==
    /\ pc[c] \in {"patch", "enter"} => op[c].kind = "set_hint" /\ depth = 1
    /\ pc[c] = "read" => op[c].kind = "get" /\ depth = 1
    /\ pc[c] \in {"enter", "append"} => updated[c] = Store!Replacement(op[c], active)
    /\ pc[c] \in {"enter", "append", "trim", "assign"} =>
          op[c].kind # "get" /\ ~Raises(op[c]) /\ updated[c] \in Profiles
    /\ depth \in 1..2
    /\ Len(history) <= IF pc[c] = "trim" THEN HistoryCap + 1 ELSE HistoryCap

Free == depth = 0 /\ Len(history) <= HistoryCap

IInv ==
    /\ Types
    /\ Exclusion
    /\ lock = None => Free
    /\ \A c \in Calls : lock = c => Owner(c)

LEMMA ReplacementIsProfile ==
    ASSUME NEW o \in Ops, NEW p \in Profiles, o.kind # "get", ~Raises(o)
    PROVE  Store!Replacement(o, p) \in Profiles
<1>1. CASE o.kind = "set_profile" /\ o.profile \in Profiles
  BY <1>1 DEF Store!Replacement
<1>2. CASE /\ o.kind = "set_hint"
           /\ \/ o.key \in Numeric /\ o.value = NotInt
              \/ \A q \in Profiles :
                    (IF o.key \in DOMAIN q THEN [q EXCEPT ![o.key] = o.value] ELSE q) \in Profiles
  <2>1. ~(o.key \in Numeric /\ o.value = NotInt)
    BY <1>2 DEF Raises
  <2>2. (IF o.key \in DOMAIN p THEN [p EXCEPT ![o.key] = o.value] ELSE p) \in Profiles
    BY <1>2, <2>1
  <2> QED  BY <1>2, <2>2 DEF Store!Replacement
<1> QED  BY <1>1, <1>2, ManagerAssumption

LEMMA InitIInv == Init => IInv
<1> SUFFICES ASSUME Init PROVE IInv
  OBVIOUS
<1>1. Types
  BY ManagerAssumption DEF Init, Types, Steps
<1>2. Exclusion
  BY ManagerAssumption DEF Init, Exclusion, Critical
<1>3. Free
  BY ManagerAssumption, LenProperties, EmptySeq DEF Init, Free
<1>4. \A c \in Calls : lock # c
  BY ManagerAssumption DEF Init
<1> QED  BY <1>1, <1>2, <1>3, <1>4 DEF IInv

LEMMA TrimLength ==
    ASSUME NEW h \in Seq(Profiles), Len(h) <= HistoryCap + 1, Len(h) > HistoryCap
    PROVE  Tail(h) \in Seq(Profiles) /\ Len(Tail(h)) <= HistoryCap
<1>1. Len(h) \in Nat /\ h # <<>>
  BY ManagerAssumption, LenProperties, EmptySeq
<1>2. Tail(h) \in Seq(Profiles) /\ Len(Tail(h)) = Len(h) - 1
  BY <1>1, HeadTailProperties
<1> QED  BY <1>1, <1>2, ManagerAssumption

LEMMA AcquireIInv == ASSUME IInv, NEW c \in Calls, Acquire(c) PROVE IInv'
<1>1. /\ Types /\ Exclusion /\ (lock = None => Free) /\ (lock = c => Owner(c))
  BY DEF IInv
<1>2. /\ (pc[c] = "call" /\ lock = None) \/ (pc[c] = "enter" /\ lock = c)
      /\ lock \in {None, c}
  BY <1>1 DEF Acquire, Exclusion, Types, Critical, Steps
<1>3. depth = (IF pc[c] = "call" THEN 0 ELSE 1) /\ Len(history) <= HistoryCap
  BY <1>1, <1>2, ManagerAssumption DEF Free, Owner, Types
<1>4. pc' = [pc EXCEPT ![c] = Body(c)] /\ Body(c) \in {"read", "patch", "append"}
  BY DEF Acquire, GoTo, Body
<1>5. op[c] \in Ops
  BY <1>1 DEF Types
<1>6. /\ Body(c) = "read" => op[c].kind = "get" /\ pc[c] = "call"
      /\ Body(c) = "patch" => op[c].kind = "set_hint" /\ pc[c] = "call"
      /\ Body(c) = "append" => \/ op[c].kind = "set_profile" /\ op[c].profile \in Profiles
                                                             /\ pc[c] = "call"
                               \/ op[c].kind = "set_hint" /\ pc[c] = "enter"
  <2>1. pc[c] = "enter" => op[c].kind = "set_hint"
    BY <1>1, <1>2 DEF Owner
  <2> QED  BY <2>1, <1>2, <1>5, ManagerAssumption DEF Body
<1>7. op[c].kind = "set_profile" => op[c].profile \in Profiles /\ ~Raises(op[c])
  BY <1>5, ManagerAssumption DEF Raises
<1>8. Types'
  BY <1>1, <1>2, <1>3, <1>4, <1>7 DEF Acquire, Types, Steps, Critical
<1>9. Exclusion'
  BY <1>1, <1>2, <1>4, ManagerAssumption DEF Acquire, Types, Exclusion, Critical
<1>10. Owner(c)'
  <2>1. pc'[c] = Body(c) /\ depth' = depth + 1 /\ UNCHANGED <<op, active, history>>
    BY <1>1, <1>4 DEF Types, Acquire
  <2>2. Body(c) = "append" => /\ updated'[c] = Store!Replacement(op[c], active)
                              /\ op[c].kind # "get" /\ ~Raises(op[c]) /\ updated'[c] \in Profiles
    <3>1. CASE op[c].kind = "set_profile"
      BY <3>1, <1>1, <1>7 DEF Acquire, Types, Store!Replacement
    <3>2. CASE op[c].kind = "set_hint" /\ pc[c] = "enter"
      BY <3>2, <1>1, <1>2 DEF Acquire, Owner
    <3> QED  BY <1>6, <3>1, <3>2
  <2> QED  BY <1>3, <1>4, <1>6, <2>1, <2>2 DEF Owner
<1>11. lock' = c
  BY DEF Acquire
<1> QED  BY <1>8, <1>9, <1>10, <1>11, ManagerAssumption DEF IInv

(* Every other step is one of the owner of the lock.                        *)
LEMMA OwnerSteps ==
    ASSUME IInv, NEW c \in Calls, Step(c), ~Acquire(c)
    PROVE  /\ pc[c] \in Critical /\ lock = c /\ Owner(c)
           /\ \E step \in Steps : pc' = [pc EXCEPT ![c] = step]
<1>1. pc[c] \in Critical
  BY DEF Step, Release, Patch, PatchRaises, AppendHistory, TrimHistory, SetActive, Read, Critical
<1>2. lock = c /\ Owner(c)
  BY <1>1 DEF IInv, Exclusion
<1>3. \E step \in Steps : pc' = [pc EXCEPT ![c] = step]
  BY DEF Step, Release, Patch, PatchRaises, AppendHistory, TrimHistory, SetActive, Read,
         GoTo, Steps, Critical
<1> QED  BY <1>1, <1>2, <1>3

LEMMA OwnerMovesIInv ==
    ASSUME IInv, NEW c \in Calls, Step(c), ~Acquire(c),
           Types', lock' = c, pc'[c] \in Critical, Owner(c)'
    PROVE  IInv'
<1>1. pc[c] \in Critical /\ lock = c /\ Exclusion /\ Types
  BY OwnerSteps DEF IInv
<1>2. \A d \in Calls : d # c => pc'[d] = pc[d]
  BY <1>1, OwnerSteps DEF Types
<1>3. Exclusion'
  BY <1>1, <1>2 DEF Exclusion
<1> QED  BY <1>3, ManagerAssumption DEF IInv

LEMMA OwnerLeavesIInv ==
    ASSUME IInv, NEW c \in Calls, Step(c), ~Acquire(c),
           Types', lock' = None, pc'[c] \notin Critical, Free'
    PROVE  IInv'
<1>1. pc[c] \in Critical /\ lock = c /\ Exclusion /\ Types
  BY OwnerSteps DEF IInv
<1>2. \A d \in Calls : d # c => pc'[d] = pc[d]
  BY <1>1, OwnerSteps DEF Types
<1>3. Exclusion'
  BY <1>1, <1>2, ManagerAssumption DEF Exclusion
<1> QED  BY <1>3, ManagerAssumption DEF IInv

LEMMA OwnerStepIInv == ASSUME IInv, NEW c \in Calls, Step(c), ~Acquire(c) PROVE IInv'
<1>1. pc[c] \in Critical /\ lock = c /\ Owner(c) /\ Types
  BY OwnerSteps DEF IInv
<1>2. op[c] \in Ops /\ HistoryCap \in Nat /\ None \notin Calls /\ Len(history) \in Nat
  BY <1>1, ManagerAssumption, LenProperties DEF Types
<1>3. CASE Release(c)
  <2>1. CASE depth = 1
    <3>1. Types' /\ lock' = None /\ pc'[c] \notin Critical
      BY <1>1, <1>3, <2>1 DEF Release, GoTo, Types, Steps, Critical
    <3>2. Free'
      BY <1>1, <1>3, <2>1 DEF Release, Owner, Free
    <3> QED  BY <1>3, <3>1, <3>2, OwnerLeavesIInv DEF Release, Acquire
  <2>2. CASE depth # 1
    <3>1. depth = 2 /\ depth' = 1
      BY <1>1, <1>3, <2>2 DEF Release, Owner, Types
    <3>2. Types' /\ lock' = c /\ pc'[c] = "release"
      BY <1>1, <1>3, <2>2, <3>1 DEF Release, GoTo, Types, Steps, Critical
    <3>3. Owner(c)'
      BY <1>1, <1>3, <3>1, <3>2 DEF Release, Owner
    <3> QED  BY <1>3, <3>2, <3>3, OwnerMovesIInv DEF Release, Acquire, Critical
  <2> QED  BY <2>1, <2>2
<1>4. CASE Patch(c)
  <2>1. op[c].kind # "get" /\ ~Raises(op[c]) /\ op[c].kind = "set_hint" /\ depth = 1
    BY <1>1, <1>4 DEF Patch, Owner
  <2>2. Patched(active, op[c]) = Store!Replacement(op[c], active)
    BY <2>1 DEF Patched, Store!Replacement
  <2>3. Patched(active, op[c]) \in Profiles
    BY <1>1, <1>2, <2>1, <2>2, ReplacementIsProfile DEF Types
  <2>4. Types' /\ lock' = c /\ pc'[c] = "enter" /\ updated'[c] = Patched(active, op[c])
    BY <1>1, <1>4, <2>3 DEF Patch, GoTo, Types, Steps, Critical
  <2>5. Owner(c)'
    BY <1>1, <1>4, <2>1, <2>2, <2>3, <2>4 DEF Patch, Owner
  <2> QED  BY <1>4, <2>4, <2>5, OwnerMovesIInv DEF Patch, Acquire, Critical
<1>5. CASE PatchRaises(c)
  <2>1. depth = 1 /\ Len(history) <= HistoryCap
    BY <1>1, <1>5 DEF PatchRaises, Owner
  <2>2. Types' /\ lock' = None /\ pc'[c] \notin Critical /\ Free'
    BY <1>1, <1>5, <2>1 DEF PatchRaises, GoTo, Types, Steps, Critical, Free
  <2> QED  BY <1>5, <2>2, OwnerLeavesIInv DEF PatchRaises, Acquire
<1>6. CASE AppendHistory(c)
  <2>1. history' \in Seq(Profiles) /\ Len(history') = Len(history) + 1
    BY <1>1, <1>6, AppendProperties DEF AppendHistory, Types
  <2>2. Types' /\ lock' = c /\ pc'[c] = "trim"
    BY <1>1, <1>6, <2>1 DEF AppendHistory, GoTo, Types, Steps, Critical
  <2>3. Owner(c)'
    BY <1>1, <1>2, <1>6, <2>1, <2>2 DEF AppendHistory, Owner
  <2> QED  BY <1>6, <2>2, <2>3, OwnerMovesIInv DEF AppendHistory, Acquire, Critical
<1>7. CASE TrimHistory(c)
  <2>1. Len(history) <= HistoryCap + 1
    BY <1>1, <1>7 DEF TrimHistory, Owner
  <2>2. history' \in Seq(Profiles) /\ Len(history') <= HistoryCap
    BY <1>1, <1>2, <1>7, <2>1, TrimLength DEF TrimHistory, Types
  <2>3. Types' /\ lock' = c /\ pc'[c] = "assign"
    BY <1>1, <1>7, <2>2 DEF TrimHistory, GoTo, Types, Steps, Critical
  <2>4. Owner(c)'
    BY <1>1, <1>7, <2>2, <2>3 DEF TrimHistory, Owner
  <2> QED  BY <1>7, <2>3, <2>4, OwnerMovesIInv DEF TrimHistory, Acquire, Critical
<1>8. CASE SetActive(c)
  <2>1. updated[c] \in Profiles
    BY <1>1, <1>8 DEF SetActive, Owner
  <2>2. Types' /\ lock' = c /\ pc'[c] = "release"
    BY <1>1, <1>8, <2>1 DEF SetActive, GoTo, Types, Steps, Critical
  <2>3. Owner(c)'
    BY <1>1, <1>8, <2>2 DEF SetActive, Owner
  <2> QED  BY <1>8, <2>2, <2>3, OwnerMovesIInv DEF SetActive, Acquire, Critical
<1>9. CASE Read(c)
  <2>1. Types' /\ lock' = c /\ pc'[c] = "release"
    BY <1>1, <1>9 DEF Read, GoTo, Types, Steps, Critical
  <2>2. Owner(c)'
    BY <1>1, <1>9, <2>1 DEF Read, Owner
  <2> QED  BY <1>9, <2>1, <2>2, OwnerMovesIInv DEF Read, Acquire, Critical
<1> QED  BY <1>3, <1>4, <1>5, <1>6, <1>7, <1>8, <1>9 DEF Step

LEMMA Invariant == Spec => []IInv
<1>1. Init => IInv
  BY InitIInv
<1>2. IInv /\ [Next]_vars => IInv'
  <2>1. IInv /\ Next => IInv'
    BY AcquireIInv, OwnerStepIInv DEF Next
  <2>2. IInv /\ UNCHANGED vars => IInv'
    BY DEF vars, IInv, Types, Exclusion, Free, Owner
  <2> QED  BY <2>1, <2>2
<1> QED  BY <1>1, <1>2, PTL DEF Spec

(* The type invariant of the manager, with the bound on its history.        *)
THEOREM TypeCorrect == Spec => []TypeOK
<1>1. IInv => TypeOK
  BY DEF IInv, Types, Steps, Free, TypeOK
<1> QED  BY <1>1, Invariant, PTL

------------------------------------------------------------------------------
(* Refinement: what the abstract store sees when only c may be writing.      *)

LEMMA View ==
    ASSUME NEW p, NEW u, NEW h, NEW a, NEW c \in Calls,
           \A d \in Calls : d # c => p[d] \notin {"trim", "assign"}
    PROVE  /\ (IF {d \in Calls : p[d] \in {"trim", "assign"}} = {} THEN a
               ELSE u[CHOOSE d \in {e \in Calls : p[e] \in {"trim", "assign"}} : TRUE])
              = (IF p[c] \in {"trim", "assign"} THEN u[c] ELSE a)
           /\ (IF \E d \in Calls : p[d] = "trim" /\ Len(h) > HistoryCap THEN Tail(h) ELSE h)
              = (IF p[c] = "trim" /\ Len(h) > HistoryCap THEN Tail(h) ELSE h)
<1> DEFINE W == {d \in Calls : p[d] \in {"trim", "assign"}}
<1>1. CASE p[c] \in {"trim", "assign"}
  <2>1. W = {c}
    BY <1>1
  <2>2. (CHOOSE d \in W : TRUE) = c
    BY <2>1
  <2> QED  BY <1>1, <2>1, <2>2
<1>2. CASE p[c] \notin {"trim", "assign"}
  <2>1. W = {}
    BY <1>2
  <2> QED  BY <1>2, <2>1
<1> QED  BY <1>1, <1>2

LEMMA Others ==
    ASSUME IInv, NEW c \in Calls, Step(c), NEW d \in Calls, d # c
    PROVE  pc[d] \notin Critical /\ pc'[d] = pc[d]
<1>1. CASE Acquire(c)
  BY <1>1, ManagerAssumption DEF IInv, Types, Exclusion, Acquire, GoTo
<1>2. CASE ~Acquire(c)
  BY <1>2, OwnerSteps, ManagerAssumption DEF IInv, Types, Exclusion
<1> QED  BY <1>1, <1>2

\* What Outcome makes of one call's step.
OutcomeOf(step) ==
    CASE step = "raised" -> "raised"
      [] step \in {"trim", "assign", "release", "done"} -> "done"
      [] OTHER -> "pending"

LEMMA AbstractStep ==
    ASSUME IInv, NEW c \in Calls, Step(c)
    PROVE  /\ AbstractActive = IF pc[c] \in {"trim", "assign"} THEN updated[c] ELSE active
           /\ AbstractActive' = IF pc'[c] \in {"trim", "assign"} THEN updated'[c] ELSE active'
           /\ AbstractHistory = IF pc[c] = "trim" /\ Len(history) > HistoryCap
                                THEN Tail(history) ELSE history
           /\ AbstractHistory' = IF pc'[c] = "trim" /\ Len(history') > HistoryCap
                                 THEN Tail(history') ELSE history'
           /\ Outcome[c] = OutcomeOf(pc[c])
           /\ Outcome' = [Outcome EXCEPT ![c] = OutcomeOf(pc'[c])]
<1>1. \A d \in Calls : d # c => pc[d] \notin {"trim", "assign"} /\ pc'[d] \notin {"trim", "assign"}
  BY Others DEF Critical
<1>2. /\ AbstractActive = IF pc[c] \in {"trim", "assign"} THEN updated[c] ELSE active
      /\ AbstractHistory = IF pc[c] = "trim" /\ Len(history) > HistoryCap
                           THEN Tail(history) ELSE history
  BY <1>1, View DEF AbstractActive, AbstractHistory, Writing
<1>3. /\ AbstractActive' = IF pc'[c] \in {"trim", "assign"} THEN updated'[c] ELSE active'
      /\ AbstractHistory' = IF pc'[c] = "trim" /\ Len(history') > HistoryCap
                            THEN Tail(history') ELSE history'
  BY <1>1, View DEF AbstractActive, AbstractHistory, Writing
<1>4. \A d \in Calls : Outcome[d] = OutcomeOf(pc[d]) /\ Outcome'[d] = OutcomeOf(pc'[d])
  BY DEF Outcome, OutcomeOf
<1>5. \A d \in Calls : d # c => Outcome'[d] = Outcome[d]
  BY <1>4, Others
<1>6. Outcome' = [Outcome EXCEPT ![c] = OutcomeOf(pc'[c])]
  BY <1>4, <1>5 DEF Outcome
<1> QED  BY <1>2, <1>3, <1>4, <1>6

LEMMA StepRefines ==
    ASSUME IInv, NEW c \in Calls, Step(c)
    PROVE  Store!Next \/ UNCHANGED Store!vars
<1>1. Types /\ (pc[c] \in Critical => lock = c /\ Owner(c)) /\ op' = op
  BY DEF IInv, Exclusion, Step, Acquire, Release, Patch, PatchRaises, AppendHistory,
         TrimHistory, SetActive, Read
<1>2. pc[c] \in Steps /\ Outcome = [Outcome EXCEPT ![c] = OutcomeOf(pc[c])]
  BY <1>1, AbstractStep DEF Types, Outcome
<1>3. CASE Acquire(c) \/ Release(c) \/ Patch(c)
  <2>1. OutcomeOf(pc'[c]) = OutcomeOf(pc[c]) /\ pc[c] \notin {"trim", "assign"}
        /\ pc'[c] \notin {"trim", "assign"} /\ UNCHANGED <<active, history, seen>>
    BY <1>1, <1>3 DEF Acquire, Release, Patch, GoTo, Body, OutcomeOf, Types
  <2> QED  BY <1>1, <1>2, <2>1, AbstractStep DEF Store!vars
<1>4. CASE PatchRaises(c)
  <2>1. /\ pc[c] = "patch" /\ pc'[c] = "raised" /\ Raises(op[c])
        /\ UNCHANGED <<active, history, seen>>
    BY <1>1, <1>4 DEF PatchRaises, GoTo, Types
  <2>2. OutcomeOf("patch") = "pending" /\ OutcomeOf("raised") = "raised"
    BY DEF OutcomeOf
  <2>3. Store!Fail(c)
    BY <1>1, <2>1, <2>2, AbstractStep DEF Store!Fail, Store!Raises, Raises
  <2> QED  BY <2>3 DEF Store!Next
<1>5. CASE AppendHistory(c)
  <2>1. /\ pc[c] = "append" /\ pc'[c] = "trim" /\ history' = Append(history, active)
        /\ UNCHANGED <<active, updated, seen>>
    BY <1>1, <1>5 DEF AppendHistory, GoTo, Types
  <2>2. OutcomeOf("append") = "pending" /\ OutcomeOf("trim") = "done"
    BY DEF OutcomeOf
  <2>3. /\ op[c].kind # "get" /\ ~Raises(op[c])
        /\ updated[c] = Store!Replacement(op[c], active)
    BY <1>1, <2>1 DEF Owner, Critical
  <2>4. AbstractActive = active /\ AbstractActive' = updated[c] /\ AbstractHistory = history
    BY <2>1, AbstractStep
  <2>5. AbstractHistory' = Store!Trimmed(Append(AbstractHistory, AbstractActive))
    BY <2>1, <2>4, AbstractStep DEF Store!Trimmed
  <2>6. Store!Write(c)
    BY <1>1, <2>1, <2>2, <2>3, <2>4, <2>5, AbstractStep DEF Store!Write, Store!Raises, Raises
  <2> QED  BY <2>6 DEF Store!Next
<1>6. CASE TrimHistory(c)
  <2>1. /\ pc[c] = "trim" /\ pc'[c] = "assign"
        /\ history' = (IF Len(history) > HistoryCap THEN Tail(history) ELSE history)
        /\ UNCHANGED <<active, updated, seen>>
    BY <1>1, <1>6 DEF TrimHistory, GoTo, Types
  <2>2. OutcomeOf("trim") = OutcomeOf("assign")
    BY DEF OutcomeOf
  <2>3. AbstractActive' = AbstractActive /\ AbstractHistory' = AbstractHistory
    BY <2>1, AbstractStep
  <2> QED  BY <1>1, <1>2, <2>1, <2>2, <2>3, AbstractStep DEF Store!vars
<1>7. CASE SetActive(c)
  <2>1. /\ pc[c] = "assign" /\ pc'[c] = "release" /\ active' = updated[c]
        /\ UNCHANGED <<history, updated, seen>>
    BY <1>1, <1>7 DEF SetActive, GoTo, Types
  <2>2. OutcomeOf("assign") = OutcomeOf("release")
    BY DEF OutcomeOf
  <2>3. AbstractActive' = AbstractActive /\ AbstractHistory' = AbstractHistory
    BY <2>1, AbstractStep
  <2> QED  BY <1>1, <1>2, <2>1, <2>2, <2>3, AbstractStep DEF Store!vars
<1>8. CASE Read(c)
  <2>1. /\ pc[c] = "read" /\ pc'[c] = "release" /\ seen' = [seen EXCEPT ![c] = active]
        /\ UNCHANGED <<active, history, updated>>
    BY <1>1, <1>8 DEF Read, GoTo, Types
  <2>2. OutcomeOf("read") = "pending" /\ OutcomeOf("release") = "done"
    BY DEF OutcomeOf
  <2>3. op[c].kind = "get"
    BY <1>1, <2>1 DEF Owner, Critical
  <2>4. AbstractActive = active /\ AbstractActive' = active /\ AbstractHistory' = AbstractHistory
    BY <2>1, AbstractStep
  <2>5. Store!Get(c)
    BY <1>1, <2>1, <2>2, <2>3, <2>4, AbstractStep DEF Store!Get
  <2> QED  BY <2>5 DEF Store!Next
<1> QED  BY <1>3, <1>4, <1>5, <1>6, <1>7, <1>8 DEF Step

(* Every call on the manager is one atomic operation of the HintsStore,      *)
(* however the threads are interleaved.                                      *)
THEOREM ManagerImplementsStore == Spec => ImplementsStore
<1>1. Init => Store!Init
  <2> SUFFICES ASSUME Init PROVE Store!Init
    OBVIOUS
  <2>1. \A c \in Calls : pc[c] = "call"
    BY DEF Init
  <2>2. AbstractActive = active /\ AbstractHistory = history
    BY <2>1 DEF AbstractActive, AbstractHistory, Writing
  <2>3. Outcome = [c \in Calls |-> "pending"]
    BY <2>1 DEF Outcome
  <2> QED  BY <2>2, <2>3 DEF Init, Store!Init
<1>2. IInv /\ [Next]_vars => [Store!Next]_(Store!vars)
  <2>1. IInv /\ Next => Store!Next \/ UNCHANGED Store!vars
    BY StepRefines DEF Next
  <2>2. UNCHANGED vars => UNCHANGED Store!vars
    BY DEF vars, Store!vars, AbstractActive, AbstractHistory, Writing, Outcome
  <2> QED  BY <2>1, <2>2
<1> QED  BY <1>1, <1>2, Invariant, PTL DEF Spec, ImplementsStore
====
