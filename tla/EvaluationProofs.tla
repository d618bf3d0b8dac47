--------------------------- MODULE EvaluationProofs ---------------------------
(***************************************************************************)
(* Proofs about EvaluationLoop, for any list of distinct candidates, any   *)
(* set of measurements and any promotion threshold.                        *)
(***************************************************************************)
EXTENDS EvaluationLoop, SequenceTheorems, WellFoundedInduction, TLAPS

------------------------------------------------------------------------------
(* The order of the results *)

LEMMA LeastNatural ==
    ASSUME NEW T \in SUBSET Nat, T # {}
    PROVE  \E n \in T : \A m \in T : n <= m
<1> DEFINE R == OpToRel(<, Nat)
<1>1. IsWellFoundedOn(R, Nat)
  BY NatLessThanWellFounded
<1>2. PICK n \in T : \A m \in T : ~ (<<m, n>> \in R)
  <2> HIDE DEF R
  <2> QED  BY <1>1, WFMin
<1>3. \A m \in T : ~ (m < n)
  BY <1>2 DEF OpToRel
<1> QED  BY <1>3

(* The stable sort of a non-empty list of measurements by (wer, rtf) has a  *)
(* first element: it comes before every one listed earlier, and none comes  *)
(* before it.                                                               *)
LEMMA BestIsFirst ==
    ASSUME NEW ms \in Seq(Metrics), ms # <<>>
    PROVE  /\ BestOf(ms) \in DOMAIN ms
           /\ \A j \in DOMAIN ms : ~Before(ms[j], ms[BestOf(ms)])
           /\ \A j \in 1..(BestOf(ms) - 1) : Before(ms[BestOf(ms)], ms[j])
<1> DEFINE D == DOMAIN ms
<1>1. /\ D = 1..Len(ms) /\ Len(ms) \in Nat /\ D # {}
      /\ \A i \in D : ms[i].wer \in Nat /\ ms[i].rtf \in Nat
  <2>1. /\ Len(ms) \in Nat /\ DOMAIN ms = 1..Len(ms)
        /\ \A i \in 1..Len(ms) : ms[i] \in Metrics
    BY LenProperties, ElementOfSeq
  <2>2. 1 \in 1..Len(ms)
    BY <2>1, EmptySeq
  <2>3. \A i \in D : ms[i].wer \in Nat /\ ms[i].rtf \in Nat
    BY <2>1, LoopAssumption
  <2> QED  BY <2>1, <2>2, <2>3
<1> HIDE DEF D
<1>2. PICK w \in {ms[i].wer : i \in D} : \A v \in {ms[i].wer : i \in D} : w <= v
  <2>1. {ms[i].wer : i \in D} \in SUBSET Nat /\ {ms[i].wer : i \in D} # {}
    BY <1>1
  <2> QED  BY <2>1, LeastNatural
<1> DEFINE W == {i \in D : ms[i].wer = w}
<1>3. PICK r \in {ms[i].rtf : i \in W} : \A v \in {ms[i].rtf : i \in W} : r <= v
  <2>1. {ms[i].rtf : i \in W} \in SUBSET Nat /\ {ms[i].rtf : i \in W} # {}
    BY <1>1, <1>2
  <2> QED  BY <2>1, LeastNatural
<1> DEFINE B == {i \in W : ms[i].rtf = r}
<1>4. PICK i \in B : \A j \in B : i <= j
  <2>1. B \in SUBSET Nat /\ B # {}
    BY <1>1, <1>3
  <2> QED  BY <2>1, LeastNatural
<1>5. /\ i \in D /\ ms[i].wer = w /\ ms[i].rtf = r
      /\ \A j \in D : w <= ms[j].wer /\ (ms[j].wer = w => r <= ms[j].rtf)
      /\ \A j \in D : ms[j].wer = w /\ ms[j].rtf = r => i <= j
  BY <1>2, <1>3, <1>4
<1>6. /\ \A j \in D : ~Before(ms[j], ms[i])
      /\ \A j \in 1..(i - 1) : Before(ms[i], ms[j])
  <2>1. \A j \in D : ~Before(ms[j], ms[i])
    BY <1>1, <1>5 DEF Before
  <2>2. ASSUME NEW j \in 1..(i - 1)  PROVE  Before(ms[i], ms[j])
    <3>1. j \in D /\ j < i
      BY <1>1, <1>5
    <3> QED  BY <1>1, <1>5, <3>1 DEF Before
  <2> QED  BY <2>1, <2>2
<1> QED  BY <1>5, <1>6 DEF BestOf, D

\* The positions of the candidates: a list without repetition.
LEMMA Positions ==
    /\ Len(Candidates) \in Nat \ {0} /\ DOMAIN Candidates = 1..Len(Candidates)
    /\ \A i \in 1..Len(Candidates) :
          /\ Candidates[i] \in Models
          /\ (CHOOSE j \in DOMAIN Candidates : Candidates[j] = Candidates[i]) = i
<1>1. Candidates \in Seq(Models) /\ Candidates # <<>>
  BY LoopAssumption
<1>2. Len(Candidates) \in Nat /\ DOMAIN Candidates = 1..Len(Candidates)
  BY <1>1, LenProperties
<1>3. Len(Candidates) # 0
  BY <1>1, EmptySeq
<1>4. ASSUME NEW i \in 1..Len(Candidates)
      PROVE  /\ Candidates[i] \in Models
             /\ (CHOOSE j \in DOMAIN Candidates : Candidates[j] = Candidates[i]) = i
  BY <1>2, LoopAssumption DEF Models
<1> QED  BY <1>2, <1>3, <1>4

LEMMA ProfileType ==
    ASSUME NEW model \in Models, NEW m \in Metrics
    PROVE  Profile(model, m) \in [model_id : Models, priority : {3, 5, 7, 9},
                                  kv_ttl_ms : {200, 350, 500}]
<1>1. m.wer \in Nat /\ m.rtf \in Nat
  BY LoopAssumption
<1>2. Priority(m.wer) \in {3, 5, 7, 9}
  <2>1. m.wer < 5 \/ m.wer \in 5..9 \/ m.wer \in 10..19 \/ m.wer >= 20
    BY <1>1
  <2> QED  BY <2>1, Zenon DEF Priority
<1>3. KvTtl(m.rtf) \in {200, 350, 500}
  <2>1. CASE m.rtf < 10
    <3>1. ~(m.rtf \in 10..49) /\ ~(m.rtf >= 50)
      BY <1>1, <2>1
    <3>2. KvTtl(m.rtf) = 200
      BY <2>1, <3>1, Zenon DEF KvTtl
    <3> QED  BY <3>2
  <2>2. CASE m.rtf \in 10..49
    <3>1. ~(m.rtf < 10) /\ ~(m.rtf >= 50)
      BY <1>1, <2>2
    <3>2. KvTtl(m.rtf) = 350
      BY <2>2, <3>1, Zenon DEF KvTtl
    <3> QED  BY <3>2
  <2>3. CASE m.rtf >= 50
    <3>1. ~(m.rtf < 10) /\ ~(m.rtf \in 10..49)
      BY <1>1, <2>3
    <3>2. KvTtl(m.rtf) = 500
      BY <2>3, <3>1, Zenon DEF KvTtl
    <3> QED  BY <3>2
  <2> QED  BY <1>1, <2>1, <2>2, <2>3
<1> QED  BY <1>2, <1>3 DEF Profile

------------------------------------------------------------------------------
(* The loop *)

LoopInv == TypeOK /\ HintsFollowWinner

\* What FinishCycle leaves behind, with the winner by its position.
LEMMA CycleResult ==
    ASSUME LoopInv, FinishCycle
    PROVE  LET i == BestOf(results)
           IN  /\ i \in 1..Len(Candidates) /\ i \in DOMAIN results
               /\ results[i] \in Metrics
               /\ Candidates[i] \in Models
               /\ \A j \in DOMAIN results : results[i].wer <= results[j].wer
<1> DEFINE i == BestOf(results)
<1>1. /\ results \in Seq(Metrics) /\ Len(results) = Len(Candidates)
      /\ DOMAIN results = 1..Len(Candidates)
  BY LenProperties DEF LoopInv, TypeOK, FinishCycle
<1>2. results # <<>>
  BY <1>1, Positions, EmptySeq
<1>3. i \in DOMAIN results /\ \A j \in DOMAIN results : ~Before(results[j], results[i])
  BY <1>1, <1>2, BestIsFirst
<1> HIDE DEF i
<1>4. \A j \in DOMAIN results : /\ results[j] \in Metrics
                                /\ results[j].wer \in Nat /\ results[j].rtf \in Nat
  <2>1. \A j \in DOMAIN results : results[j] \in Metrics
    BY <1>1, ElementOfSeq
  <2> QED  BY <2>1, LoopAssumption
<1>5. \A j \in DOMAIN results : results[i].wer <= results[j].wer
  BY <1>3, <1>4 DEF Before
<1>6. Candidates[i] \in Models
  BY <1>1, <1>3, Positions
<1> QED  BY <1>1, <1>3, <1>4, <1>5, <1>6 DEF i

LEMMA LoopStarts == Init => LoopInv
<1> SUFFICES ASSUME Init  PROVE LoopInv
  OBVIOUS
<1>1. Candidates[1] \in Models /\ Len(Candidates) \in Nat
  BY Positions
<1>2. results \in Seq(Metrics) /\ Len(results) <= Len(Candidates)
  BY <1>1, EmptySeq DEF Init
<1>3. TypeOK
  BY <1>1, <1>2 DEF Init, TypeOK
<1> QED  BY <1>3 DEF Init, LoopInv, HintsFollowWinner

LEMMA FinishKeeps ==
    ASSUME LoopInv, FinishCycle
    PROVE  LoopInv'
<1> DEFINE i == BestOf(results)
           best == Candidates[i]
<1>1. results[i] \in Metrics /\ best \in Models /\ results[i] # None
  BY CycleResult, LoopAssumption
<1>2. /\ best_metrics' = [best_metrics EXCEPT ![best] = results[i]]
      /\ hints' = Profile(best, results[i])
      /\ is_active' = [m \in Models |-> m = best] \/ is_active' = is_active
      /\ pc' = "sleeping" /\ UNCHANGED <<session, running, results>>
  BY DEF FinishCycle, Promote
<1> HIDE DEF i, best
<1>3. hints' \in [model_id : Models, priority : {3, 5, 7, 9}, kv_ttl_ms : {200, 350, 500}]
  BY <1>1, <1>2, ProfileType
<1>4. is_active' \in [Models -> BOOLEAN]
  <2>1. is_active \in [Models -> BOOLEAN] /\ [m \in Models |-> m = best] \in [Models -> BOOLEAN]
    BY DEF LoopInv, TypeOK
  <2> QED  BY <1>2, <2>1, Zenon
<1>5. TypeOK'
  BY <1>1, <1>2, <1>3, <1>4 DEF LoopInv, TypeOK
<1>6. best_metrics'[best] = results[i] /\ hints'.model_id = best
  BY <1>1, <1>2 DEF LoopInv, TypeOK, Profile
<1>7. HintsFollowWinner'
  BY <1>1, <1>2, <1>6 DEF HintsFollowWinner
<1> QED  BY <1>5, <1>7 DEF LoopInv

LEMMA LoopInductive == LoopInv /\ [Next]_vars => LoopInv'
<1> SUFFICES ASSUME LoopInv, [Next]_vars  PROVE LoopInv'
  OBVIOUS
<1> USE DEF LoopInv, TypeOK, HintsFollowWinner
<1>1. CASE Start
  BY <1>1 DEF Start
<1>2. CASE BeginCycle
  <2>1. results' \in Seq(Metrics) /\ Len(results') <= Len(Candidates)
    BY <1>2, EmptySeq, Positions DEF BeginCycle
  <2> QED  BY <1>2, <2>1 DEF BeginCycle
<1>3. CASE Evaluate
  <2>1. PICK m \in Metrics : results' = Append(results, m)
    BY <1>3 DEF Evaluate
  <2>2. results' \in Seq(Metrics) /\ Len(results') <= Len(Candidates)
    <3>1. /\ Append(results, m) \in Seq(Metrics) /\ Len(Append(results, m)) = Len(results) + 1
          /\ Len(results) \in Nat
      BY AppendProperties, LenProperties
    <3> QED  BY <1>3, <2>1, <3>1, Positions DEF Evaluate
  <2> QED  BY <1>3, <2>2 DEF Evaluate
<1>4. CASE EvaluateRaises
  BY <1>4 DEF EvaluateRaises
<1>5. CASE FinishCycle
  BY <1>5, FinishKeeps
<1>6. CASE Wake
  BY <1>6 DEF Wake
<1>7. CASE End
  BY <1>7 DEF End
<1>8. CASE Stop
  <2>1. running' \in BOOLEAN /\ UNCHANGED <<session, pc, results, is_active, best_metrics, hints>>
    BY <1>8 DEF Stop
  <2>2. TypeOK'
    BY <2>1
  <2>3. HintsFollowWinner'
    BY <2>1
  <2> QED  BY <2>2, <2>3
<1>9. ASSUME NEW id \in Requested, PromoteOnDemand(id)  PROVE LoopInv'
  BY <1>9 DEF PromoteOnDemand, Promote
<1>10. CASE UNCHANGED vars
  BY <1>10 DEF vars
<1> QED
  BY <1>1, <1>2, <1>3, <1>4, <1>5, <1>6, <1>7, <1>8, <1>9, <1>10 DEF Next, LoopStep

LEMMA LoopCorrect == Spec => []LoopInv
BY LoopStarts, LoopInductive, PTL DEF Spec

(* The loop's variables keep their types: a cycle never holds more results  *)
(* than there are candidates, the winner of every sort is a candidate, and  *)
(* the HTTP session is not open once the task has ended.                    *)
THEOREM TypeCorrect == Spec => []TypeOK
<1>1. LoopInv => TypeOK
  BY DEF LoopInv
<1> QED  BY <1>1, LoopCorrect, PTL

(* _compute_hints and the metrics stored by _eval_cycle agree at every      *)
(* moment another task can look, whatever promote_model does in between.    *)
THEOREM HintsAreTheWinners == Spec => []HintsFollowWinner
<1>1. LoopInv => HintsFollowWinner
  BY DEF LoopInv
<1> QED  BY <1>1, LoopCorrect, PTL

\* Only the end of a cycle goes from evaluating to sleeping.
LEMMA OnlyFinishCycle ==
    ASSUME LoopInv, [Next]_vars, FinishesCycle
    PROVE  FinishCycle
BY DEF FinishesCycle, Next, LoopStep, vars, Start, BeginCycle, Evaluate, EvaluateRaises,
       Wake, End, Stop, PromoteOnDemand

(* _eval_cycle replaces the serving model only by the winner of its own     *)
(* cycle, whose WER is at most that of every model it retires, although the *)
(* improvement it looks at is over metrics of an earlier cycle.             *)
THEOREM PromotionsAreNoWorse == Spec => NeverPromotesWorse
<1> DEFINE Justified == \E m \in Models : Serving' = {m} /\ \A a \in Serving : WerNow(m) <= WerNow(a)
<1>1. ASSUME LoopInv, [Next]_vars, FinishesCycle, Serving' # Serving
      PROVE  Justified
  <2>1. FinishCycle
    BY <1>1, OnlyFinishCycle
  <2> DEFINE i == BestOf(results)
  <2>2. /\ i \in 1..Len(Candidates) /\ Candidates[i] \in Models
        /\ \A j \in DOMAIN results : results[i].wer <= results[j].wer
    BY <1>1, <2>1, CycleResult
  <2>3. is_active' = [m \in Models |-> m = Candidates[i]]
    BY <1>1, <2>1 DEF FinishCycle, Promote, Serving
  <2> HIDE DEF i
  <2>4. Serving' = {Candidates[i]}
    BY <2>2, <2>3 DEF Serving
  <2>5. DOMAIN results = 1..Len(Candidates)
    BY <1>1, <2>1, LenProperties DEF FinishCycle, LoopInv, TypeOK
  <2>6. WerNow(Candidates[i]) = results[i].wer
    BY <2>2, Positions DEF WerNow
  <2>7. ASSUME NEW a \in Serving  PROVE  WerNow(Candidates[i]) <= WerNow(a)
    <3>1. PICK j \in 1..Len(Candidates) : Candidates[j] = a
      BY Positions DEF Serving, Models
    <3>2. (CHOOSE k \in DOMAIN Candidates : Candidates[k] = Candidates[j]) = j
      BY <3>1, Positions
    <3>3. WerNow(a) = results[j].wer
      BY <3>1, <3>2, Zenon DEF WerNow
    <3> QED  BY <2>2, <2>5, <2>6, <3>1, <3>3
  <2> QED  BY <2>2, <2>4, <2>7
<1>2. LoopInv /\ [Next]_vars
        => [FinishesCycle /\ Serving' # Serving => Justified]_vars
  BY <1>1
<1> QED  BY <1>2, LoopCorrect, PTL DEF Spec, NeverPromotesWorse
==============================================================================
