---------------------------- MODULE EvaluationLoop ----------------------------
(***************************************************************************)
(* agentic-factory/src/evaluator.py: the evaluation loop, which measures    *)
(* every candidate model in turn, makes the best one the subject of the     *)
(* agent hints and may promote it, while the MCP tool promote_model         *)
(* (mcp_client.py) promotes on demand whenever the loop awaits.             *)
(*                                                                         *)
(* WER is in hundredths and RTF in thousandths.  set_profile is one step    *)
(* here: AgentHintsManager is shown to be atomic in its own module.         *)
(***************************************************************************)
EXTENDS Integers, Sequences

CONSTANTS
    Candidates,   \* the candidates' model ids, in order; the first one serves
    Metrics,      \* what evaluate_model may measure: wer and rtf
    Threshold,    \* wer_promote_thresh
    Requested,    \* the ids promote_model may be asked for
    None

Models == {Candidates[i] : i \in DOMAIN Candidates}

ASSUME LoopAssumption ==
    /\ Candidates \in Seq(Models) /\ Candidates # <<>>
    /\ \A i, j \in DOMAIN Candidates : Candidates[i] = Candidates[j] => i = j
    /\ Threshold \in Nat
    /\ \A m \in Metrics : m.wer \in Nat /\ m.rtf \in Nat
    /\ None \notin Metrics

VARIABLES
    session,        \* the evaluator's HTTP session, if aiohttp is installed
    pc,             \* where the task that runs the loop is
    running,        \* _running
    results,        \* the metrics of the cycle in progress, in candidate order
    is_active,      \* the candidates' is_active
    best_metrics,   \* _best_metrics
    hints           \* the active profile of the AgentHintsManager

vars == <<session, pc, running, results, is_active, best_metrics, hints>>

Init ==
    /\ session = "none"
    /\ pc = "new"
    /\ running = FALSE
    /\ results = <<>>
    /\ is_active = [m \in Models |-> m = Candidates[1]]
    /\ best_metrics = [m \in Models |-> None]
    /\ hints = [model_id |-> Candidates[1], priority |-> 5, kv_ttl_ms |-> 500]

------------------------------------------------------------------------------
\* _wer_to_priority and _rtf_to_kv_ttl_ms.
Priority(wer) ==
    CASE wer < 5 -> 9 [] wer \in 5..9 -> 7 [] wer \in 10..19 -> 5 [] wer >= 20 -> 3

KvTtl(rtf) == CASE rtf < 10 -> 200 [] rtf \in 10..49 -> 350 [] rtf >= 50 -> 500

Profile(model, m) ==
    [model_id |-> model, priority |-> Priority(m.wer), kv_ttl_ms |-> KvTtl(m.rtf)]

\* m sorts before n by its key (wer, rtf).
Before(m, n) == m.wer < n.wer \/ (m.wer = n.wer /\ m.rtf < n.rtf)

\* Mutant: the key is (rtf, wer).
FastestOf(ms) == CHOOSE i \in DOMAIN ms : \A j \in DOMAIN ms : ms[i].rtf <= ms[j].rtf

\* Where the first of the sorted results was: the sort is stable.
BestOf(ms) ==
    CHOOSE i \in DOMAIN ms :
        /\ \A j \in DOMAIN ms : ~Before(ms[j], ms[i])
        /\ \A j \in 1..(i - 1) : Before(ms[i], ms[j])

\* _promote: the named candidate serves and no other; nobody if it is unknown.
Promote(id) == is_active' = [m \in Models |-> m = id]

------------------------------------------------------------------------------
(* The loop *)

\* evaluator.start(), then run() up to its loop.
Start ==
    /\ pc = "new"
    /\ session' \in {"none", "open"}
    /\ pc' = "loop"
    /\ running' = TRUE
    /\ UNCHANGED <<results, is_active, best_metrics, hints>>

\* A new cycle is given its samples.  Without any it is over.
BeginCycle ==
    /\ pc = "loop"
    /\ results' = <<>>
    /\ pc' \in {"evaluating", "sleeping"}
    /\ UNCHANGED <<session, running, is_active, best_metrics, hints>>

\* evaluate_model for the next candidate.  The stub transcribes perfectly; a
\* failed request counts as an empty transcript, with the WER that gives.
Evaluate ==
    /\ pc = "evaluating" /\ Len(results) < Len(Candidates)
    /\ \E m \in Metrics :
           /\ session = "none" => m.wer = 0
           /\ results' = Append(results, m)
    /\ UNCHANGED <<session, pc, running, is_active, best_metrics, hints>>

\* An answer whose text is no string fails outside of transcribe's try, and
\* nothing up to asyncio.run catches it.
EvaluateRaises ==
    /\ pc = "evaluating" /\ Len(results) < Len(Candidates)
    /\ session = "open"
    /\ pc' = "leaving"
    /\ UNCHANGED <<session, running, results, is_active, best_metrics, hints>>

\* Mutant: the hints are computed from the first result, not the best.
HintFromFirst ==
    /\ pc = "evaluating" /\ Len(results) = Len(Candidates)
    /\ LET i == BestOf(results)
           best == Candidates[i]
       IN  /\ best_metrics' = [best_metrics EXCEPT ![best] = results[i]]
           /\ hints' = Profile(best, results[1])
    /\ pc' = "sleeping"
    /\ UNCHANGED <<session, running, results, is_active>>

\* The rest of _eval_cycle, with no await in it: the winner's metrics are
\* stored and become the hints, and it is promoted if it beats the metrics
\* stored for the model that serves, which date from when that model last won.
FinishCycle ==
    /\ pc = "evaluating" /\ Len(results) = Len(Candidates)
    /\ LET i == BestOf(results)
           best == Candidates[i]
           Beaten(m) == /\ is_active[m] /\ m # best
                        /\ best_metrics[m] # None
                        /\ best_metrics[m].wer - results[i].wer > Threshold
       IN  /\ best_metrics' = [best_metrics EXCEPT ![best] = results[i]]
           /\ hints' = Profile(best, results[i])
           /\ IF \E m \in Models : Beaten(m) THEN Promote(best) ELSE UNCHANGED is_active
    /\ pc' = "sleeping"
    /\ UNCHANGED <<session, running, results>>

\* Mutant: run() does not look at _running again.
WakeAlways ==
    /\ pc = "sleeping"
    /\ pc' = "loop"
    /\ UNCHANGED <<session, running, results, is_active, best_metrics, hints>>

\* The interval is over; run() returns after a stop().
Wake ==
    /\ pc = "sleeping"
    /\ pc' = IF running THEN "loop" ELSE "leaving"
    /\ UNCHANGED <<session, running, results, is_active, best_metrics, hints>>

\* _main's finally closes the session, whether run() returned or raised.
End ==
    /\ pc = "leaving"
    /\ session' = IF session = "open" THEN "closed" ELSE session
    /\ pc' = "ended"
    /\ UNCHANGED <<running, results, is_active, best_metrics, hints>>

------------------------------------------------------------------------------
(* What other tasks may do while the loop awaits *)

Stop ==
    /\ pc \in {"evaluating", "sleeping"} /\ running
    /\ running' = FALSE
    /\ UNCHANGED <<session, pc, results, is_active, best_metrics, hints>>

\* The MCP tool promote_model calls promote_fn.
PromoteOnDemand(id) ==
    /\ pc \in {"evaluating", "sleeping"}
    /\ Promote(id)
    /\ UNCHANGED <<session, pc, running, results, best_metrics, hints>>

LoopStep ==
    \/ Start \/ BeginCycle
    \/ Evaluate \/ EvaluateRaises \/ FinishCycle
    \/ Wake \/ End

Next == LoopStep \/ Stop \/ \E id \in Requested : PromoteOnDemand(id)

\* The event loop runs the task when its await is over: sleeps end, and every
\* request does within its timeout.
Fairness == WF_vars(LoopStep)

Spec == Init /\ [][Next]_vars /\ Fairness

------------------------------------------------------------------------------
Serving == {m \in Models : is_active[m]}

TypeOK ==
    /\ session \in {"none", "open", "closed"}
    /\ pc \in {"new", "loop", "evaluating", "sleeping", "leaving", "ended"}
    /\ running \in BOOLEAN
    /\ results \in Seq(Metrics) /\ Len(results) <= Len(Candidates)
    /\ is_active \in [Models -> BOOLEAN]
    /\ best_metrics \in [Models -> Metrics \union {None}]
    /\ hints \in [model_id : Models, priority : {3, 5, 7, 9}, kv_ttl_ms : {200, 350, 500}]
    /\ pc = "ended" => session # "open"

(* The hints attached to requests and the stored metrics are two records of *)
(* one measurement: they describe the same model by the same numbers.       *)
HintsFollowWinner ==
    \/ /\ \A m \in Models : best_metrics[m] = None
       /\ hints = [model_id |-> Candidates[1], priority |-> 5, kv_ttl_ms |-> 500]
    \/ /\ best_metrics[hints.model_id] # None
       /\ hints = Profile(hints.model_id, best_metrics[hints.model_id])

\* The WER of a model in the cycle in progress.
WerNow(m) == results[CHOOSE i \in DOMAIN Candidates : Candidates[i] = m].wer

FinishesCycle == pc = "evaluating" /\ pc' = "sleeping" /\ Len(results) = Len(Candidates)

(* The loop takes the model that serves out of production only for one that *)
(* this cycle's measurement does not rank behind it, also when promote_model *)
(* changed which one serves in the middle of the cycle; and then exactly    *)
(* the new one serves.                                                      *)
NeverPromotesWorse ==
    [][FinishesCycle /\ Serving' # Serving =>
          /\ \E m \in Models : Serving' = {m} /\ \A a \in Serving : WerNow(m) <= WerNow(a)
      ]_vars

(* After stop(), or an exception in a cycle, the task ends and the HTTP     *)
(* session is closed.                                                       *)
StopEnds == (pc # "new" /\ ~running) \/ pc = "leaving" ~> pc = "ended" /\ session # "open"

(* "Trigger model promotion if WER improvement exceeds threshold."           *)
PromotesImprovement ==
    [][FinishesCycle =>
          LET best == BestOf(results)
          IN  (\E a \in Serving : WerNow(a) - results[best].wer > Threshold) =>
                  is_active'[Candidates[best]]
      ]_vars
==============================================================================
