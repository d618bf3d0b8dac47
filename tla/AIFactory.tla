------------------------------ MODULE AIFactory ------------------------------
(***************************************************************************)
(* On-demand evaluation from end to end: the governance agent (NATAgent)    *)
(* calls the tool evaluate_model, whose evaluate_fn is evaluate_model of the *)
(* ModelEvaluator, which posts each sample to the InferenceWorker.  An       *)
(* evaluation the agent no longer waits for goes on next to that of a later  *)
(* cycle, and other HTTP clients share the worker.                           *)
(***************************************************************************)
EXTENDS NATAgent, ModelEvaluator

CONSTANT Contents   \* external: what other HTTP clients post

\* What evaluate_model is called with is a model id.
ASSUME FactoryAssumption ==
    /\ Candidates \subseteq Models /\ Evaluations \subseteq Nat \ {0}
    /\ \A p \in Plans : \A i \in DOMAIN p :
           p[i].type = "evaluate" => p[i].arg \in Models \union {None}

VARIABLE begun   \* how many evaluations the agent has begun

factoryVars == <<agentVars, evaluatorVars, workerVars, begun>>

Init == AgentInit /\ EvaluatorInit /\ WorkerInit /\ begun = 0

------------------------------------------------------------------------------
\* The agent alone.
AgentStep ==
    /\ \/ BeginRun \/ Observe \/ ModelAnswers \/ ReasonRaises \/ Wake
       \/ SetHint \/ CallReturns
    /\ UNCHANGED <<evaluatorVars, workerVars, begun>>

AgentToolRaises == ToolRaises /\ UNCHANGED <<evaluatorVars, workerVars, begun>>

\* Evaluations have numbers, in the order they begin.  Bound: those in Evaluations.
AgentEvaluates ==
    /\ CallEvaluate
    /\ begun + 1 \in Evaluations /\ begun' = begun + 1
    /\ BeginEvaluation(begun + 1, Head(plan).arg)
    /\ UNCHANGED workerVars

\* The agent awaits the latest of its evaluations only.
AgentGetsMetrics ==
    /\ EvaluateReturns
    /\ MetricsReturned(begun)
    /\ UNCHANGED <<workerVars, begun>>

EvaluatorStep(e) == TranscribeStep(e) /\ UNCHANGED <<agentVars, begun>>

\* Nobody reads the text of an answer that is not awaited: any stands for all.
Awaited(r) ==
    \E e \in Evaluations : evaluation[e].stage = "waiting" /\ r = Current(e)

WorkerTranscribes(r) ==
    /\ \E text \in IF Awaited(r) THEN Answers ELSE {CHOOSE t \in Answers : TRUE} :
           Transcribed(r, text)
    /\ UNCHANGED <<agentVars, evaluatorVars, begun>>

WorkerStep(r) ==
    \/ WorkerTranscribes(r)
    \/ EngineRaises(r) /\ UNCHANGED <<agentVars, evaluatorVars, begun>>

\* Others: the worker's start, other HTTP clients, the other MCP client, stop().
OtherStep ==
    \/ StartWorker /\ UNCHANGED <<agentVars, evaluatorVars, begun>>
    \/ /\ \E r \in Requests \ SampleRequests, content \in Contents :
              Receive(r, NoModel, content)
       /\ UNCHANGED <<agentVars, evaluatorVars, begun>>
    \/ /\ (\E v \in Hints : OtherSetsHint(v)) \/ StopAgent
       /\ UNCHANGED <<evaluatorVars, workerVars, begun>>

Next ==
    \/ AgentStep \/ AgentToolRaises \/ AgentEvaluates \/ AgentGetsMetrics
    \/ \E e \in Evaluations : EvaluatorStep(e)
    \/ \E r \in Requests : WorkerStep(r)
    \/ OtherStep

\* What the agent awaits returns unless it raises, sleeps end, and so does the
\* await of a transcription, at the latest after its timeout.  Nothing is assumed
\* of the engine, which may hang, nor of the worker's start.
Fairness ==
    /\ WF_factoryVars(AgentStep) /\ WF_factoryVars(AgentEvaluates)
    /\ WF_factoryVars(AgentGetsMetrics)
    /\ \A e \in Evaluations : WF_factoryVars(EvaluatorStep(e))

Spec == Init /\ [][Next]_factoryVars /\ Fairness
==============================================================================
