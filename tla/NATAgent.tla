------------------------------- MODULE NATAgent -------------------------------
(***************************************************************************)
(* agentic-factory/src/nat_agent.py: the governance agent's observe, reason, *)
(* act loop, which carries out its decisions through the tools of            *)
(* mcp_client.py, next to another MCP client that uses the same tools.       *)
(*                                                                         *)
(* observation_fn, the transport behind mcp_call and the callbacks of the    *)
(* FactoryContext are external: each call returns or raises.  So is the      *)
(* language model; no code of the repository attaches one (_agent), and      *)
(* without it the stub heuristic decides.  What promote_fn does is modelled  *)
(* in EvaluationLoop.                                                        *)
(***************************************************************************)
EXTENDS Integers, Sequences

CONSTANTS
    Candidates,  \* the models an observation may list
    Plans,       \* external: the action lists a language model may answer with
    Hints,       \* kv_ttl_ms values another client may set
    MaxCycles,   \* bound: the cycles explored
    None

Tools == {"set_hint", "evaluate", "promote"}

Actions == [type : Tools \union {"noop", "other"}, arg : Candidates \union Nat \union {None}]

ASSUME AgentAssumption ==
    /\ MaxCycles \in Nat \ {0} /\ None \notin Candidates \union Nat /\ Hints \subseteq Nat
    /\ Plans \subseteq Seq(Actions)

VARIABLES
    reasoner,      \* "stub", or "llm" with _agent attached
    wired,         \* the evaluator set evaluate_fn and promote_fn
    pc,            \* where run() is
    running,       \* _running
    cycle,         \* _cycle_count
    plan,          \* the tool calls this cycle has yet to finish
    error,         \* the logged error of this cycle: what raised it
    agent_hints    \* kv_ttl_ms in the FactoryContext's agent_hints

agentVars == <<reasoner, wired, pc, running, cycle, plan, error, agent_hints>>

AgentInit ==
    /\ reasoner \in {"stub", "llm"} /\ wired \in BOOLEAN
    /\ pc = "new" /\ running = FALSE /\ cycle = 0
    /\ plan = <<>> /\ error = None
    /\ agent_hints = None

------------------------------------------------------------------------------
(* run, reason *)

BeginRun ==
    /\ pc = "new"
    /\ pc' = "observing" /\ running' = TRUE /\ cycle' = 1
    /\ UNCHANGED <<reasoner, wired, plan, error, agent_hints>>

\* The cycle goes on with these calls, or to its sleep.
GoOn(calls) ==
    /\ plan' = calls
    /\ pc' = IF calls = <<>> THEN "sleeping" ELSE "acting"

\* A noop and an action of an unknown type are recorded and skipped.
Decide(actions) ==
    LET calls[i \in 0..Len(actions)] ==
            IF i = 0 THEN <<>>
            ELSE IF actions[i].type \in Tools THEN Append(calls[i - 1], actions[i])
            ELSE calls[i - 1]
    IN  GoOn(calls[Len(actions)])

\* Mutant: the evaluation comes before the hint.
EvaluateFirst(hot, high_wer, candidate) ==
    (IF high_wer /\ candidate # None THEN <<[type |-> "evaluate", arg |-> candidate]>> ELSE <<>>)
    \o (IF hot THEN <<[type |-> "set_hint", arg |-> 750]>> ELSE <<>>)

\* _stub_reason; candidate is the first one observed not to be active.
StubPlan(hot, high_wer, candidate) ==
    (IF hot THEN <<[type |-> "set_hint", arg |-> 750]>> ELSE <<>>)
    \o (IF high_wer /\ candidate # None THEN <<[type |-> "evaluate", arg |-> candidate]>> ELSE <<>>)

\* observation_fn returns; the stub decides at once.
Observe ==
    /\ pc = "observing"
    /\ \/ /\ reasoner = "stub"
          /\ \E hot, high_wer \in BOOLEAN, c \in Candidates \union {None} :
                 Decide(StubPlan(hot, high_wer, c))
       \/ reasoner = "llm" /\ pc' = "reasoning" /\ UNCHANGED plan
    /\ UNCHANGED <<reasoner, wired, running, cycle, error, agent_hints>>

\* _parse_actions makes a noop of an answer that is no JSON.
ModelAnswers ==
    /\ pc = "reasoning"
    /\ \E actions \in Plans \union {<<>>} : Decide(actions)
    /\ UNCHANGED <<reasoner, wired, running, cycle, error, agent_hints>>

\* observation_fn or the language model fails, or answers JSON of another shape.
ReasonRaises ==
    /\ pc \in {"observing", "reasoning"}
    /\ pc' = "sleeping" /\ error' = pc
    /\ UNCHANGED <<reasoner, wired, running, cycle, plan, agent_hints>>

\* The interval is over: another cycle, or run() returns after a stop().
Wake ==
    /\ pc = "sleeping" /\ (running => cycle < MaxCycles)
    /\ pc' = IF running THEN "observing" ELSE "ended"
    /\ cycle' = IF running THEN cycle + 1 ELSE cycle
    /\ error' = None
    /\ UNCHANGED <<reasoner, wired, running, plan, agent_hints>>

StopAgent ==
    /\ pc # "new" /\ running
    /\ running' = FALSE
    /\ UNCHANGED <<reasoner, wired, pc, cycle, plan, error, agent_hints>>

------------------------------------------------------------------------------
(* execute_actions and the tools *)

Calls(type) == pc = "acting" /\ Head(plan).type = type

\* The key or the model id is there; without it a tool answers "ERROR: ...".
HasArgument == Head(plan).arg # None

\* set_agent_hint writes the context's table and nothing else.
SetHint ==
    /\ Calls("set_hint") /\ HasArgument
    /\ agent_hints' = Head(plan).arg
    /\ GoOn(Tail(plan))
    /\ UNCHANGED <<reasoner, wired, running, cycle, error>>

\* promote_model, evaluate_model without an evaluate_fn, and any tool's error.
CallReturns ==
    /\ pc = "acting"
    /\ Calls("promote") \/ (Calls("evaluate") /\ ~wired) \/ ~HasArgument
    /\ GoOn(Tail(plan))
    /\ UNCHANGED <<reasoner, wired, running, cycle, error, agent_hints>>

\* evaluate_model up to its await of evaluate_fn(model_id).
CallEvaluate ==
    /\ Calls("evaluate") /\ wired /\ HasArgument
    /\ pc' = "evaluating"
    /\ UNCHANGED <<reasoner, wired, running, cycle, plan, error, agent_hints>>

EvaluateReturns ==
    /\ pc = "evaluating"
    /\ GoOn(Tail(plan))
    /\ UNCHANGED <<reasoner, wired, running, cycle, error, agent_hints>>

\* A tool call raises, before or after its effect (the transport, a callback,
\* a metric that is missing and cannot be formatted): run() catches it and
\* the rest of the cycle's actions are dropped.
ToolRaises ==
    /\ pc \in {"acting", "evaluating"}
    /\ plan' = <<>> /\ error' = Head(plan).type
    /\ pc' = "sleeping"
    /\ agent_hints' \in {agent_hints} \union
           (IF Calls("set_hint") /\ HasArgument THEN {Head(plan).arg} ELSE {})
    /\ UNCHANGED <<reasoner, wired, running, cycle>>

\* set_agent_hint of the other client.
OtherSetsHint(v) ==
    /\ agent_hints' = v
    /\ UNCHANGED <<reasoner, wired, pc, running, cycle, plan, error>>

------------------------------------------------------------------------------
AgentTypeOK ==
    /\ pc \in {"new", "observing", "reasoning", "acting", "evaluating", "sleeping", "ended"}
    /\ running \in BOOLEAN /\ cycle \in 0..MaxCycles
    /\ pc \in {"acting", "evaluating"} <=> plan # <<>>
    /\ error \in Tools \union {"observing", "reasoning", None}

(* In a hot cluster the stub's longer TTL reaches the hint table although   *)
(* its evaluation may fail or never get an answer, and although another      *)
(* client writes the same entry: only an exception of set_agent_hint itself *)
(* can keep it from it.                                                     *)
DecidedHintIsSet ==
    reasoner = "stub" /\ pc = "acting" /\ (\E i \in DOMAIN plan : plan[i].type = "set_hint")
        ~> agent_hints = 750 \/ error = "set_hint"

(* Every cycle ends, whatever raises in it, and after stop() the loop does. *)
CyclesEnd ==
    /\ pc \in {"observing", "reasoning", "acting", "evaluating"} ~> pc \in {"sleeping", "ended"}
    /\ pc # "new" /\ ~running ~> pc = "ended"
==============================================================================
