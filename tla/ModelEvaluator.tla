---------------------------- MODULE ModelEvaluator ----------------------------
(***************************************************************************)
(* agentic-factory/src/evaluator.py: ModelEvaluator.evaluate_model, which    *)
(* has a candidate transcribe each sample and adds up the word and letter    *)
(* errors, composed over HTTP with the InferenceWorker it asks.              *)
(*                                                                         *)
(* A request that timed out after its 10 s goes on in the worker.           *)
(***************************************************************************)
EXTENDS InferenceWorker, FiniteSetsExt, SequencesExt

CONSTANTS
    Evaluations,   \* calls of evaluate_model
    Samples,       \* the reference texts of the samples each call is given
    HelloWorld     \* what the stub client transcribes

\* One request for each sample of each call.
SampleRequests == UNION {{e} \X (DOMAIN Samples[e]) : e \in Evaluations}

References == UNION {{Samples[e][i] : i \in DOMAIN Samples[e]} : e \in Evaluations}
Hypotheses == Transcripts \union {<<>>, StubTranscript, HelloWorld}
Letters == UNION {ToSet(word) : word \in UNION {ToSet(text) : text \in References \union Hypotheses}}

ASSUME EvaluatorAssumption ==
    /\ SampleRequests \subseteq Requests
    /\ \A e \in Evaluations : Samples[e] \in Seq(References)
    /\ References \union Hypotheses \subseteq Seq(Seq(Letters))

VARIABLES
    session,       \* the aiohttp session is open; without it a stub transcribes
    evaluation     \* where each call is, its candidate, how many samples it has
                   \* scored, and its four totals

evaluatorVars == <<session, evaluation>>

Zero == [wer_errors |-> 0, words |-> 0, cer_errors |-> 0, chars |-> 0]

EvaluatorInit ==
    /\ session \in BOOLEAN
    /\ evaluation = [e \in Evaluations |->
           [stage |-> "none", model |-> NoModel, scored |-> 0, totals |-> Zero]]

------------------------------------------------------------------------------
(* The arithmetic of the metrics *)

\* Mutant: the cheaper of deleting and inserting, but never substituting.
EditDistanceNoSubstitution(a, b) ==
    LET dp[p \in (0..Len(a)) \X (0..Len(b))] ==
            LET i == p[1]
                j == p[2]
            IN  IF i = 0 \/ j = 0 THEN i + j
                ELSE IF a[i] = b[j] THEN dp[<<i - 1, j - 1>>]
                ELSE 1 + Min({dp[<<i - 1, j>>], dp[<<i, j - 1>>]})
    IN  dp[<<Len(a), Len(b)>>]

\* _edit_distance; dp[<<i, j>>] is the j-th entry of the row after the i-th pass.
EditDistance(a, b) ==
    LET dp[p \in (0..Len(a)) \X (0..Len(b))] ==
            LET i == p[1]
                j == p[2]
            IN  IF i = 0 \/ j = 0 THEN i + j
                ELSE IF a[i] = b[j] THEN dp[<<i - 1, j - 1>>]
                ELSE 1 + Min({dp[<<i - 1, j>>], dp[<<i, j - 1>>], dp[<<i - 1, j - 1>>]})
    IN  dp[<<Len(a), Len(b)>>]

\* The letters of a text without its spaces.
Chars(text) == FlattenSeq(text)

\* _wer_components and _cer_components, added to the totals.
AddErrors(t, ref, hyp) ==
    [wer_errors |-> t.wer_errors + EditDistance(ref, hyp),
     words      |-> t.words + Max({Len(ref), 1}),
     cer_errors |-> t.cer_errors + EditDistance(Chars(ref), Chars(hyp)),
     chars      |-> t.chars + Max({Len(Chars(ref)), 1})]

------------------------------------------------------------------------------
(* evaluate_model and transcribe *)

BeginEvaluation(e, model) ==
    /\ evaluation[e].stage = "none"
    /\ evaluation' = [evaluation EXCEPT ![e].model = model,
           ![e].stage = IF Samples[e] = <<>> THEN "done" ELSE "next"]
    /\ UNCHANGED session

\* The request for the sample in turn, and what is left of e after its answer.
Sample(e) == evaluation[e].scored + 1
Current(e) == <<e, Sample(e)>>

Score(e, hyp) ==
    /\ evaluation' = [evaluation EXCEPT
           ![e].stage = IF Sample(e) = Len(Samples[e]) THEN "done" ELSE "next",
           ![e].scored = Sample(e),
           ![e].totals = AddErrors(@, Samples[e][Sample(e)], hyp)]
    /\ UNCHANGED session

StubTranscribes(e) ==
    /\ evaluation[e].stage = "next" /\ ~session
    /\ Score(e, HelloWorld)
    /\ UNCHANGED workerVars

Post(e) ==
    /\ evaluation[e].stage = "next" /\ session
    /\ Receive(Current(e), evaluation[e].model, "audio")
    /\ evaluation' = [evaluation EXCEPT ![e].stage = "waiting"]
    /\ UNCHANGED session

\* The answer is read once, and its text with it.
AnswerArrives(e) ==
    /\ evaluation[e].stage = "waiting" /\ request[Current(e)].stage = "answered"
    /\ Score(e, request[Current(e)].text)
    /\ request' = [request EXCEPT ![Current(e)].text = <<>>]
    /\ UNCHANGED <<serving, engine, request_count>>

\* Mutant: the request has no timeout.
FailsWithoutTimeout(e) ==
    /\ \/ evaluation[e].stage = "next" /\ session /\ ~serving
       \/ evaluation[e].stage = "waiting" /\ request[Current(e)].stage = "failed"
    /\ Score(e, <<>>)
    /\ UNCHANGED workerVars

\* Anything transcribe catches: a refused or lost connection, a status that
\* raise_for_status raises on, the timeout.  The sample counts as untranscribed.
TranscriptionFails(e) ==
    /\ \/ evaluation[e].stage = "next" /\ session
       \/ evaluation[e].stage = "waiting"
    /\ Score(e, <<>>)
    /\ UNCHANGED workerVars

\* evaluate_model returns the metrics made of the totals.
MetricsReturned(e) ==
    /\ evaluation[e].stage = "done"
    /\ evaluation' = [evaluation EXCEPT ![e].stage = "returned", ![e].totals = Zero]
    /\ UNCHANGED session

\* The await in transcribe is over, at the latest after its timeout.
TranscribeStep(e) ==
    StubTranscribes(e) \/ Post(e) \/ AnswerArrives(e) \/ TranscriptionFails(e)

------------------------------------------------------------------------------
EvaluatorTypeOK ==
    /\ session \in BOOLEAN
    /\ \A e \in Evaluations :
           /\ evaluation[e].stage \in {"none", "next", "waiting", "done", "returned"}
           /\ evaluation[e].model \in Models \union {NoModel}
           /\ evaluation[e].scored \in 0..Len(Samples[e])
           /\ \A n \in {evaluation[e].totals[f] : f \in DOMAIN Zero} : n \in Nat

\* The alignments of a and b: which positions face each other, in order.
Alignments(a, b) ==
    {m \in SUBSET ((DOMAIN a) \X (DOMAIN b)) :
        \A p, q \in m : (p[1] < q[1]) = (p[2] < q[2])}

\* The least number of edits: what faces nothing is deleted or inserted, what
\* faces something else is substituted.
LeastEdits(a, b) ==
    Min({Len(a) + Len(b) - 2 * Cardinality(m)
            + Cardinality({p \in m : a[p[1]] # b[p[2]]}) : m \in Alignments(a, b)})

LeastWordEdits == [p \in References \X Hypotheses |-> LeastEdits(p[1], p[2])]

LeastCharEdits ==
    [p \in References \X Hypotheses |-> LeastEdits(Chars(p[1]), Chars(p[2]))]

(* Each sample adds to an evaluation's totals the least number of word and  *)
(* letter edits between its reference and the text its own request was      *)
(* answered with, or the empty text if that failed, whatever requests that  *)
(* timed out earlier are answered meanwhile; and at least one word and one  *)
(* letter, so that no total is divided by zero.                             *)
ScoresAreLeastEdits ==
    [][\A e \in Evaluations : evaluation'[e].scored # evaluation[e].scored =>
          \E hyp \in Hypotheses :
              LET ref == Samples[e][Sample(e)]
                  t == evaluation[e].totals
                  u == evaluation'[e].totals
              IN  /\ hyp \in {<<>>, IF session THEN request[Current(e)].text ELSE HelloWorld}
                  /\ u.wer_errors - t.wer_errors = LeastWordEdits[<<ref, hyp>>]
                  /\ u.cer_errors - t.cer_errors = LeastCharEdits[<<ref, hyp>>]
                  /\ u.words - t.words = Max({Len(ref), 1})
                  /\ u.chars - t.chars = Max({Len(Chars(ref)), 1})
      ]_<<workerVars, evaluatorVars>>

(* transcribe: "Transcribe audio with *model_id* and return (transcript,    *)
(* latency_ms)."                                                            *)
TranscribedWithModel ==
    \A e \in Evaluations :
        evaluation[e].stage = "waiting" /\ request[Current(e)].stage = "answered" =>
            request[Current(e)].by = evaluation[e].model
==============================================================================
