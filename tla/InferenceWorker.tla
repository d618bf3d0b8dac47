--------------------------- MODULE InferenceWorker ---------------------------
(***************************************************************************)
(* inference/src/worker.py: the HTTP endpoint that transcribes audio with   *)
(* the one model its vLLM engine was started with.                          *)
(*                                                                         *)
(* The engine is external: it may yield any transcript, none, an exception, *)
(* or never come to an end.  A text is the sequence of its words, a word    *)
(* the sequence of its letters, whatever their case.                        *)
(***************************************************************************)
EXTENDS Integers, Sequences, FiniteSets

CONSTANTS
    Requests,         \* HTTP requests to /v1/audio/transcriptions
    Models,           \* model ids
    ServedModel,      \* config.model_name_or_path
    Transcripts,      \* external: what the engine's last output may say
    StubTranscript,   \* transcribe's answer without an engine
    NoModel           \* no X-Model-ID, no model yet

ASSUME WorkerAssumption ==
    IsFiniteSet(Requests) /\ ServedModel \in Models /\ NoModel \notin Models

VARIABLES
    serving,         \* start() is over and uvicorn accepts connections
    engine,          \* vLLM is installed: start() creates the engine
    request,         \* where each request is, the model its X-Model-ID names,
                     \* and the answer's text with the model that produced it
    request_count    \* _request_count

workerVars == <<serving, engine, request, request_count>>

NoRequest == [stage |-> "none", model |-> NoModel, text |-> <<>>, by |-> NoModel]

WorkerInit ==
    /\ serving = FALSE
    /\ engine \in BOOLEAN
    /\ request = [r \in Requests |-> NoRequest]
    /\ request_count = 0

StartWorker ==
    /\ ~serving
    /\ serving' = TRUE
    /\ UNCHANGED <<engine, request, request_count>>

\* transcribe_endpoint up to the await in transcribe: an empty body is
\* answered 400, a hint header int() raises on 500.  X-Model-ID is not read.
Receive(r, model, content) ==
    /\ serving /\ request[r].stage = "none"
    /\ request' = [request EXCEPT ![r].model = model,
           ![r].stage = IF content = "audio" THEN "transcribing" ELSE "failed"]
    /\ UNCHANGED <<serving, engine, request_count>>

\* What transcribe returns: the last output's text, "" if the engine had none.
Answers == IF engine THEN Transcripts \union {<<>>} ELSE {StubTranscript}

Transcribed(r, text) ==
    /\ request[r].stage = "transcribing" /\ text \in Answers
    /\ request' = [request EXCEPT ![r].stage = "answered", ![r].text = text,
                                  ![r].by = ServedModel]
    /\ request_count' = request_count + 1
    /\ UNCHANGED <<serving, engine>>

\* Mutant: transcribe counts in a finally clause.
EngineRaisesCounted(r) ==
    /\ engine /\ request[r].stage = "transcribing"
    /\ request' = [request EXCEPT ![r].stage = "failed"]
    /\ request_count' = request_count + 1
    /\ UNCHANGED <<serving, engine>>

\* An exception of the engine passes transcribe before it counts: status 500.
EngineRaises(r) ==
    /\ engine /\ request[r].stage = "transcribing"
    /\ request' = [request EXCEPT ![r].stage = "failed"]
    /\ UNCHANGED <<serving, engine, request_count>>

------------------------------------------------------------------------------
WorkerTypeOK ==
    /\ serving \in BOOLEAN /\ engine \in BOOLEAN
    /\ \A r \in Requests :
           /\ request[r].stage \in {"none", "transcribing", "failed", "answered"}
           /\ request[r].by = (IF request[r].stage = "answered" THEN ServedModel ELSE NoModel)
    /\ request_count \in Nat

(* requests_total counts the transcripts the worker made, also those whose  *)
(* client has stopped waiting, and nothing that was refused or failed.      *)
CountsTranscribed ==
    request_count = Cardinality({r \in Requests : request[r].stage = "answered"})
==============================================================================
