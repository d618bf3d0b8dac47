# asr-serve: TLA+ models and proofs

This directory holds TLA+ specifications of asr-serve, a low-latency speech
recognition stack: an edge that filters audio packets, a shim that batches
frames, a router that separates prefill from decode, workers that hand KV
caches to each other over NIXL/RDMA, and an agentic tier that measures models
and tunes the routing hints. Paths below are relative to `src/`.

To check everything, run TLC on each module with its configuration and `tlapm`
on each `*Proofs` module:

    tlc -workers 2 -config MCSmartRouter.cfg MCSmartRouter.tla
    tlapm SmartRouterProofs.tla

`PROJECT.json` lists the components, the runs with their properties, a mutant
of the modelled code for each property, the source lines of each definition,
the hazards, the findings and the theorems.

## 1. Inventory

The parts, in the order an audio frame passes them, then the agentic tier.

### XDP prefilter and loader (`vad-edge/src/xdp_vad.c`, `vad_loader.c`)
- State: the maps `xsk_map` and `stats_map` (per CPU); what is attached to the
  interface; the pin `/sys/fs/bpf/vad_xsk_map`.
- Operations: attach in driver or generic mode, pin; per packet: parse, energy
  test, redirect, pass or drop, count; on a signal: detach.
- Hard: the pin survives a restart and names the map of the previous run.
- Correct when: the verdict depends only on headers and energy, every packet
  counts once, the pinned map is the attached program's map.
- Not modelled: see section 6.

### DPDK pipeline with the Wasm VAD (`vad-edge/src/dpdk_pipeline.c`, `wasm/vad_module.wat`)
- State: the mbuf pool, the two NIC rings, the burst in hand, `g_running`,
  three counters.
- Operations: initialise, poll a burst, classify, transmit or free, stop on a
  signal.
- Interacts with the NIC through rings, with the classifier through Wasm memory.
- Hard: a full transmit ring, a signal in the middle of a burst, `trap` read
  uninitialised after a call that succeeded.
- Correct when: no mbuf leaks or is freed twice, only speech leaves and in
  order, the loop neither starves a packet nor survives a signal.
- Module: `VadPipeline`.

### Dynamo shim (`dynamo-orchestration/src/main.rs`)
- State: the ingest task's frame counter and blocked send, the bounded mpsc
  channel, the dispatcher's batch and deadline, the metrics.
- Operations: receive a frame, send into the channel, queue into the batch,
  flush when full or when the deadline passes, shut down.
- Hard: backpressure, the deadline against an arriving frame, `--max-batch 0`,
  tasks dropped at an await in either order.
- Correct when: it is a FIFO relay in bounded batches with bounded waiting.
- Modules: `DynamoShim`, implementing `FrameRelay`.

### Smart Router (`dynamo-orchestration/src/router.py`)
- State: the worker registry (a dict), the in-flight table, `RouterStats`, and the
  request objects it writes into (`phase`, `kv_handle`).
- Operations: register, deregister, report load, mark unhealthy; `route`, which
  awaits a prefill and then a decode RPC.
- Hard: the registry changes during both awaits; two calls share a request id; a
  caller retries an object an earlier attempt left half-way; cancellation.
- Correct when: each dispatch goes to the least-loaded healthy worker of the
  role at that moment, a decode uses the handle of its own prefill, the table
  and the statistics survive every way out.
- Modules: `SmartRouter`, implementing `PDDPipeline`.

### NIXL transfer manager (`dynamo-orchestration/src/nixl_rdma.py`)
- State: the descriptor table, the agent's registered memory, the semaphore, the
  statistics, the eviction loop's dict.
- Operations: start, stop, register_tensor, transfer, evict, the eviction loop.
- Hard: the agent may vanish between queueing and copying; registration and
  deregistration fail half-way; a cancelled waiter may already hold a permit.
- Correct when: permits are conserved and no wake-up is lost, memory is never
  orphaned, each transfer ends.
- Modules: `NixlTransfer`, and `TTLEviction` with the scheduler below.

### Dynamo worker (`dynamo-orchestration/src/dynamo_worker.py`)
- State: its role, `_running`, `_request_count`, its registration, its own manager.
- Operations: start, stop, `handle_request` in either role.
- Hard: registration against the agent's lifecycle; every exception between the
  increment and the decrement; requests that arrive during and after stop.
- Correct when: it is registered only while it can serve, and a handle it
  returned stays good.
- Module: `DynamoWorker`, composed with `NixlTransfer`.

### Inference worker (`inference/src/worker.py`)
- State: whether it serves, the requests under way, `_request_count`.
- Operations: start; a request: refuse it, transcribe it, count it, answer it.
- Interacts with the external vLLM engine, and with HTTP clients that may have
  stopped waiting.
- Hard: an engine that raises or hangs; a request nobody waits for any more.
- Correct when: it counts the transcripts it made, no more and no less.
- Modules: `InferenceWorker`, composed in `AIFactory`.

### Agent hints (`agentic-factory/src/agent_hints.py`)
- `AgentHintsManager`: the active profile, a bounded history, an RLock.
  Hard: threads, re-entrance, an exception with the lock held.
  Correct when: it is an atomic object.
  Modules: `AgentHintsManager`, implementing `HintsStore`.
- `TTLEvictionScheduler`: a deadline and an eviction callback per handle. Hard:
  the deadline and the clock are read before the lock is taken; a handle is
  renewed while `tick` evicts; the entry is popped before the callback runs, so
  nothing is tried again. Correct when: a registered handle is evicted, but
  never before the deadline of its latest registration.
  Module: `TTLEviction`, composed with `NixlTransfer`.

### Evaluation loop (`agentic-factory/src/evaluator.py`)
- State: `_running`, the candidates' `is_active`, `_best_metrics`, the HTTP
  session, the hints it sets.
- Operations: a cycle (measure every candidate, sort, set the hints, perhaps
  promote), stop, promotion on demand.
- Hard: which model serves may change in the middle of a cycle; stored metrics
  are those of an earlier cycle; an exception ends the loop for good.
- Correct when: hints and metrics describe the same measurement, production
  never moves to a worse model, the task ends and closes its session.
- Module: `EvaluationLoop`.
- `ModelEvaluator`: a request per sample with a timeout, the edit distances and
  totals. Hard: a request that timed out is answered later, perhaps while the
  next one is under way. Correct when: each sample is scored by the least number of edits to the
  answer to its own request. Module: `ModelEvaluator`, composed with `InferenceWorker`.

### MCP tools (`agentic-factory/src/mcp_client.py`) and governance agent (`nat_agent.py`)
- State: the factory context (hints table, callbacks), the agent's `_running`.
- Operations: `promote_model`, `evaluate_model`, `set_agent_hint`, read-only tools;
  the agent's observe, reason, act cycle.
- Hard: any await of a cycle may raise, which drops the rest of the cycle's actions;
  an evaluation the agent has given up goes on; another MCP client writes
  the same hints.
- Correct when: a decided hint is set unless setting it fails, and every cycle and, after
  `stop()`, the loop ends.
- Modules: `NATAgent`, composed with the evaluator and its worker in `AIFactory`;
  `promote_model` with its effect is an action of `EvaluationLoop`.

### Go control plane (`agentic-factory/main.go`)
- State: the hints and their history behind an RWMutex.
- Operations: HTTP get and put of the hints, health, a periodic UDP
  broadcast to the shim.
- Hard: a lost or reordered datagram, a broadcast of a profile already replaced.
- Not modelled: see section 6.

### How the parts interact
The edge sends frames as UDP datagrams to the shim; the shim calls the router by
gRPC (a stub in this repository); the router selects workers that registered
themselves and awaits their RPCs (stubs); a prefill worker registers a tensor and
returns a handle, which a decode worker looks up in its own manager before it
awaits the copy; the evaluation loop and the MCP tools write hints through the
hints manager by plain calls. The governance agent calls the MCP tools, whose
`evaluate_model` runs the evaluator, which posts audio to the inference worker
over HTTP. Python components are coroutines on one event loop, with threads only
around the hints manager and the TTL scheduler; the shim is two tokio tasks; the
edge is one polling thread and a signal handler.

## 2. Modules

| Module | Code | Kind |
|---|---|---|
| `PDDPipeline` | what `SmartRouter.route` promises | abstract specification |
| `SmartRouter` | `router.py` | component, implements `PDDPipeline` |
| `FrameRelay` | what the shim promises | abstract specification |
| `DynamoShim` | `main.rs` | component, implements `FrameRelay` |
| `NixlTransfer` | `nixl_rdma.py` | component |
| `DynamoWorker` | `dynamo_worker.py` | component composed with `NixlTransfer` |
| `TTLEviction` | `TTLEvictionScheduler` of `agent_hints.py` | component composed with `NixlTransfer` |
| `HintsStore` | what `AgentHintsManager` promises | abstract specification |
| `AgentHintsManager` | `agent_hints.py` | component, implements `HintsStore` |
| `EvaluationLoop` | `evaluator.py`, `promote_model` of `mcp_client.py` | component |
| `InferenceWorker` | `inference/src/worker.py` | component |
| `ModelEvaluator` | `ModelEvaluator` and `_edit_distance` of `evaluator.py` | component composed with `InferenceWorker` |
| `NATAgent` | `nat_agent.py`, the tools of `mcp_client.py` | component |
| `AIFactory` | agent, evaluator and inference worker together | composition |
| `VadPipeline` | `dpdk_pipeline.c`, `vad_module.wat` | component |
| `SmartRouterProofs`, `DynamoShimProofs`, `AgentHintsProofs` | | theorems |
| `NixlTransferProofs` | | theorems about `NixlTransfer`, alone and under `TTLEviction` |
| `DynamoWorkerProofs` | | theorems, which build on those of `NixlTransferProofs` |
| `EvaluationProofs`, `AIFactoryProofs`, `VadPipelineProofs` | | theorems |
| `MC*` | | constants for TLC |

One convention throughout: **what the program does between two points where
another actor can run is one action.** For asyncio and tokio that point is an
await that really suspends, for the hints manager it is every statement of a
thread, for the pipeline every packet. Operators marked *Mutant* are not part of
any next-state relation; each is a plausible bug that breaks one property.

**SmartRouter.** `workers` is a sequence of endpoints, because the order of a
Python dict decides ties in `min()`; `Register` keeps the position of a key that
is assigned again. A call of `route` is at `pc` "prefill" or "decode" while it
awaits that RPC. `RouteToPrefill` is the code up to the first await,
`PrefillReturns` the code between the awaits (which selects the decode worker in the
registry as it is then, or raises), `DecodeReturns` the rest, `Cancel` a
CancelledError at either await; `Return` is the finally clause. Request objects
are retried with the phase and handle an earlier attempt left in them.

**DynamoShim.** The ingest task is `ReceiveFrame` and `SendUnblocked`; the
dispatcher's `select!` is `QueueFrame`, `DeadlineElapsed` and `ChannelClosed`.
Time is discrete, counts down to the batch deadline and does not run past
an elapsed deadline that the dispatcher has yet to handle. `age` is a history
variable, the wait of the oldest frame of the batch. After ctrl-C the runtime
drops the tasks in either order.

**NixlTransfer.** `asyncio.Semaphore` is modelled with its waiter queue: permits
are handed to woken waiters, who resume later and look at the agent only then.
`TransferAtOnce`, `TransferWaits` and `Resume` are the ways into the body of
`transfer`, `TransferReturns`, `TransferRaises` and `CancelWaiting` the ways out.
`EvictAll` is `evict` for a set of handles; a deregistration that raises leaves
memory behind and is recorded in `warned`.

**TTLEviction.** The scheduler next to the manager whose `evict` it calls. A call
of `register` is two steps: the deadline is computed, then the entry is stored
under the lock. `tick` is three: the clock is read, the lock is taken and the
expired handles are listed, and each is popped and evicted. `tick` and `evict` are
plain functions on the event loop, so no other coroutine comes between these
steps; threads that call `register` do. Time is the set `overdue` of registrations
whose deadline has passed. `before` is a history variable: the registrations of
the handle that had returned when one began. The states with the manager alone are
part of the same run (`wired = FALSE`).

**DynamoWorker.** Every action of the worker conjoins the action of the manager
it calls with the worker's own changes, through an INSTANCE of
`NixlTransfer` with the same variables. The worker's requests are the manager's
handles (prefill) and calls (decode). `Bus` is the message bus that a comment
of the code mentions and the repository does not contain.

**AgentHintsManager.** Each thread makes one call, statement by statement:
acquire, compute the new profile, enter `set_profile` (the lock a second time),
append to the history, trim it, assign, release. A read holds the lock too.
In `HintsStore` the same call is one step.

**EvaluationLoop.** Each `evaluate_model` ends in one step that picks metrics
(WER in hundredths, RTF in thousandths), so that `promote_model` and `stop` can
come between any two; everything after the last await of a cycle is
`FinishCycle`. `set_profile` is one step here, which `AgentHintsManager` justifies.

**InferenceWorker, ModelEvaluator, NATAgent, AIFactory.** The worker holds each
HTTP request from `Receive` to `Transcribed` or `EngineRaises`; the engine may
also never come to an end. `ModelEvaluator` posts a request per sample, waits, and
scores the answer, or the empty text when the request fails or times out; such a
request stays in the worker and may still be answered and counted. A text is a
sequence of words, a word a sequence of letters; `EditDistance` is the code's
table, one row after the other. `NATAgent` is `run()`: observe, decide (the stub
heuristic, or an external language model with any of `Plans`), the tool calls left
in `plan`, sleep. `AIFactory` joins them: evaluations are numbered as they begin
(`begun`) and the agent awaits the latest, so one it no longer waits for runs next to
a later one. What `promote_fn` does is in `EvaluationLoop`.

**VadPipeline.** A packet is the number of its arrival and carries samples;
`vad_classify` is the arithmetic of the Wasm function. The NIC takes an mbuf
for each arrival and frees it after transmission. Reading `trap`
uninitialised has two outcomes besides the intended one: the call seems to
have failed (speech dropped as silence, or initialisation fails) or deleting
it crashes the process.

## 3. Runs

| Run | States | What it checks |
|---|---|---|
| `router` | 136,880 | all of `SmartRouter`'s properties and that it implements `PDDPipeline`, with liveness |
| `shim` | 10,622 | FIFO, bounds, flush deadline, liveness, implements `FrameRelay` |
| `nixl` | 73,146 | permits, statistics, tracked memory, liveness, with the TTL scheduler: no early eviction, no handle left behind |
| `nixl_eviction` | | finding: an expired descriptor is never evicted |
| `worker` | 13,522 | registration, request count, handles, liveness |
| `worker_load` | | finding: load counts failed requests for ever |
| `hints` | 16,098 | the manager implements the atomic store; no call waits for ever |
| `evaluation` | 194,007 | hints follow the winner, no worse promotion, the task ends |
| `evaluation_promotion` | | finding: a large improvement is not promoted |
| `factory` | 153,950 | the worker's count, the evaluator's scores, the agent's hint and the end of every cycle |
| `factory_model` | | finding: a candidate is measured on the model the worker serves |
| `pipeline` | 69,421 | mbufs conserved, speech in order, the loop lives and ends |

Bounds, and why they are enough:
- `router`: two prefill workers (ties, a stale choice, a worker that leaves while
  the other stays) and one decode worker; loads 0 and 90; two objects with the same
  request id, one routed twice, and a third whose priority hint is not a number.
  `MaxAttempts` bounds the retries. A clash needs two objects, a retry two attempts.
- `shim`: capacity 2, batches of 3, a timeout of 3 ticks, nine frames
  (`MaxFrames`): the channel fills, the ingest task blocks, three full batches or
  several partial ones leave.
- `nixl`: four calls for two permits, so that waiting calls queue behind each other and
  a resuming call can hand over to the next, with one handle (`UnwiredHandles`), as
  handles are independent there. With the scheduler: two handles, so that one
  is evicted before the other in a tick, one of them registered twice, and no
  transfers (`WiredCalls`), which the scheduler never touches.
- `worker`: two calls for the same handle and one permit, one call for a handle
  that never arrives, one without a handle, one bad TTL hint.
- `hints`: three calls in every combination of six operations and a history of 2
  (`HistoryCap`, 100 in the code), so that trimming happens.
- `evaluation`: three candidates and four measurements that hit every sort order, a
  tie and an improvement equal to the threshold; the loop itself is unbounded.
- `factory`: two cycles (`MaxCycles`), an evaluation of two samples and one of one, so
  that late answers of a sample and of a whole evaluation meet the next; one
  transcript that against the references costs a substitution or an insertion of a word
  and, with the space moved, no letter; one request of another client; two answers of
  the language model, one of them doing nothing, the other evaluating once, so that the two
  `Evaluations` are enough. The engine, the session and the
  callbacks are there or not in every combination.
- `pipeline`: chunks of five samples, four packets (`MaxFrames`), four mbufs, rings
  and bursts of two: rings fill and the pool runs dry. One of the payloads lies
  exactly on both thresholds.

Deadlock is checked in `router` and `nixl`, where registry and lifecycle keep
moving. The other systems really may stop: their bounded inputs end, or the
program exits.

`DynamoWorker`, `EvaluationLoop`, `NixlTransfer`, `InferenceWorker`,
`ModelEvaluator` and `NATAgent` define a type invariant that no run repeats, as it
is a theorem (`TypeCorrect`, `FactoryTypeCorrect`).

Each property of a passing run has a mutant: a changed definition of the
modelled code (a dropped guard, a missing decrement, a swapped order) under
which TLC finds that property violated.

### Fairness
- asyncio and tokio resume a task whose await is over: weak fairness for each
  action that continues a call. In `SmartRouter` this assumes that the
  worker RPCs answer, as the stubs do; in `NixlTransfer` that the agent answers or fails.
- `select!` picks at random among ready branches, so each branch that stays ready
  is picked.
- Threads of the hints manager: weak fairness for each step. The lock
  is not fair, but each thread makes one call, so a waiting one gets it.
- The pipeline polls on a core of its own: weak fairness for its steps. None for
  the NIC, and no traffic is assumed.
- `TTLEviction`: `run_loop` never ends, deadlines pass, and a thread that waits
  for the scheduler's lock gets it in one of the intervals between ticks (strong
  fairness, since every tick takes it away).
- `AIFactory`: sleeps end, the tools and the observation return unless they raise,
  and so does the language model (no timeout guards these calls in the code); a
  transcription ends at the latest with its 10 s timeout. Nothing is assumed of
  the engine, nor that the worker is ever started.
- Nothing outside is assumed to happen: no frame need arrive, no caller need cancel,
  no signal need come, no worker need register.

## 4. Findings
1. `evaluator.py:142`: the candidate's id is sent as `X-Model-ID`, which
   `worker.py:195-211` never reads: every candidate is measured on the one model served.
2. `nixl_rdma.py:220,229`: the eviction loop only looks at handles with an entry in
   a local dict nobody fills; nothing is ever evicted.
3. `dynamo_worker.py:151-173,200-221`: no try/finally around the count; a failed
   request raises the worker's load for ever.
4. `evaluator.py:252,270`: only winners have stored metrics, so a serving model that
   never won is never replaced, however much better another one is.

Seen while modelling, without a run of their own: `router.py:172-177` returns the
least-loaded worker whatever its load, after a comment that high-priority requests
are only assigned with headroom; `mcp_client.py:180` says that `set_agent_hint`
overrides a hint "attached to inference requests", but nothing attaches the table
it writes; `main.go` says that the shim reads the broadcast hints on a listener
socket, which `main.rs` does not have.

## 5. Proofs

TLC's results are for the instances above. TLAPS proves the following for every
value of the constants that meets the ASSUMEs of the module: roles and loads in
range; finite sets of requests, handles and calls; capacities, timeouts, permits,
pool, ring and burst sizes positive; for the hints that every operation maps
profiles to profiles; for the loop that the candidates are a list without
repetition and that WER and RTF are naturals; for the factory that texts are sequences
of words and words of letters, and that what is evaluated is a model. Every theorem of a specification uses
only its initial states and steps, so it holds under any scheduling.

**SmartRouterProofs.** `RegistryInv` says that the registry is a sequence of
endpoints with distinct ids, each with its configured role. It is inductive on
its own: requests do not write to the registry. `RequestInv` joins the
request properties with what they rest on: that a decode
uses its own handle follows from where the call's RPC was sent (`chosen` is a
registered worker of the role when it is chosen), which the property does
not mention. From these: `RegistryIsKeyed`, `TypeCorrect`, `NoStaleInFlight`,
`TrackedUnlessClash`, `HandleIsOwn`. `StatsCorrect` adds that one step moves one
request, so that the cardinalities in `StatsAddUp` change by at most one.
`Scheduling` proves the action property: `LeastLoaded` is `min()` with the order of the
dict. `RouterRefinesPDD` shows that each step of the router is a step of
`PDDPipeline` or a stutter.

**DynamoShimProofs.** The FIFO property is not inductive in the form in which it
reads well. `Numbering` states it pointwise: the i-th frame of the batch is number
(dispatched + i), the i-th of the channel follows the batch, and so on. `IInv`
joins it with the type, the bounds and `NobodyWaits` (an empty batch has age 0, which
the deadline property needs). Theorems: `TypeCorrect`, `BoundsKept`,
`BatchesCounted`, `WaitBounded`, `FramesInOrder`, and `ShimRefinesRelay`, whose
invariant adds that a task only ends after the signal.

**AgentHintsProofs.** `IInv` says that exactly the owner of the lock is between acquire
and release, how deep its lock is at each statement, and that the profile being
written was computed from the one that is still active: this is what a
lost update would violate. `ManagerImplementsStore`: a write takes effect in
the store when it is appended to the history; from there to its assignment
the refinement mapping takes its profile as the active one.

**NixlTransferProofs.** `PermitsConserved` is not inductive: that a resuming or
leaving call hands its permits to the right calls needs to know that `queue` lists
exactly the waiting calls, each once. `TransferInv` says that, that free permits
and holders add up to `MaxConcurrent`, that nobody waits next to a free permit
unless a woken call is about to run, and what the statistics count. `HandOverEffect`
describes one release of a permit, `MovesCount` how many calls change sides when a
prefix of the queue is woken; each way into and out of `transfer` has a lemma of its
own. `TableInv` is for the other half of the state: registrations,
descriptors and regions in every phase of the lifecycle. The two halves share no
variable but the lifecycle, so `StepParts` splits each step and the halves are
proved apart. Theorems: `ManagerCorrect`, `TypeCorrect`, `PermitsAreConserved`,
`StatsAccountForTransfers`, `RegionsAreTracked`.

The second half of the module is about the scheduler next to the manager.
`SchedulerRefinesManager`: every step of the two together is a step of the manager
or leaves it alone, so what was proved of it alone holds in the composition
(`ComposedManagerSound`). For `EvictionsAreJustified`, `SchedulerInv` relates the three
steps of a tick to the two of a registration: what a tick listed was overdue, an entry
is not replaced between the listing and the eviction (`register` waits for the lock
the tick holds), and no entry is that of a registration which had returned before a
stored one of the same handle began.

**DynamoWorkerProofs.** The worker takes the manager's steps under other guards and
changes the manager's descriptors itself when the bus delivers one, so it does not
implement the manager's specification. The lemmas do carry over, since they are
about single steps: the module instantiates `NixlTransferProofs`, with a scheduler
that has no registrations, as a worker has none, and `WorkerStep` shows
that each of the worker's steps is one of them, a bus delivery or none.
`WorkerInv` adds that a decode worker registers nothing and holds only what the bus
delivered (`RolesKept`), what is registered where in the lifecycle, that
`_request_count` is the number of requests active or failed after being counted
(`CountInv`, by the effect of one request's move on two cardinalities), and
that a request is active exactly while its registration or transfer is
(`RequestsMatch`). Theorems: `WorkerCorrect`, `TypeCorrect`,
`RegistrationIsReady`, `CountIsAccounted`, `ReturnedHandlesStayGood`,
`TranscriptsNeedBus`, `WorkerKeepsManagerSound`.

**EvaluationProofs.** `BestIsFirst`: a non-empty list of measurements has a first
least element in the order by WER, then RTF, then position (`LeastNatural`, from the
well-foundedness of the naturals, three times). `LoopInv`, the types with
`HintsFollowWinner`, is inductive. `PromotionsAreNoWorse` needs no history of
the metrics: whatever made the loop promote, it promotes the winner of the cycle, and
the winner's WER is least. Theorems: `TypeCorrect`, `HintsAreTheWinners`,
`PromotionsAreNoWorse`.

**AIFactoryProofs.** Three things meet in the composition of agent, evaluator and
inference worker.
- *What the table computes.* `EditDistanceIsLeast`: the last entry of `_edit_distance`'s
  table is the least cost of an alignment, for any two sequences. `Least` is that cost
  for prefixes; `NothingAligned`, `LastPlacesAlike` and `LastPlacesDiffer` prove it
  satisfies the recurrence the code fills the table by: an alignment of two sequences
  joins their last places or leaves one of them out (`LastPlaces`), a line more or less
  changes the cost by a known amount (`LineAdded`, `LineRemoved`), and a place less saves
  at most one edit (`OnePlaceLess`), so that joining equal last places is never worse.
  A recursive function is reasoned about without an induction theorem: the table of
  least costs is a witness that the recurrence has a solution, which `CHOOSE` then
  satisfies, and two solutions agree, as there is no least entry in which they differ
  (`LeastNatural`, from the well-foundedness of the naturals). `FlattenSeq` and the loop of
  `execute_actions` (`Decide`) are treated alike.
- *Who awaits what.* `CallsMatch`: the agent awaits only the latest evaluation it began,
  of the model it named, although an earlier one may still run. `RequestsFollow`: the
  samples an evaluation has not come to have no request yet, and the one it awaits carries
  its candidate. Both are needed for any number of evaluations and samples because an
  evaluation the agent gave up and a request that timed out go on.
- *What is counted.* `WorkerInv` counts the answered requests, a cardinality that the one
  counting step changes by one.

`FactoryInv` joins them with the types; TLC agrees with it on the instance of `factory`.
Theorems: `FactoryCorrect`, `FactoryTypeCorrect`, `TranscriptionsAreCounted`,
`EvaluationsMatch`, `SamplesAreScored`, `EditDistanceIsLeast`. Where the run has three
short texts, they hold for texts of any length over any letters.

**VadPipelineProofs.** The order of what was transmitted rests on the order of
everything behind it: `InOrder` says that sent, transmit ring, burst and receive ring
are increasing and precede one another, `Accounts` has the sums. `CutKeeps`,
`SplitCuts` and `AppendKeeps` say what cutting and extending a sequence does to
both. `vad_classify` is never expanded: the result does not depend on the
classifier's arithmetic. Theorems: `PipelineCorrect`, `MbufsAreConserved`,
`SpeechStaysInOrder`.

Only model-checked: all liveness properties (`RouteReturns`, `EveryFrameDispatched`,
`TransferEnds`, `RegisteredHandleLeaves`, `RequestEnds`, `CallEnds`, `StopEnds`,
`DecidedHintIsSet`, `CyclesEnd`, `LoopLives`) and the liveness part of `ImplementsPDD`:
fairness is out of the provers' reach. Every other property of a passing run is a theorem.

## 6. Not modelled
- Configuration files and their loading, logging, metrics registration, headers and
  wording.
- The router's gRPC and worker RPC stubs beyond their answer, the vLLM engine, packet rewriting.
- `RouterStats` keeps latencies for ever; the model keeps the lengths of the lists.
  `evaluate_model`'s RTF and latency averages and `_actions_taken` are left out.
- `set_energy_threshold` and `set_zcr_threshold` of the Wasm module: nobody calls them.
- The thread behind `asyncio.to_thread`, which goes on copying when its transfer
  is cancelled; the model follows the permits.
- The language model's attachment (`NATAgent._agent`): no code assigns it.
- `ctx.candidates`, `metrics_store` and `cluster_load` of the factory context: no
  code outside of the CLI writes them; `list_models`, `get_metrics` and `get_cluster_status` only read.
- The Go control plane: a profile behind one read-write lock and a periodic
  datagram that nothing in the repository receives. Its store is `HintsStore` by the shape of the code.
- The XDP prefilter, a stateless verdict per packet, and its loader, whose state
  (attachment, pin) is the kernel's: it calls libbpf in order and checks each result.
- Deployment configuration: static.

## 7. Plan

Every safety property, action property and refinement a run checks is a theorem, apart
from liveness (section 5). A composition of `SmartRouter` with two `DynamoWorker`s, so
that the answer of the prefill RPC and the decode worker's lookup meet, is the one
composition left.
