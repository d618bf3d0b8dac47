------------------------------ MODULE DynamoShim ------------------------------
(***************************************************************************)
(* dynamo-orchestration/src/main.rs: the shim between the VAD edge and the *)
(* router.  An ingest task reads UDP frames and sends them over a bounded  *)
(* mpsc channel; a dispatcher task collects them into batches, which leave *)
(* when full or when a deadline passes.  The two tasks interleave at their *)
(* awaits; the router's gRPC endpoint is a stub, so dispatching a batch is *)
(* part of the step that decides it.                                       *)
(*                                                                         *)
(* A frame is its request number (frame_counter).  Time is counted in      *)
(* ticks of the batch deadline, and does not pass while the dispatcher has *)
(* an elapsed deadline to handle.                                          *)
(***************************************************************************)
EXTENDS Integers, Sequences

CONSTANTS
    Capacity,       \* of the mpsc channel
    MaxBatch,       \* --max-batch (the CLI accepts 0)
    BatchTimeout,   \* --batch-timeout-ms, in ticks
    MaxFrames       \* bound: frames received in a behaviour

ASSUME ShimAssumption ==
    /\ Capacity \in Nat \ {0}
    /\ MaxBatch \in Nat
    /\ BatchTimeout \in Nat \ {0}
    /\ MaxFrames \in Nat

VARIABLES
    ingest,         \* "receiving", "sending" (awaits a free slot), "aborted"
    frame_counter,  \* frames received
    unsent,         \* the frame of a blocked tx.send, a sequence of at most one
    channel,        \* the mpsc channel
    dispatcher,     \* "running", "returned" (channel closed), "aborted"
    batch,          \* the dispatcher's current batch
    deadline,       \* ticks until the deadline, 0 once it has elapsed
    age,            \* history: ticks the oldest frame of the batch has waited
    dispatched,     \* the frames handed to the router, oldest first
    batches_sent,   \* Metrics.batches_sent
    signalled       \* ctrl_c: main is returning, the runtime is shut down

ingestVars == <<ingest, frame_counter, unsent>>
dispatchVars == <<dispatcher, batch, deadline, age, dispatched, batches_sent>>
vars == <<ingestVars, channel, dispatchVars, signalled>>

Init ==
    /\ ingest = "receiving" /\ frame_counter = 0 /\ unsent = <<>>
    /\ channel = <<>>
    /\ dispatcher = "running" /\ batch = <<>> /\ deadline = BatchTimeout /\ age = 0
    /\ dispatched = <<>> /\ batches_sent = 0
    /\ signalled = FALSE

------------------------------------------------------------------------------
(* ingest_task *)

\* Mutant: a channel without a bound.
ReceiveUnbounded ==
    /\ ingest = "receiving"
    /\ frame_counter < MaxFrames
    /\ frame_counter' = frame_counter + 1
    /\ channel' = Append(channel, frame_counter + 1)
    /\ UNCHANGED <<ingest, unsent, dispatchVars, signalled>>

\* recv_from, then tx.send at once: into the channel, into the waiting
\* position if it is full, or an error (the frame is dropped with a warning)
\* if the dispatcher and with it the receiver are gone.
ReceiveFrame ==
    /\ ingest = "receiving"
    /\ frame_counter < MaxFrames
    /\ frame_counter' = frame_counter + 1
    /\ \/ /\ dispatcher = "running" /\ Len(channel) < Capacity
          /\ channel' = Append(channel, frame_counter + 1)
          /\ UNCHANGED <<ingest, unsent>>
       \/ /\ dispatcher = "running" /\ Len(channel) = Capacity
          /\ ingest' = "sending"
          /\ unsent' = <<frame_counter + 1>>
          /\ UNCHANGED channel
       \/ /\ dispatcher # "running"
          /\ UNCHANGED <<ingest, unsent, channel>>
    /\ UNCHANGED <<dispatchVars, signalled>>

\* Mutant: the blocked frame goes to the front.
SendOvertakes ==
    /\ ingest = "sending"
    /\ dispatcher = "running" /\ Len(channel) < Capacity
    /\ channel' = unsent \o channel
    /\ ingest' = "receiving"
    /\ unsent' = <<>>
    /\ UNCHANGED <<frame_counter, dispatchVars, signalled>>

\* The blocked send gets a slot, or fails when the receiver is gone.
SendUnblocked ==
    /\ ingest = "sending"
    /\ \/ /\ dispatcher = "running" /\ Len(channel) < Capacity
          /\ channel' = channel \o unsent
       \/ /\ dispatcher # "running"
          /\ UNCHANGED channel
    /\ ingest' = "receiving"
    /\ unsent' = <<>>
    /\ UNCHANGED <<frame_counter, dispatchVars, signalled>>

------------------------------------------------------------------------------
(* dispatcher_task *)

\* Mutant: the batch is not cleared once sent.
DispatchKeepsBatch(frames) ==
    /\ dispatched' = dispatched \o frames
    /\ batches_sent' = batches_sent + 1
    /\ UNCHANGED <<batch, age>>

\* dispatch_batch.
Dispatch(frames) ==
    /\ dispatched' = dispatched \o frames
    /\ batches_sent' = batches_sent + 1
    /\ batch' = <<>>
    /\ age' = 0

\* Mutant: the deadline starts anew with every frame.
QueueRestartsDeadline ==
    /\ dispatcher = "running"
    /\ channel # <<>>
    /\ channel' = Tail(channel)
    /\ deadline' = BatchTimeout
    /\ LET queued == Append(batch, Head(channel))
       IN  \/ Len(queued) >= MaxBatch /\ Dispatch(queued)
           \/ /\ Len(queued) < MaxBatch
              /\ batch' = queued
              /\ UNCHANGED <<age, dispatched, batches_sent>>
    /\ UNCHANGED <<ingestVars, dispatcher, signalled>>

\* Mutant: the new deadline is counted from the old one, not from now.
QueueExtendsDeadline ==
    /\ dispatcher = "running"
    /\ channel # <<>>
    /\ channel' = Tail(channel)
    /\ LET queued == Append(batch, Head(channel))
       IN  \/ /\ Len(queued) >= MaxBatch
              /\ Dispatch(queued)
              /\ deadline' = deadline + BatchTimeout
           \/ /\ Len(queued) < MaxBatch
              /\ batch' = queued
              /\ UNCHANGED <<deadline, age, dispatched, batches_sent>>
    /\ UNCHANGED <<ingestVars, dispatcher, signalled>>

\* select!: rx.recv returns a frame.  A batch that is now full is dispatched
\* and the deadline starts anew; otherwise the deadline is left alone.
QueueFrame ==
    /\ dispatcher = "running"
    /\ channel # <<>>
    /\ channel' = Tail(channel)
    /\ LET queued == Append(batch, Head(channel))
       IN  \/ /\ Len(queued) >= MaxBatch
              /\ Dispatch(queued)
              /\ deadline' = BatchTimeout
           \/ /\ Len(queued) < MaxBatch
              /\ batch' = queued
              /\ UNCHANGED <<deadline, age, dispatched, batches_sent>>
    /\ UNCHANGED <<ingestVars, dispatcher, signalled>>

\* Mutants: an empty batch is dispatched too; the batch is cleared
\* and not sent.
DeadlineDispatchesEmpty ==
    /\ dispatcher = "running"
    /\ deadline = 0
    /\ Dispatch(batch)
    /\ deadline' = BatchTimeout
    /\ UNCHANGED <<ingestVars, channel, dispatcher, signalled>>
DeadlineLosesBatch ==
    /\ dispatcher = "running"
    /\ deadline = 0
    /\ batch' = <<>> /\ age' = 0
    /\ deadline' = BatchTimeout
    /\ UNCHANGED <<ingestVars, channel, dispatcher, dispatched, batches_sent, signalled>>

\* select!: the deadline has elapsed.  With a frame waiting in the channel
\* too, select! picks either branch.
DeadlineElapsed ==
    /\ dispatcher = "running"
    /\ deadline = 0
    /\ \/ batch # <<>> /\ Dispatch(batch)
       \/ batch = <<>> /\ UNCHANGED <<batch, age, dispatched, batches_sent>>
    /\ deadline' = BatchTimeout
    /\ UNCHANGED <<ingestVars, channel, dispatcher, signalled>>

\* select!: rx.recv returns None once the sender is gone and the channel is
\* empty: the final batch is flushed and the task returns.
ChannelClosed ==
    /\ dispatcher = "running"
    /\ ingest = "aborted" /\ channel = <<>>
    /\ \/ batch # <<>> /\ Dispatch(batch)
       \/ batch = <<>> /\ UNCHANGED <<batch, age, dispatched, batches_sent>>
    /\ dispatcher' = "returned"
    /\ UNCHANGED <<ingestVars, channel, deadline, signalled>>

Tick ==
    /\ dispatcher = "running" /\ deadline > 0
    /\ deadline' = deadline - 1
    /\ age' = IF batch = <<>> THEN 0 ELSE age + 1
    /\ UNCHANGED <<ingestVars, channel, dispatcher, batch, dispatched,
                   batches_sent, signalled>>

------------------------------------------------------------------------------
(* main: ctrl_c returns from main, and the runtime drops the tasks at an    *)
(* await, in either order and while the other may still take steps.         *)

Shutdown ==
    /\ ~signalled
    /\ signalled' = TRUE
    /\ UNCHANGED <<ingestVars, channel, dispatchVars>>

AbortIngest ==
    /\ signalled /\ ingest # "aborted"
    /\ ingest' = "aborted"
    /\ unsent' = <<>>
    /\ UNCHANGED <<frame_counter, channel, dispatchVars, signalled>>

AbortDispatcher ==
    /\ signalled /\ dispatcher = "running"
    /\ dispatcher' = "aborted"
    /\ batch' = <<>> /\ channel' = <<>> /\ age' = 0
    /\ UNCHANGED <<ingestVars, deadline, dispatched, batches_sent, signalled>>

------------------------------------------------------------------------------
Next ==
    \/ ReceiveFrame \/ SendUnblocked
    \/ QueueFrame \/ DeadlineElapsed \/ ChannelClosed
    \/ Tick
    \/ Shutdown \/ AbortIngest \/ AbortDispatcher

\* tokio polls a task whose future is ready; select! picks at random among
\* ready branches, so a branch that stays ready is picked; time passes.
\* Frames need not arrive, and nobody need press ctrl-C.
Fairness ==
    /\ WF_vars(SendUnblocked)
    /\ WF_vars(QueueFrame)
    /\ WF_vars(DeadlineElapsed)
    /\ WF_vars(ChannelClosed)
    /\ WF_vars(Tick)

Spec == Init /\ [][Next]_vars /\ Fairness

------------------------------------------------------------------------------
BatchLimit == IF MaxBatch = 0 THEN 1 ELSE MaxBatch

TypeOK ==
    /\ ingest \in {"receiving", "sending", "aborted"}
    /\ frame_counter \in Nat
    /\ unsent \in Seq(Nat) /\ channel \in Seq(Nat) /\ batch \in Seq(Nat)
    /\ dispatched \in Seq(Nat)
    /\ dispatcher \in {"running", "returned", "aborted"}
    /\ deadline \in 0..BatchTimeout
    /\ age \in Nat /\ batches_sent \in Nat
    /\ signalled \in BOOLEAN

FirstFrames(n) == [i \in 1..n |-> i]

\* The frames on their way to the router: none once the receiver is gone.
InShim == IF dispatcher = "running" THEN batch \o channel \o unsent ELSE <<>>

(* Between recv_from and the router no frame is lost, duplicated or         *)
(* overtaken: until a task is aborted, what was dispatched followed by what *)
(* the batch, the channel and a blocked send hold are the received frames   *)
(* in order; and what was dispatched never has a gap, not even when the     *)
(* shim is being shut down.                                                 *)
NoFrameLostOrReordered ==
    /\ dispatched = FirstFrames(Len(dispatched))
    /\ dispatcher = "running" =>
          /\ dispatched \o InShim = FirstFrames(Len(dispatched \o InShim))
          /\ ingest # "aborted" => Len(dispatched \o InShim) = frame_counter

(* The channel never exceeds its capacity, the batch never reaches the      *)
(* dispatch threshold between two steps (so no batch handed to the router   *)
(* exceeds it), and a send waits only behind a channel that had filled up.  *)
Bounds ==
    /\ Len(channel) <= Capacity
    /\ Len(batch) < BatchLimit
    /\ unsent # <<>> <=> ingest = "sending"
    /\ Len(unsent) <= 1

(* batches_sent counts batches that carry frames: the deadline, the flush   *)
(* of the closed channel and a full batch never dispatch an empty one, and  *)
(* no batch is above the limit.                                             *)
BatchesCarryFrames ==
    /\ batches_sent <= Len(dispatched)
    /\ Len(dispatched) <= batches_sent * BatchLimit

(* --batch-timeout-ms: "Maximum wait time (ms) before flushing a partial    *)
(* batch".  The deadline is not restarted by arriving frames, so no frame   *)
(* waits in the batch for longer than the timeout.                          *)
PartialBatchWaitsAtMostTimeout == age + deadline <= BatchTimeout

(* Every frame that was received is dispatched, unless the shim is shut     *)
(* down: backpressure and partial batches never strand one.                 *)
EveryFrameDispatched ==
    \A f \in 1..MaxFrames :
        frame_counter >= f ~> (Len(dispatched) >= f \/ signalled)

(* The warning of ingest_task, "ingest channel full, dropping frame": a     *)
(* full channel costs the frame, it does not hold up the ingest task.       *)
FullChannelDropsFrame == ingest # "sending"

Relay == INSTANCE FrameRelay WITH
            MaxSize <- BatchLimit,
            accepted <- frame_counter,
            held <- InShim,
            delivered <- dispatched,
            up <- ~signalled

(* The two tasks, their channel and their timer implement the relay.        *)
ImplementsRelay == Relay!RelaySpec
==============================================================================
