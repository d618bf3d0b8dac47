----------------------------- MODULE VadPipeline -----------------------------
(***************************************************************************)
(* vad-edge/src/dpdk_pipeline.c with vad-edge/wasm/vad_module.wat: the      *)
(* polling loop that takes bursts of packets from the NIC, classifies each  *)
(* one with the Wasm module and transmits speech, from initialisation to    *)
(* shutdown by a signal.  The NIC, its two rings and the mbuf pool are      *)
(* external.  A packet is the number of its arrival.                        *)
(***************************************************************************)
EXTENDS Integers, Sequences, FiniteSets, SequencesExt

CONSTANTS
    Payloads,       \* the audio a packet may carry: a sequence of samples
    ChunkSamples,   \* samples of a full chunk (AUDIO_CHUNK_BYTES)
    PoolSize,       \* MBUF_POOL_SIZE
    RxRing,         \* descriptors of the receive queue
    TxRing,         \* descriptors of the transmit queue
    BurstSize,      \* BURST_SIZE
    MaxFrames       \* bound: packets that arrive

ASSUME PipelineAssumption ==
    /\ Payloads \subseteq Seq(Int)
    /\ {ChunkSamples, PoolSize, RxRing, TxRing, BurstSize, MaxFrames} \subseteq Nat \ {0}

VARIABLES
    wire,       \* what every packet so far carried
    pool,       \* free mbufs
    rx, tx,     \* packets in the rings, each in an mbuf
    burst,      \* packets the loop still has in hand, each in an mbuf
    sent,       \* packets the NIC transmitted
    lost,       \* speech frames whose mbuf was freed untransmitted
    counters,   \* frames_received, frames_speech, frames_forwarded
    g_running,
    pc          \* where main is

nicVars == <<wire, rx, sent>>
loopVars == <<burst, counters>>
vars == <<nicVars, loopVars, pool, tx, lost, g_running, pc>>

Init ==
    /\ wire = <<>>
    /\ pool = PoolSize
    /\ rx = <<>> /\ tx = <<>> /\ burst = <<>> /\ sent = <<>>
    /\ lost = 0
    /\ counters = [received |-> 0, speech |-> 0, forwarded |-> 0]
    /\ g_running = TRUE
    /\ pc = "init"

------------------------------------------------------------------------------
(* The Wasm classifier *)

Energy(samples) ==
    FoldSeq(LAMBDA s, e : e + (IF s < 0 THEN -s ELSE s), 0, samples)

\* The sign of a sample differs from that of the one before it, 0 at first.
ZeroCrossings(samples) ==
    Cardinality({i \in DOMAIN samples :
        (samples[i] < 0) # (IF i = 1 THEN FALSE ELSE samples[i - 1] < 0)})

vad_classify(samples) ==
    LET n == Len(samples)
    IN  /\ n > 0
        /\ \/ Energy(samples) \div n > 512
           \/ (ZeroCrossings(samples) * 100) \div n > 20

------------------------------------------------------------------------------
(* main *)

\* The port is configured and started, or rte_exit.
StartPort ==
    /\ pc = "init"
    /\ pc' \in {"started", "exited"}
    /\ UNCHANGED <<nicVars, loopVars, pool, tx, lost, g_running>>

\* Packets already arrive while the Wasm module is loaded.  Its trap variable
\* is read uninitialised, so that loading may fail for no reason.
LoadWasm ==
    /\ pc = "started"
    /\ pc' \in {"polling", "exited", "crashed"}
    /\ UNCHANGED <<nicVars, loopVars, pool, tx, lost, g_running>>

\* signal_handler.
Signal ==
    /\ pc \notin {"exited", "crashed", "stopped"}
    /\ g_running
    /\ g_running' = FALSE
    /\ UNCHANGED <<nicVars, loopVars, pool, tx, lost, pc>>

\* Mutant: the loop drains the receive ring first, which it no longer reads.
StopDrained ==
    /\ pc = "polling" /\ burst = <<>> /\ rx = <<>> /\ ~g_running
    /\ pc' = "stopped"
    /\ tx' = <<>>
    /\ pool' = pool + Len(tx)
    /\ lost' = lost + Len(tx)
    /\ UNCHANGED <<nicVars, loopVars, g_running>>

\* The loop's condition is only looked at between bursts.  Stopping the port
\* frees what is in its rings.
StopPort ==
    /\ pc = "polling" /\ burst = <<>> /\ ~g_running
    /\ pc' = "stopped"
    /\ rx' = <<>> /\ tx' = <<>>
    /\ pool' = pool + Len(rx) + Len(tx)
    /\ lost' = lost + Len(tx)
    /\ UNCHANGED <<wire, sent, loopVars, g_running>>

------------------------------------------------------------------------------
(* pipeline_run *)

\* rte_eth_rx_burst: as many packets as there are, up to BurstSize.
RxBurst ==
    /\ pc = "polling" /\ burst = <<>> /\ g_running
    /\ rx # <<>>
    /\ LET n == IF Len(rx) < BurstSize THEN Len(rx) ELSE BurstSize
       IN  /\ burst' = SubSeq(rx, 1, n)
           /\ rx' = SubSeq(rx, n + 1, Len(rx))
    /\ UNCHANGED <<wire, sent, counters, pool, tx, lost, g_running, pc>>

\* Mutant: a short packet is skipped without being freed.
SkipShort ==
    /\ Len(wire[Head(burst)]) < ChunkSamples
    /\ counters' = [counters EXCEPT !.received = @ + 1]
    /\ UNCHANGED <<pool, tx, lost>>

DropShort ==
    /\ Len(wire[Head(burst)]) < ChunkSamples
    /\ counters' = [counters EXCEPT !.received = @ + 1]
    /\ pool' = pool + 1
    /\ UNCHANGED <<tx, lost>>

\* Silence, or a classifier call that seems to have failed because trap is
\* read uninitialised.
DropSilence ==
    /\ Len(wire[Head(burst)]) >= ChunkSamples
    /\ counters' = [counters EXCEPT !.received = @ + 1]
    /\ pool' = pool + 1
    /\ UNCHANGED <<tx, lost>>

\* Mutant: the newest frame goes first in the transmit ring.
ForwardFirst ==
    /\ Len(wire[Head(burst)]) >= ChunkSamples
    /\ vad_classify(wire[Head(burst)])
    /\ counters' = [received |-> counters.received + 1, speech |-> counters.speech + 1,
                    forwarded |-> counters.forwarded + 1]
    /\ IF Len(tx) < TxRing
       THEN tx' = <<Head(burst)>> \o tx /\ UNCHANGED <<pool, lost>>
       ELSE pool' = pool + 1 /\ lost' = lost + 1 /\ UNCHANGED tx

\* forward_speech_frame: a full transmit ring frees the mbuf, and the frame
\* counts as forwarded all the same.
ForwardSpeech ==
    /\ Len(wire[Head(burst)]) >= ChunkSamples
    /\ vad_classify(wire[Head(burst)])
    /\ counters' = [received |-> counters.received + 1, speech |-> counters.speech + 1,
                    forwarded |-> counters.forwarded + 1]
    /\ IF Len(tx) < TxRing
       THEN tx' = Append(tx, Head(burst)) /\ UNCHANGED <<pool, lost>>
       ELSE pool' = pool + 1 /\ lost' = lost + 1 /\ UNCHANGED tx

ProcessFrame ==
    /\ pc = "polling" /\ burst # <<>>
    /\ DropShort \/ DropSilence \/ ForwardSpeech
    /\ burst' = Tail(burst)
    /\ UNCHANGED <<nicVars, g_running, pc>>

\* wasm_trap_delete of an uninitialised trap.
ClassifierCrashes ==
    /\ pc = "polling" /\ burst # <<>>
    /\ Len(wire[Head(burst)]) >= ChunkSamples
    /\ pc' = "crashed"
    /\ UNCHANGED <<nicVars, loopVars, pool, tx, lost, g_running>>

------------------------------------------------------------------------------
(* External: the NIC *)

PortIsUp == pc \in {"started", "polling"}

\* A packet arrives; without an mbuf or a descriptor it is missed.
FrameArrives ==
    /\ PortIsUp /\ Len(wire) < MaxFrames
    /\ \E p \in Payloads : wire' = Append(wire, p)
    /\ IF pool > 0 /\ Len(rx) < RxRing
       THEN rx' = Append(rx, Len(wire) + 1) /\ pool' = pool - 1
       ELSE UNCHANGED <<rx, pool>>
    /\ UNCHANGED <<sent, loopVars, tx, lost, g_running, pc>>

\* The oldest frame of the transmit ring leaves, and its mbuf is free again.
FrameLeaves ==
    /\ PortIsUp /\ tx # <<>>
    /\ sent' = Append(sent, Head(tx))
    /\ tx' = Tail(tx)
    /\ pool' = pool + 1
    /\ UNCHANGED <<wire, rx, loopVars, lost, g_running, pc>>

------------------------------------------------------------------------------
Next ==
    \/ StartPort \/ LoadWasm \/ Signal \/ StopPort
    \/ RxBurst \/ ProcessFrame \/ ClassifierCrashes
    \/ FrameArrives \/ FrameLeaves

\* main runs on a core of its own and never blocks.
Fairness ==
    /\ WF_vars(StartPort) /\ WF_vars(LoadWasm) /\ WF_vars(StopPort)
    /\ WF_vars(RxBurst) /\ WF_vars(ProcessFrame)

Spec == Init /\ [][Next]_vars /\ Fairness

------------------------------------------------------------------------------
Over == pc \in {"exited", "crashed", "stopped"}

(* Every mbuf is in exactly one place: free, in a ring, or in the hands of   *)
(* the loop; no path through a burst leaks one or frees one twice, and a    *)
(* signal in the middle of a burst strands none.                            *)
MbufsConserved ==
    /\ pool + Len(rx) + Len(tx) + Len(burst) = PoolSize
    /\ pc = "stopped" => pool = PoolSize

(* What is transmitted is speech, in the order it arrived and each frame    *)
(* once; and the counters account for every frame of it.                    *)
SpeechInOrder ==
    LET out == sent \o tx
    IN  /\ \A i \in DOMAIN out : Len(wire[out[i]]) >= ChunkSamples /\ vad_classify(wire[out[i]])
        /\ \A i, j \in DOMAIN out : i < j => out[i] < out[j]
        /\ counters.speech = counters.forwarded
        /\ counters.forwarded = Len(out) + lost
        /\ counters.received + Len(burst) + Len(rx) <= Len(wire)

(* No packet is stuck in the receive ring or in a burst while the loop      *)
(* polls, and after a signal the process ends, whatever it is doing.        *)
InHand(i) == i \in ToSet(rx \o burst)

LoopLives ==
    /\ \A i \in 1..MaxFrames : (pc = "polling" /\ InHand(i)) ~> (~InHand(i) \/ Over)
    /\ ~g_running ~> Over
==============================================================================
