--------------------------- MODULE DynamoShimProofs ---------------------------
(***************************************************************************)
(* Proofs about DynamoShim, for every channel capacity, batch size         *)
(* (including 0), timeout and number of frames.                            *)
(***************************************************************************)
EXTENDS DynamoShim, SequenceTheorems, TLAPS

(* The frames of s are consecutive, the first one is from + 1.              *)
Numbered(s, from) == \A i \in 1..Len(s) : s[i] = from + i

LEMMA NumberedAppend ==
    ASSUME NEW s \in Seq(Nat), NEW from \in Nat, Numbered(s, from),
           NEW e \in Nat, e = from + Len(s) + 1
    PROVE  /\ Append(s, e) \in Seq(Nat) /\ Len(Append(s, e)) = Len(s) + 1
           /\ Numbered(Append(s, e), from)
BY AppendProperties DEF Numbered

LEMMA NumberedTail ==
    ASSUME NEW s \in Seq(Nat), NEW from \in Nat, Numbered(s, from), s # <<>>
    PROVE  /\ Tail(s) \in Seq(Nat) /\ Len(Tail(s)) = Len(s) - 1
           /\ Numbered(Tail(s), from + 1)
           /\ Head(s) \in Nat /\ Head(s) = from + 1
BY HeadTailProperties, EmptySeq, LenProperties DEF Numbered

LEMMA NumberedConcat ==
    ASSUME NEW s \in Seq(Nat), NEW t \in Seq(Nat), NEW from \in Nat,
           Numbered(s, from), Numbered(t, from + Len(s))
    PROVE  /\ s \o t \in Seq(Nat) /\ Len(s \o t) = Len(s) + Len(t)
           /\ Numbered(s \o t, from)
<1>1. /\ s \o t \in Seq(Nat) /\ Len(s \o t) = Len(s) + Len(t)
      /\ \A i \in 1..(Len(s) + Len(t)) :
            (s \o t)[i] = IF i <= Len(s) THEN s[i] ELSE t[i - Len(s)]
  BY ConcatProperties
<1>2. Len(s) \in Nat /\ Len(t) \in Nat
  BY LenProperties
<1> DEFINE c == s \o t
<1>3. /\ Len(c) = Len(s) + Len(t)
      /\ \A i \in 1..(Len(s) + Len(t)) : c[i] = IF i <= Len(s) THEN s[i] ELSE t[i - Len(s)]
  BY <1>1
<1> HIDE DEF c
<1>4. Numbered(c, from)
  <2> SUFFICES ASSUME NEW i \in 1..(Len(s) + Len(t)) PROVE c[i] = from + i
    BY <1>3 DEF Numbered
  <2>1. CASE i <= Len(s)
    BY <2>1, <1>2, <1>3 DEF Numbered
  <2>2. CASE ~(i <= Len(s))
    <3>1. i - Len(s) \in 1..Len(t) /\ c[i] = t[i - Len(s)]
      BY <2>2, <1>2, <1>3
    <3>2. t[i - Len(s)] = from + Len(s) + (i - Len(s))
      BY <3>1 DEF Numbered
    <3> QED  BY <1>2, <3>1, <3>2
  <2> QED  BY <2>1, <2>2
<1> QED  BY <1>1, <1>4 DEF c

(* Pointwise form of NoFrameLostOrReordered, which is inductive: where each *)
(* frame is follows from the lengths alone.                                 *)
Numbering ==
    /\ Numbered(dispatched, 0)
    /\ dispatcher = "running" =>
          /\ Numbered(batch, Len(dispatched))
          /\ Numbered(channel, Len(dispatched) + Len(batch))
          /\ Numbered(unsent, Len(dispatched) + Len(batch) + Len(channel))
          /\ ingest # "aborted" =>
                Len(dispatched) + Len(batch) + Len(channel) + Len(unsent) = frame_counter

NobodyWaits == batch = <<>> => age = 0

IInv ==
    /\ TypeOK
    /\ Bounds
    /\ BatchesCarryFrames
    /\ PartialBatchWaitsAtMostTimeout
    /\ NobodyWaits
    /\ Numbering

LEMMA InitIInv == Init => IInv
<1> SUFFICES ASSUME Init PROVE IInv
  OBVIOUS
<1>1. <<>> \in Seq(Nat) /\ Len(<<>>) = 0
  BY EmptySeq
<1>2. TypeOK
  <2>1. signalled \in BOOLEAN
    BY DEF Init
  <2>2. deadline \in 0..BatchTimeout
    BY ShimAssumption DEF Init
  <2> QED  BY <1>1, <2>1, <2>2 DEF Init, TypeOK
<1>3. Bounds
  BY <1>1, ShimAssumption DEF Init, Bounds, BatchLimit
<1>4. BatchesCarryFrames
  BY <1>1, ShimAssumption DEF Init, BatchesCarryFrames, BatchLimit
<1>5. PartialBatchWaitsAtMostTimeout
  BY ShimAssumption DEF Init, PartialBatchWaitsAtMostTimeout
<1>6. \A from : Numbered(<<>>, from)
  BY <1>1 DEF Numbered
<1>7. Numbering
  BY <1>1, <1>6 DEF Init, Numbering
<1>8. NobodyWaits
  BY DEF Init, NobodyWaits
<1> QED  BY <1>2, <1>3, <1>4, <1>5, <1>7, <1>8 DEF IInv

LEMMA Lengths ==
    ASSUME TypeOK
    PROVE  /\ Len(dispatched) \in Nat /\ Len(batch) \in Nat
           /\ Len(channel) \in Nat /\ Len(unsent) \in Nat
           /\ BatchLimit \in Nat \ {0} /\ BatchLimit >= MaxBatch
BY LenProperties, ShimAssumption DEF TypeOK, BatchLimit

LEMMA ReceiveFrameIInv == IInv /\ ReceiveFrame => IInv'
<1> SUFFICES ASSUME IInv, ReceiveFrame PROVE IInv'
  OBVIOUS
<1> USE DEF IInv
<1>1. /\ ingest = "receiving" /\ frame_counter' = frame_counter + 1 /\ frame_counter \in Nat
      /\ UNCHANGED <<dispatcher, batch, deadline, age, dispatched, batches_sent, signalled>>
  BY DEF ReceiveFrame, TypeOK, dispatchVars
<1>2. unsent = <<>> /\ Len(unsent) = 0
  BY <1>1, EmptySeq DEF Bounds
<1>3. BatchesCarryFrames' /\ PartialBatchWaitsAtMostTimeout' /\ NobodyWaits'
  BY <1>1 DEF BatchesCarryFrames, BatchLimit, PartialBatchWaitsAtMostTimeout, NobodyWaits
<1>4. CASE /\ dispatcher = "running" /\ Len(channel) < Capacity
           /\ channel' = Append(channel, frame_counter + 1)
           /\ UNCHANGED <<ingest, unsent>>
  <2>1. Len(dispatched) + Len(batch) + Len(channel) = frame_counter
    BY <1>1, <1>2, <1>4, Lengths DEF Numbering
  <2>2. /\ channel' \in Seq(Nat) /\ Len(channel') = Len(channel) + 1
        /\ Numbered(channel', Len(dispatched) + Len(batch))
    <3>1. Len(dispatched) + Len(batch) \in Nat /\ frame_counter + 1 \in Nat
      BY <1>1, Lengths
    <3>2. frame_counter + 1 = (Len(dispatched) + Len(batch)) + Len(channel) + 1
      BY <2>1
    <3>3. channel \in Seq(Nat) /\ Numbered(channel, Len(dispatched) + Len(batch))
      BY <1>4 DEF Numbering, TypeOK
    <3> QED  BY <1>4, <3>1, <3>2, <3>3, NumberedAppend
  <2>3. TypeOK'
    BY <1>1, <1>4, <2>2 DEF TypeOK
  <2>4. Bounds'
    BY <1>1, <1>4, <2>2, Lengths, ShimAssumption DEF Bounds
  <2>5. Numbering'
    BY <1>1, <1>2, <1>4, <2>1, <2>2, Lengths DEF Numbering, Numbered
  <2> QED  BY <1>3, <2>3, <2>4, <2>5
<1>5. CASE /\ dispatcher = "running" /\ Len(channel) = Capacity
           /\ ingest' = "sending"
           /\ unsent' = <<frame_counter + 1>>
           /\ UNCHANGED channel
  <2>1. Len(dispatched) + Len(batch) + Len(channel) = frame_counter
    BY <1>1, <1>2, <1>5, Lengths DEF Numbering
  <2>2. unsent' \in Seq(Nat) /\ Len(unsent') = 1 /\ unsent'[1] = frame_counter + 1 /\ unsent' # <<>>
    BY <1>1, <1>5
  <2>3. TypeOK' /\ Bounds'
    BY <1>1, <1>5, <2>2 DEF TypeOK, Bounds
  <2>4. Numbering'
    BY <1>1, <1>5, <2>1, <2>2, Lengths DEF Numbering, Numbered
  <2> QED  BY <1>3, <2>3, <2>4
<1>6. CASE dispatcher # "running" /\ UNCHANGED <<ingest, unsent, channel>>
  BY <1>1, <1>3, <1>6 DEF TypeOK, Bounds, Numbering
<1> QED  BY <1>4, <1>5, <1>6 DEF ReceiveFrame

LEMMA SendUnblockedIInv == IInv /\ SendUnblocked => IInv'
<1> SUFFICES ASSUME IInv, SendUnblocked PROVE IInv'
  OBVIOUS
<1> USE DEF IInv
<1>1. /\ ingest = "sending" /\ ingest' = "receiving" /\ unsent' = <<>>
      /\ UNCHANGED <<frame_counter, dispatcher, batch, deadline, age, dispatched,
                     batches_sent, signalled>>
  BY DEF SendUnblocked, dispatchVars
<1>2. unsent # <<>> /\ Len(unsent) = 1 /\ unsent' \in Seq(Nat) /\ Len(unsent') = 0
  <2>1. unsent # <<>> /\ Len(unsent) <= 1 /\ unsent \in Seq(Nat)
    BY <1>1 DEF Bounds, TypeOK
  <2>2. Len(unsent) \in Nat /\ Len(unsent) # 0
    BY <2>1, EmptySeq, LenProperties
  <2>3. unsent' \in Seq(Nat) /\ Len(unsent') = 0
    BY <1>1, EmptySeq
  <2>4. \A n \in Nat : n <= 1 /\ n # 0 => n = 1
    OBVIOUS
  <2> QED  BY <2>1, <2>2, <2>3, <2>4, Zenon
<1>3. BatchesCarryFrames' /\ PartialBatchWaitsAtMostTimeout' /\ NobodyWaits'
  BY <1>1 DEF BatchesCarryFrames, BatchLimit, PartialBatchWaitsAtMostTimeout, NobodyWaits
<1>4. CASE /\ dispatcher = "running" /\ Len(channel) < Capacity
           /\ channel' = channel \o unsent
  <2>1. /\ channel' \in Seq(Nat) /\ Len(channel') = Len(channel) + 1
        /\ Numbered(channel', Len(dispatched) + Len(batch))
    <3>1. Len(dispatched) + Len(batch) \in Nat
      BY Lengths
    <3>2. /\ channel \in Seq(Nat) /\ Numbered(channel, Len(dispatched) + Len(batch))
          /\ unsent \in Seq(Nat)
          /\ Numbered(unsent, (Len(dispatched) + Len(batch)) + Len(channel))
      BY <1>4 DEF Numbering, TypeOK
    <3> QED  BY <1>2, <1>4, <3>1, <3>2, NumberedConcat
  <2>2. TypeOK'
    BY <1>1, <1>2, <2>1 DEF TypeOK
  <2>3. Bounds'
    BY <1>1, <1>2, <1>4, <2>1, Lengths, ShimAssumption DEF Bounds
  <2>4. Numbering'
    BY <1>1, <1>2, <1>4, <2>1, Lengths DEF Numbering, Numbered
  <2> QED  BY <1>3, <2>2, <2>3, <2>4
<1>5. CASE dispatcher # "running" /\ UNCHANGED channel
  BY <1>1, <1>2, <1>3, <1>5 DEF TypeOK, Bounds, Numbering
<1> QED  BY <1>4, <1>5 DEF SendUnblocked

(* Handing a numbered batch to the router keeps the record of what was      *)
(* dispatched numbered, and the batch count between its bounds.             *)
LEMMA DispatchCounts ==
    ASSUME IInv, NEW frames \in Seq(Nat), Numbered(frames, Len(dispatched)),
           Len(frames) >= 1, Len(frames) <= BatchLimit, Dispatch(frames)
    PROVE  /\ dispatched' \in Seq(Nat)
           /\ Len(dispatched') = Len(dispatched) + Len(frames)
           /\ Numbered(dispatched', 0)
           /\ batch' = <<>> /\ batch' \in Seq(Nat) /\ Len(batch') = 0
           /\ age' = 0 /\ batches_sent' \in Nat
           /\ BatchesCarryFrames'
<1> USE DEF IInv
<1>1. /\ dispatched' = dispatched \o frames
      /\ batches_sent' = batches_sent + 1 /\ batch' = <<>> /\ age' = 0
      /\ batches_sent \in Nat /\ dispatched \in Seq(Nat)
  BY DEF Dispatch, TypeOK
<1>2. batch' \in Seq(Nat) /\ Len(batch') = 0
  BY <1>1, EmptySeq
<1>3. /\ dispatched' \in Seq(Nat)
      /\ Len(dispatched') = Len(dispatched) + Len(frames)
      /\ Numbered(dispatched', 0)
  <2>1. Numbered(dispatched, 0) /\ Numbered(frames, 0 + Len(dispatched))
    BY Lengths DEF Numbering
  <2> QED  BY <1>1, <2>1, NumberedConcat
<1>4. BatchesCarryFrames'
  <2>1. /\ batches_sent <= Len(dispatched)
        /\ Len(dispatched) <= batches_sent * BatchLimit
    BY DEF BatchesCarryFrames
  <2>2. BatchLimit' = BatchLimit
    BY DEF BatchLimit
  <2>3. Len(frames) \in Nat /\ BatchLimit \in Nat /\ batches_sent * BatchLimit \in Nat
    BY <1>1, Lengths, LenProperties
  <2>4. (batches_sent + 1) * BatchLimit = batches_sent * BatchLimit + BatchLimit
    BY <1>1, Lengths
  <2> QED  BY <1>1, <1>3, <2>1, <2>2, <2>3, <2>4, Lengths DEF BatchesCarryFrames
<1> QED  BY <1>1, <1>2, <1>3, <1>4

LEMMA QueueFrameIInv == IInv /\ QueueFrame => IInv'
<1> SUFFICES ASSUME IInv, QueueFrame PROVE IInv'
  OBVIOUS
<1> USE DEF IInv
<1> DEFINE queued == Append(batch, Head(channel))
           d == Len(dispatched)
           b == Len(batch)
<1>1. /\ dispatcher = "running" /\ channel # <<>> /\ channel' = Tail(channel)
      /\ UNCHANGED <<ingest, frame_counter, unsent, dispatcher, signalled>>
  BY DEF QueueFrame, ingestVars
<1>2. /\ channel' \in Seq(Nat) /\ Len(channel') = Len(channel) - 1
      /\ Numbered(channel', d + b + 1)
      /\ Head(channel) \in Nat /\ Head(channel) = d + b + 1
  <2>1. d + b \in Nat /\ channel \in Seq(Nat) /\ Numbered(channel, d + b)
    BY <1>1, Lengths DEF Numbering, TypeOK
  <2> QED  BY <1>1, <2>1, NumberedTail
<1>3. /\ queued \in Seq(Nat) /\ Len(queued) = b + 1 /\ Numbered(queued, d)
  <2>1. batch \in Seq(Nat) /\ d \in Nat /\ Numbered(batch, d)
    BY <1>1, Lengths DEF Numbering, TypeOK
  <2> QED  BY <1>2, <2>1, NumberedAppend
<1>4. b + 1 <= BatchLimit /\ b \in Nat /\ d \in Nat
  BY Lengths DEF Bounds
<1> HIDE DEF queued
<1>5. CASE Len(queued) >= MaxBatch /\ Dispatch(queued) /\ deadline' = BatchTimeout
  <2>1. /\ dispatched' \in Seq(Nat) /\ Len(dispatched') = d + b + 1
        /\ Numbered(dispatched', 0)
        /\ batch' \in Seq(Nat) /\ Len(batch') = 0
        /\ age' = 0 /\ batches_sent' \in Nat
        /\ BatchesCarryFrames'
    BY <1>3, <1>4, <1>5, DispatchCounts
  <2>2. TypeOK'
    BY <1>1, <1>2, <1>5, <2>1, ShimAssumption DEF TypeOK
  <2>3. Bounds'
    <3>1. BatchLimit' = BatchLimit /\ BatchLimit \in Nat \ {0}
      BY Lengths DEF BatchLimit
    <3>2. Len(channel') <= Capacity
      BY <1>2, Lengths, ShimAssumption DEF Bounds
    <3> QED  BY <1>1, <2>1, <3>1, <3>2 DEF Bounds
  <2>4. PartialBatchWaitsAtMostTimeout' /\ NobodyWaits'
    BY <1>5, <2>1, ShimAssumption DEF PartialBatchWaitsAtMostTimeout, NobodyWaits
  <2>5. Numbering'
    <3>1. Numbered(batch', Len(dispatched'))
      BY <2>1 DEF Numbered
    <3>2. Len(dispatched') + Len(batch') = d + b + 1
      BY <1>4, <2>1
    <3>3. Len(dispatched') + Len(batch') + Len(channel') = d + b + Len(channel)
      BY <1>2, <1>4, <3>2, Lengths
    <3> QED  BY <1>1, <1>2, <2>1, <3>1, <3>2, <3>3 DEF Numbering
  <2> QED  BY <2>1, <2>2, <2>3, <2>4, <2>5
<1>6. CASE /\ Len(queued) < MaxBatch
           /\ batch' = queued
           /\ UNCHANGED <<deadline, age, dispatched, batches_sent>>
  <2>1. TypeOK'
    BY <1>1, <1>2, <1>3, <1>6 DEF TypeOK
  <2>2. Bounds'
    BY <1>1, <1>2, <1>3, <1>4, <1>6, Lengths, ShimAssumption DEF Bounds, BatchLimit
  <2>3. BatchesCarryFrames' /\ PartialBatchWaitsAtMostTimeout'
    BY <1>6 DEF BatchesCarryFrames, BatchLimit, PartialBatchWaitsAtMostTimeout
  <2>5. NobodyWaits'
    <3>1. Len(batch') # 0
      BY <1>3, <1>4, <1>6
    <3> QED  BY <3>1, EmptySeq DEF NobodyWaits
  <2>4. Numbering'
    <3>1. Len(dispatched') + Len(batch') = d + b + 1
      BY <1>3, <1>4, <1>6
    <3>2. Len(dispatched') + Len(batch') + Len(channel') = d + b + Len(channel)
      BY <1>2, <1>4, <3>1, Lengths
    <3> QED  BY <1>1, <1>2, <1>3, <1>6, <3>1, <3>2 DEF Numbering
  <2> QED  BY <2>1, <2>2, <2>3, <2>4, <2>5
<1> QED  BY <1>5, <1>6 DEF QueueFrame, queued

(* What the deadline and the closed channel do with the batch: dispatch it, *)
(* or nothing if it is empty.                                               *)
LEMMA FlushCounts ==
    ASSUME IInv, dispatcher = "running",
           \/ batch # <<>> /\ Dispatch(batch)
           \/ batch = <<>> /\ UNCHANGED <<batch, age, dispatched, batches_sent>>
    PROVE  /\ dispatched' \in Seq(Nat)
           /\ Len(dispatched') = Len(dispatched) + Len(batch)
           /\ Numbered(dispatched', 0)
           /\ batch' \in Seq(Nat) /\ Len(batch') = 0
           /\ age' = 0 /\ batches_sent' \in Nat
           /\ BatchesCarryFrames'
<1> USE DEF IInv
<1>1. batch \in Seq(Nat) /\ Numbered(batch, Len(dispatched)) /\ Len(batch) \in Nat
  BY Lengths DEF Numbering, TypeOK
<1>2. CASE batch # <<>> /\ Dispatch(batch)
  <2>1. Len(batch) >= 1
    <3>1. Len(batch) # 0
      BY <1>1, <1>2, EmptySeq
    <3> QED  BY <1>1, <3>1
  <2>2. Len(batch) <= BatchLimit
    BY <1>1, Lengths DEF Bounds
  <2> QED  BY <1>1, <1>2, <2>1, <2>2, DispatchCounts
<1>3. CASE batch = <<>> /\ UNCHANGED <<batch, age, dispatched, batches_sent>>
  <2>1. Len(batch) = 0
    BY <1>3, EmptySeq
  <2>2. Len(dispatched') = Len(dispatched) + Len(batch)
    BY <1>3, <2>1, Lengths
  <2>3. BatchesCarryFrames'
    BY <1>3 DEF BatchesCarryFrames, BatchLimit
  <2>4. Len(batch') = 0 /\ batch' \in Seq(Nat)
    BY <1>1, <1>3, <2>1
  <2>5. dispatched' \in Seq(Nat) /\ Numbered(dispatched', 0) /\ age' = 0 /\ batches_sent' \in Nat
    BY <1>3 DEF Numbering, TypeOK, NobodyWaits
  <2> QED  BY <1>3, <2>2, <2>3, <2>4, <2>5
<1> QED  BY <1>2, <1>3

LEMMA DeadlineElapsedIInv == IInv /\ DeadlineElapsed => IInv'
<1> SUFFICES ASSUME IInv, DeadlineElapsed PROVE IInv'
  OBVIOUS
<1> USE DEF IInv
<1>1. /\ dispatcher = "running" /\ deadline' = BatchTimeout
      /\ UNCHANGED <<ingest, frame_counter, unsent, channel, dispatcher, signalled>>
      /\ \/ batch # <<>> /\ Dispatch(batch)
         \/ batch = <<>> /\ UNCHANGED <<batch, age, dispatched, batches_sent>>
  BY DEF DeadlineElapsed, ingestVars
<1>2. /\ dispatched' \in Seq(Nat)
      /\ Len(dispatched') = Len(dispatched) + Len(batch)
      /\ Numbered(dispatched', 0)
      /\ batch' \in Seq(Nat) /\ Len(batch') = 0
      /\ age' = 0 /\ batches_sent' \in Nat
      /\ BatchesCarryFrames'
  BY <1>1, FlushCounts
<1>3. TypeOK'
  BY <1>1, <1>2, ShimAssumption DEF TypeOK
<1>4. Bounds'
  <2>1. BatchLimit' = BatchLimit /\ BatchLimit \in Nat \ {0}
    BY Lengths DEF BatchLimit
  <2> QED  BY <1>1, <1>2, <2>1 DEF Bounds
<1>5. PartialBatchWaitsAtMostTimeout' /\ NobodyWaits'
  BY <1>1, <1>2, ShimAssumption DEF PartialBatchWaitsAtMostTimeout, NobodyWaits
<1>6. Numbering'
  <2>1. Len(dispatched') + Len(batch') = Len(dispatched) + Len(batch)
    BY <1>2, Lengths
  <2>2. Numbered(batch', Len(dispatched'))
    BY <1>2 DEF Numbered
  <2> QED  BY <1>1, <1>2, <2>1, <2>2 DEF Numbering
<1> QED  BY <1>2, <1>3, <1>4, <1>5, <1>6

LEMMA ChannelClosedIInv == IInv /\ ChannelClosed => IInv'
<1> SUFFICES ASSUME IInv, ChannelClosed PROVE IInv'
  OBVIOUS
<1> USE DEF IInv
<1>1. /\ dispatcher = "running" /\ dispatcher' = "returned" /\ channel = <<>>
      /\ UNCHANGED <<ingest, frame_counter, unsent, channel, deadline, signalled>>
      /\ \/ batch # <<>> /\ Dispatch(batch)
         \/ batch = <<>> /\ UNCHANGED <<batch, age, dispatched, batches_sent>>
  BY DEF ChannelClosed, ingestVars
<1>2. /\ dispatched' \in Seq(Nat)
      /\ Numbered(dispatched', 0)
      /\ batch' \in Seq(Nat) /\ Len(batch') = 0
      /\ age' = 0 /\ batches_sent' \in Nat
      /\ BatchesCarryFrames'
  BY <1>1, FlushCounts
<1>3. TypeOK'
  BY <1>1, <1>2 DEF TypeOK
<1>4. Bounds'
  <2>1. BatchLimit' = BatchLimit /\ BatchLimit \in Nat \ {0}
    BY Lengths DEF BatchLimit
  <2> QED  BY <1>1, <1>2, <2>1 DEF Bounds
<1>5. PartialBatchWaitsAtMostTimeout' /\ NobodyWaits'
  BY <1>1, <1>2, ShimAssumption DEF PartialBatchWaitsAtMostTimeout, NobodyWaits, TypeOK
<1>6. Numbering'
  BY <1>1, <1>2 DEF Numbering
<1> QED  BY <1>2, <1>3, <1>4, <1>5, <1>6

LEMMA TickIInv == IInv /\ Tick => IInv'
<1> SUFFICES ASSUME IInv, Tick PROVE IInv'
  OBVIOUS
<1> USE DEF IInv
<1>1. /\ deadline > 0 /\ deadline' = deadline - 1
      /\ deadline \in 0..BatchTimeout /\ age \in Nat
      /\ age' = IF batch = <<>> THEN 0 ELSE age + 1
      /\ UNCHANGED <<ingest, frame_counter, unsent, channel, dispatcher, batch,
                     dispatched, batches_sent, signalled>>
  BY DEF Tick, ingestVars, TypeOK
<1>2. TypeOK'
  BY <1>1, ShimAssumption DEF TypeOK
<1>3. PartialBatchWaitsAtMostTimeout' /\ NobodyWaits'
  BY <1>1, ShimAssumption DEF PartialBatchWaitsAtMostTimeout, NobodyWaits
<1>4. Bounds' /\ BatchesCarryFrames' /\ Numbering'
  BY <1>1 DEF Bounds, BatchesCarryFrames, Numbering, BatchLimit
<1> QED  BY <1>2, <1>3, <1>4

LEMMA ShutdownIInv == IInv /\ (Shutdown \/ AbortIngest \/ AbortDispatcher) => IInv'
<1> SUFFICES ASSUME IInv, Shutdown \/ AbortIngest \/ AbortDispatcher PROVE IInv'
  OBVIOUS
<1> USE DEF IInv
<1>0. <<>> \in Seq(Nat) /\ Len(<<>>) = 0
  BY EmptySeq
<1>1. CASE Shutdown
  <2>1. /\ signalled' \in BOOLEAN
        /\ UNCHANGED <<ingest, frame_counter, unsent, channel, dispatcher, batch, deadline,
                       age, dispatched, batches_sent>>
    BY <1>1 DEF Shutdown, ingestVars, dispatchVars
  <2> QED  BY <2>1 DEF TypeOK, Bounds, BatchesCarryFrames, BatchLimit,
            PartialBatchWaitsAtMostTimeout, NobodyWaits, Numbering
<1>2. CASE AbortIngest
  <2>1. /\ ingest' = "aborted" /\ unsent' = <<>>
        /\ UNCHANGED <<frame_counter, channel, dispatcher, batch, deadline, age, dispatched,
                       batches_sent, signalled>>
    BY <1>2 DEF AbortIngest, dispatchVars
  <2>2. TypeOK'
    BY <1>0, <2>1 DEF TypeOK
  <2>3. Numbering'
    BY <1>0, <2>1 DEF Numbering, Numbered
  <2> QED  BY <1>0, <2>1, <2>2, <2>3 DEF Bounds, BatchesCarryFrames, BatchLimit,
            PartialBatchWaitsAtMostTimeout, NobodyWaits
<1>3. CASE AbortDispatcher
  <2>1. /\ dispatcher' = "aborted" /\ batch' = <<>> /\ channel' = <<>> /\ age' = 0
        /\ UNCHANGED <<ingest, frame_counter, unsent, deadline, dispatched, batches_sent,
                       signalled>>
    BY <1>3 DEF AbortDispatcher, ingestVars
  <2>2. TypeOK'
    BY <1>0, <2>1 DEF TypeOK
  <2>3. Bounds'
    BY <1>0, <2>1, Lengths, ShimAssumption DEF Bounds, BatchLimit
  <2>4. PartialBatchWaitsAtMostTimeout' /\ NobodyWaits'
    BY <2>1, ShimAssumption DEF PartialBatchWaitsAtMostTimeout, NobodyWaits, TypeOK
  <2>5. BatchesCarryFrames' /\ Numbering'
    BY <2>1 DEF BatchesCarryFrames, BatchLimit, Numbering
  <2> QED  BY <2>2, <2>3, <2>4, <2>5
<1> QED  BY <1>1, <1>2, <1>3

LEMMA Invariant == Spec => []IInv
<1>1. Init => IInv
  BY InitIInv
<1>2. IInv /\ [Next]_vars => IInv'
  <2>1. IInv /\ UNCHANGED vars => IInv'
    BY DEF vars, ingestVars, dispatchVars, IInv, TypeOK, Bounds, BatchesCarryFrames,
       BatchLimit, PartialBatchWaitsAtMostTimeout, NobodyWaits, Numbering
  <2> QED  BY <2>1, ReceiveFrameIInv, SendUnblockedIInv, QueueFrameIInv, DeadlineElapsedIInv,
            ChannelClosedIInv, TickIInv, ShutdownIInv DEF Next
<1> QED  BY <1>1, <1>2, PTL DEF Spec

(* The type invariant of the two tasks, their channel and their counters.   *)
THEOREM TypeCorrect == Spec => []TypeOK
<1>1. IInv => TypeOK
  BY DEF IInv
<1> QED  BY <1>1, Invariant, PTL

(* The channel keeps to its capacity and the batch below its threshold,     *)
(* also for --max-batch 0.                                                  *)
THEOREM BoundsKept == Spec => []Bounds
<1>1. IInv => Bounds
  BY DEF IInv
<1> QED  BY <1>1, Invariant, PTL

(* No empty and no oversized batch is ever sent.                            *)
THEOREM BatchesCounted == Spec => []BatchesCarryFrames
<1>1. IInv => BatchesCarryFrames
  BY DEF IInv
<1> QED  BY <1>1, Invariant, PTL

(* A frame waits in a partial batch for the timeout at most.                *)
THEOREM WaitBounded == Spec => []PartialBatchWaitsAtMostTimeout
<1>1. IInv => PartialBatchWaitsAtMostTimeout
  BY DEF IInv
<1> QED  BY <1>1, Invariant, PTL

(* Numbered from 1 is the sequence of the first frames.                     *)
LEMMA NumberedIsFirstFrames ==
    ASSUME NEW s \in Seq(Nat), Numbered(s, 0)
    PROVE  s = FirstFrames(Len(s))
<1>1. Len(s) \in Nat /\ DOMAIN s = 1..Len(s) /\ s = [i \in 1..Len(s) |-> s[i]]
  BY LenProperties
<1>2. \A i \in 1..Len(s) : s[i] = i
  BY DEF Numbered
<1> QED  BY <1>1, <1>2 DEF FirstFrames

(* What the shim holds, seen as one sequence.                               *)
LEMMA InShimNumbered ==
    ASSUME IInv
    PROVE  /\ InShim \in Seq(Nat)
           /\ dispatcher # "running" => InShim = <<>>
           /\ dispatcher = "running" =>
                 /\ Len(InShim) = Len(batch) + Len(channel) + Len(unsent)
                 /\ Numbered(InShim, Len(dispatched))
<1> USE DEF IInv
<1>1. CASE dispatcher = "running"
  <2> DEFINE bc == batch \o channel
             bcu == bc \o unsent
  <2>0. InShim = bcu
    BY <1>1 DEF InShim
  <2>1. /\ bc \in Seq(Nat) /\ Len(bc) = Len(batch) + Len(channel)
        /\ Numbered(bc, Len(dispatched))
    <3>1. batch \in Seq(Nat) /\ channel \in Seq(Nat) /\ Len(dispatched) \in Nat
      BY Lengths DEF TypeOK
    <3>2. Numbered(batch, Len(dispatched)) /\ Numbered(channel, Len(dispatched) + Len(batch))
      BY <1>1 DEF Numbering
    <3> QED  BY <3>1, <3>2, NumberedConcat
  <2> HIDE DEF bc
  <2>2. /\ bcu \in Seq(Nat) /\ Len(bcu) = Len(batch) + Len(channel) + Len(unsent)
        /\ Numbered(bcu, Len(dispatched))
    <3>1. unsent \in Seq(Nat) /\ Len(dispatched) \in Nat
      BY Lengths DEF TypeOK
    <3>2. Numbered(unsent, Len(dispatched) + Len(batch) + Len(channel))
      BY <1>1 DEF Numbering
    <3>3. Len(dispatched) + Len(batch) + Len(channel) = Len(dispatched) + Len(bc)
      BY <2>1, Lengths
    <3>4. Numbered(unsent, Len(dispatched) + Len(bc))
      BY <3>2, <3>3
    <3> QED  BY <2>1, <3>1, <3>4, NumberedConcat
  <2> HIDE DEF bcu
  <2> QED  BY <1>1, <2>0, <2>2
<1>2. CASE dispatcher # "running"
  BY <1>2, EmptySeq DEF InShim
<1> QED  BY <1>1, <1>2

(* No frame is lost, duplicated or overtaken between the socket and the     *)
(* router while the tasks run, and nothing is dispatched around a gap.      *)
THEOREM FramesInOrder == Spec => []NoFrameLostOrReordered
<1>1. IInv => NoFrameLostOrReordered
  <2> SUFFICES ASSUME IInv PROVE NoFrameLostOrReordered
    OBVIOUS
  <2> USE DEF IInv
  <2>1. dispatched = FirstFrames(Len(dispatched))
    BY NumberedIsFirstFrames DEF Numbering, TypeOK
  <2>2. ASSUME dispatcher = "running"
        PROVE  /\ dispatched \o InShim = FirstFrames(Len(dispatched \o InShim))
               /\ ingest # "aborted" => Len(dispatched \o InShim) = frame_counter
    <3> DEFINE all == dispatched \o InShim
    <3>1. /\ InShim \in Seq(Nat) /\ Numbered(InShim, Len(dispatched))
          /\ Len(InShim) = Len(batch) + Len(channel) + Len(unsent)
      BY <2>2, InShimNumbered
    <3>3. /\ all \in Seq(Nat) /\ Len(all) = Len(dispatched) + Len(InShim) /\ Numbered(all, 0)
      <4>1. dispatched \in Seq(Nat) /\ Numbered(dispatched, 0) /\ 0 \in Nat
        BY DEF TypeOK, Numbering
      <4>2. Numbered(InShim, 0 + Len(dispatched))
        BY <3>1, Lengths
      <4> QED  BY <3>1, <4>1, <4>2, NumberedConcat
    <3>4. ingest # "aborted" => Len(all) = frame_counter
      <4>1. Len(all) = Len(dispatched) + Len(batch) + Len(channel) + Len(unsent)
        BY <3>1, <3>3, Lengths
      <4> QED  BY <2>2, <4>1 DEF Numbering
    <3> HIDE DEF all
    <3>5. all = FirstFrames(Len(all))
      BY <3>3, NumberedIsFirstFrames
    <3> QED  BY <3>4, <3>5 DEF all
  <2> QED  BY <2>1, <2>2 DEF NoFrameLostOrReordered
<1> QED  BY <1>1, Invariant, PTL

------------------------------------------------------------------------------
(* Refinement *)

LEMMA SameNumbers ==
    ASSUME NEW s \in Seq(Nat), NEW t \in Seq(Nat), NEW from \in Nat,
           Numbered(s, from), Numbered(t, from), Len(s) = Len(t)
    PROVE  s = t
BY SeqEqual DEF Numbered

LEMMA NumberedSubSeq ==
    ASSUME NEW s \in Seq(Nat), NEW from \in Nat, Numbered(s, from),
           NEW m \in Nat \ {0}, NEW n \in Nat, n <= Len(s), m <= n + 1
    PROVE  /\ SubSeq(s, m, n) \in Seq(Nat)
           /\ Len(SubSeq(s, m, n)) = n - m + 1
           /\ Numbered(SubSeq(s, m, n), from + m - 1)
<1>1. Len(s) \in Nat /\ \A i \in m..n : s[i] \in Nat
  BY LenProperties, ElementOfSeq
<1> DEFINE t == SubSeq(s, m, n)
<1>2. /\ t \in Seq(Nat)
      /\ Len(t) = IF m <= n THEN n - m + 1 ELSE 0
      /\ \A i \in 1..(n - m + 1) : t[i] = s[m + i - 1]
  BY <1>1, SubSeqProperties
<1> HIDE DEF t
<1>3. Len(t) = n - m + 1
  BY <1>2
<1>4. \A i \in 1..Len(t) : m + i - 1 \in 1..Len(s) /\ s[m + i - 1] = from + (m + i - 1)
  BY <1>1, <1>3 DEF Numbered
<1>5. Numbered(t, from + m - 1)
  BY <1>2, <1>3, <1>4 DEF Numbered
<1> QED  BY <1>2, <1>3, <1>5 DEF t

(* Taking the n oldest frames out of the shim in one batch delivers them.   *)
LEMMA BatchDelivers ==
    ASSUME IInv, IInv', dispatcher = "running",
           NEW n \in 1..BatchLimit, n <= Len(InShim),
           Len(dispatched') = Len(dispatched) + n,
           Len(InShim') = Len(InShim) - n,
           Numbered(InShim', Len(dispatched')),
           UNCHANGED <<frame_counter, signalled>>
    PROVE  Relay!Deliver
<1> USE DEF IInv
<1>1. /\ InShim \in Seq(Nat) /\ Numbered(InShim, Len(dispatched))
      /\ InShim' \in Seq(Nat) /\ Len(InShim) \in Nat /\ n \in Nat
      /\ Len(dispatched) \in Nat
  <2>1. batch' \in Seq(Nat) /\ channel' \in Seq(Nat) /\ unsent' \in Seq(Nat)
    BY DEF TypeOK
  <2>2. InShim' \in Seq(Nat)
    <3>1. batch' \o channel' \in Seq(Nat)
      BY <2>1, ConcatProperties
    <3>2. (batch' \o channel') \o unsent' \in Seq(Nat)
      BY <2>1, <3>1, ConcatProperties
    <3>3. <<>> \in Seq(Nat)
      BY EmptySeq
    <3> QED  BY <3>2, <3>3 DEF InShim
  <2>3. InShim \in Seq(Nat) /\ Numbered(InShim, Len(dispatched))
    BY InShimNumbered
  <2> QED  BY <2>2, <2>3, Lengths, LenProperties
<1>2. /\ SubSeq(InShim, 1, n) \in Seq(Nat) /\ Len(SubSeq(InShim, 1, n)) = n
      /\ Numbered(SubSeq(InShim, 1, n), Len(dispatched))
  <2>1. /\ SubSeq(InShim, 1, n) \in Seq(Nat) /\ Len(SubSeq(InShim, 1, n)) = n - 1 + 1
        /\ Numbered(SubSeq(InShim, 1, n), Len(dispatched) + 1 - 1)
    BY <1>1, NumberedSubSeq
  <2>2. n - 1 + 1 = n /\ Len(dispatched) + 1 - 1 = Len(dispatched)
    BY <1>1
  <2> QED  BY <2>1, <2>2
<1>3. dispatched' = dispatched \o SubSeq(InShim, 1, n)
  <2> DEFINE s == SubSeq(InShim, 1, n)
  <2>1. s \in Seq(Nat) /\ Len(s) = n /\ Numbered(s, 0 + Len(dispatched))
    BY <1>1, <1>2
  <2> HIDE DEF s
  <2>2. dispatched \in Seq(Nat) /\ Numbered(dispatched, 0) /\ 0 \in Nat
    BY DEF TypeOK, Numbering
  <2>3. /\ dispatched \o s \in Seq(Nat) /\ Len(dispatched \o s) = Len(dispatched) + Len(s)
        /\ Numbered(dispatched \o s, 0)
    BY <2>1, <2>2, NumberedConcat
  <2> DEFINE ds == dispatched \o s
  <2>4. ds \in Seq(Nat) /\ Len(ds) = Len(dispatched') /\ Numbered(ds, 0)
    BY <2>1, <2>3
  <2> HIDE DEF ds
  <2>5. dispatched' \in Seq(Nat) /\ Numbered(dispatched', 0)
    BY DEF TypeOK, Numbering
  <2>6. dispatched' = ds
    BY <2>2, <2>4, <2>5, SameNumbers
  <2> QED  BY <2>6 DEF ds, s
<1>4. InShim' = SubSeq(InShim, n + 1, Len(InShim))
  <2> DEFINE t == SubSeq(InShim, n + 1, Len(InShim))
  <2>1. /\ t \in Seq(Nat) /\ Len(t) = Len(InShim) - (n + 1) + 1
        /\ Numbered(t, Len(dispatched) + (n + 1) - 1)
    <3>1. n + 1 \in Nat \ {0} /\ n + 1 <= Len(InShim) + 1 /\ Len(InShim) <= Len(InShim)
      BY <1>1
    <3> QED  BY <1>1, <3>1, NumberedSubSeq
  <2> HIDE DEF t
  <2>2. Len(InShim) - (n + 1) + 1 = Len(InShim) - n
    BY <1>1
  <2>3. Len(dispatched) + (n + 1) - 1 = Len(dispatched')
    BY <1>1
  <2>4. Len(t) = Len(InShim') /\ Numbered(t, Len(dispatched')) /\ Len(dispatched') \in Nat
    BY <1>1, <2>1, <2>2, <2>3
  <2> QED  BY <1>1, <2>1, <2>4, SameNumbers DEF t
<1>5. n \in 1..BatchLimit /\ n <= Len(InShim)
  OBVIOUS
<1> QED  BY <1>3, <1>4, <1>5 DEF Relay!Deliver

(* InShimNumbered of the next state.                                        *)
LEMMA InShimNext ==
    ASSUME IInv'
    PROVE  /\ InShim' \in Seq(Nat) /\ Len(InShim') \in Nat
           /\ dispatcher' # "running" => InShim' = <<>> /\ Len(InShim') = 0
           /\ dispatcher' = "running" =>
                 /\ Len(InShim') = Len(batch') + Len(channel') + Len(unsent')
                 /\ Numbered(InShim', Len(dispatched'))
<1>1. /\ batch' \in Seq(Nat) /\ channel' \in Seq(Nat) /\ unsent' \in Seq(Nat)
      /\ dispatched' \in Seq(Nat)
  BY DEF IInv, TypeOK
<1>2. /\ Len(batch') \in Nat /\ Len(channel') \in Nat /\ Len(unsent') \in Nat
      /\ Len(dispatched') \in Nat
  BY <1>1, LenProperties
<1>3. <<>> \in Seq(Nat) /\ Len(<<>>) = 0
  BY EmptySeq
<1>4. CASE dispatcher' = "running"
  <2>1. /\ Numbered(batch', Len(dispatched'))
        /\ Numbered(channel', Len(dispatched') + Len(batch'))
        /\ Numbered(unsent', Len(dispatched') + Len(batch') + Len(channel'))
    BY <1>4 DEF IInv, Numbering
  <2> DEFINE bc == batch' \o channel'
  <2>2. /\ bc \in Seq(Nat) /\ Len(bc) = Len(batch') + Len(channel')
        /\ Numbered(bc, Len(dispatched'))
    BY <1>1, <1>2, <2>1, NumberedConcat
  <2>3. InShim' = bc \o unsent'
    BY <1>4 DEF InShim
  <2> HIDE DEF bc
  <2>4. Len(dispatched') + Len(batch') + Len(channel') = Len(dispatched') + Len(bc)
    BY <1>2, <2>2
  <2>5. Numbered(unsent', Len(dispatched') + Len(bc))
    BY <2>1, <2>4
  <2> DEFINE bcu == bc \o unsent'
  <2>6. /\ bcu \in Seq(Nat) /\ Len(bcu) = Len(bc) + Len(unsent')
        /\ Numbered(bcu, Len(dispatched'))
    BY <1>1, <1>2, <2>2, <2>5, NumberedConcat
  <2> HIDE DEF bcu
  <2>7. InShim' = bcu
    BY <2>3 DEF bcu
  <2> QED  BY <1>2, <1>4, <2>2, <2>6, <2>7
<1>5. CASE dispatcher' # "running"
  BY <1>3, <1>5 DEF InShim
<1> QED  BY <1>4, <1>5

(* Frames that stay, seen from both sides of a step, are the same frames.   *)
LEMMA SameFrames ==
    ASSUME IInv, IInv', dispatcher = "running", dispatcher' = "running",
           Len(dispatched') = Len(dispatched), Len(InShim') = Len(InShim)
    PROVE  InShim' = InShim
<1>1. InShim \in Seq(Nat) /\ Numbered(InShim, Len(dispatched))
  BY InShimNumbered
<1>2. InShim' \in Seq(Nat) /\ Numbered(InShim', Len(dispatched))
  BY InShimNext
<1>3. Len(dispatched) \in Nat
  BY Lengths DEF IInv
<1> QED  BY <1>1, <1>2, <1>3, SameNumbers

(* While the shim is going down, a step that leaves a beginning of what the *)
(* shim holds is a Drop.                                                    *)
LEMMA PrefixDrops ==
    ASSUME IInv, IInv', dispatcher = "running", signalled,
           Len(InShim') <= Len(InShim), Numbered(InShim', Len(dispatched)),
           UNCHANGED <<frame_counter, dispatched, signalled>>
    PROVE  Relay!Drop
<1> DEFINE n == Len(InShim')
<1>1. /\ InShim \in Seq(Nat) /\ Numbered(InShim, Len(dispatched)) /\ Len(InShim) \in Nat
      /\ Len(dispatched) \in Nat
  BY InShimNumbered, Lengths, LenProperties DEF IInv
<1>2. InShim' \in Seq(Nat) /\ n \in Nat
  BY InShimNext
<1>3. n <= Len(InShim)
  OBVIOUS
<1> DEFINE t == SubSeq(InShim, 1, n)
<1>4. /\ t \in Seq(Nat) /\ Len(t) = n /\ Numbered(t, Len(dispatched))
  <2> HIDE DEF n
  <2>1. 1 \in Nat \ {0} /\ 1 <= n + 1
    BY <1>2
  <2>2. /\ t \in Seq(Nat) /\ Len(t) = n - 1 + 1 /\ Numbered(t, Len(dispatched) + 1 - 1)
    BY <1>1, <1>2, <1>3, <2>1, NumberedSubSeq
  <2>3. n - 1 + 1 = n /\ Len(dispatched) + 1 - 1 = Len(dispatched)
    BY <1>1, <1>2
  <2> QED  BY <2>2, <2>3
<1> HIDE DEF t
<1>5. InShim' = t
  BY <1>1, <1>2, <1>4, SameNumbers
<1>6. n \in 0..Len(InShim)
  BY <1>1, <1>2, <1>3
<1> QED  BY <1>5, <1>6 DEF Relay!Drop, t

(* A task is only ever aborted, or runs into a closed channel, once main    *)
(* has been signalled.                                                      *)
DownOnlySignalled == dispatcher # "running" \/ ingest = "aborted" => signalled

RInv == IInv /\ DownOnlySignalled

LEMMA RInvariant == Spec => []RInv
<1>1. Init => DownOnlySignalled
  BY DEF Init, DownOnlySignalled
<1>2. DownOnlySignalled /\ [Next]_vars => DownOnlySignalled'
  BY DEF DownOnlySignalled, Next, ReceiveFrame, SendUnblocked, QueueFrame, DeadlineElapsed,
     ChannelClosed, Tick, Shutdown, AbortIngest, AbortDispatcher, vars, ingestVars, dispatchVars
<1> QED  BY <1>1, <1>2, Invariant, PTL DEF Spec, RInv

LEMMA ReceiveFrameRefines ==
    ASSUME RInv, RInv', ReceiveFrame
    PROVE  Relay!RelayNext
<1> USE DEF RInv
<1>1. /\ ingest = "receiving" /\ frame_counter' = frame_counter + 1
      /\ UNCHANGED <<dispatcher, batch, dispatched, signalled>>
  BY DEF ReceiveFrame, dispatchVars
<1>2. CASE dispatcher = "running"
  <2>1. /\ InShim \in Seq(Nat) /\ Numbered(InShim, Len(dispatched))
        /\ Len(InShim) = Len(batch) + Len(channel) + Len(unsent)
        /\ InShim' \in Seq(Nat) /\ Numbered(InShim', Len(dispatched))
        /\ Len(InShim') = Len(batch) + Len(channel') + Len(unsent')
    BY <1>1, <1>2, InShimNumbered, InShimNext
  <2>2. /\ Len(dispatched) + Len(batch) + Len(channel) + Len(unsent) = frame_counter
        /\ Len(dispatched) + Len(batch) + Len(channel') + Len(unsent') = frame_counter + 1
    <3>1. ingest' # "aborted"
      BY <1>1, <1>2 DEF ReceiveFrame
    <3> QED  BY <1>1, <1>2, <3>1 DEF IInv, Numbering
  <2>3. /\ Len(dispatched) \in Nat /\ Len(batch) \in Nat /\ Len(channel) \in Nat
        /\ Len(unsent) \in Nat /\ Len(channel') \in Nat /\ Len(unsent') \in Nat
        /\ frame_counter \in Nat
    <3>1. channel' \in Seq(Nat) /\ unsent' \in Seq(Nat) /\ frame_counter \in Nat
      BY DEF IInv, TypeOK
    <3> QED  BY <3>1, Lengths, LenProperties DEF IInv
  <2>4. frame_counter + 1 = Len(dispatched) + Len(InShim) + 1 /\ Len(InShim') = Len(InShim) + 1
    BY <2>1, <2>2, <2>3
  <2> DEFINE t == Append(InShim, frame_counter + 1)
  <2>5. t \in Seq(Nat) /\ Len(t) = Len(InShim) + 1 /\ Numbered(t, Len(dispatched))
    <3>1. frame_counter + 1 \in Nat
      BY <2>3
    <3> QED  BY <2>1, <2>3, <2>4, <3>1, NumberedAppend
  <2> HIDE DEF t
  <2>6. InShim' = t
    BY <2>1, <2>3, <2>4, <2>5, SameNumbers
  <2> QED  BY <1>1, <2>6 DEF Relay!RelayNext, Relay!Accept, t
<1>3. CASE dispatcher # "running"
  <2>1. InShim = <<>> /\ InShim' = <<>> /\ Len(<<>>) = 0
    BY <1>1, <1>3, InShimNumbered, InShimNext, EmptySeq
  <2>2. SubSeq(<<>>, 1, 0) = <<>>
    OBVIOUS
  <2>3. signalled
    BY <1>3 DEF DownOnlySignalled
  <2>4. Relay!Drop
    <3>1. InShim' = SubSeq(InShim, 1, 0) /\ 0 \in 0..Len(InShim)
      BY <2>1, <2>2
    <3> QED  BY <1>1, <2>3, <3>1 DEF Relay!Drop
  <2> QED  BY <2>4 DEF Relay!RelayNext
<1> QED  BY <1>2, <1>3

LEMMA SendUnblockedRefines ==
    ASSUME RInv, RInv', SendUnblocked
    PROVE  UNCHANGED Relay!relayVars
<1> USE DEF RInv
<1>1. UNCHANGED <<frame_counter, dispatcher, batch, dispatched, signalled>>
  BY DEF SendUnblocked, dispatchVars
<1>2. CASE dispatcher = "running"
  <2>1. ingest # "aborted" /\ ingest' # "aborted"
    BY DEF SendUnblocked
  <2>2. /\ Len(dispatched) + Len(batch) + Len(channel) + Len(unsent) = frame_counter
        /\ Len(dispatched) + Len(batch) + Len(channel') + Len(unsent') = frame_counter
    BY <1>1, <1>2, <2>1 DEF IInv, Numbering
  <2>3. /\ Len(InShim) = Len(batch) + Len(channel) + Len(unsent)
        /\ Len(InShim') = Len(batch) + Len(channel') + Len(unsent')
    BY <1>1, <1>2, InShimNumbered, InShimNext
  <2>4. /\ Len(dispatched) \in Nat /\ Len(batch) \in Nat /\ Len(channel) \in Nat
        /\ Len(unsent) \in Nat /\ Len(channel') \in Nat /\ Len(unsent') \in Nat
    <3>1. channel' \in Seq(Nat) /\ unsent' \in Seq(Nat)
      BY DEF IInv, TypeOK
    <3> QED  BY <3>1, Lengths, LenProperties DEF IInv
  <2>5. Len(InShim') = Len(InShim)
    BY <2>2, <2>3, <2>4
  <2>6. InShim' = InShim
    BY <1>1, <1>2, <2>5, SameFrames
  <2> QED  BY <1>1, <2>6 DEF Relay!relayVars
<1>3. CASE dispatcher # "running"
  BY <1>1, <1>3, InShimNumbered, InShimNext DEF Relay!relayVars
<1> QED  BY <1>2, <1>3

LEMMA QueueFrameRefines ==
    ASSUME RInv, RInv', QueueFrame
    PROVE  [Relay!RelayNext]_(Relay!relayVars)
<1> USE DEF RInv
<1>1. /\ dispatcher = "running" /\ dispatcher' = "running" /\ channel # <<>>
      /\ channel' = Tail(channel)
      /\ UNCHANGED <<frame_counter, unsent, signalled>>
  BY DEF QueueFrame, ingestVars
<1>2. /\ Len(InShim) = Len(batch) + Len(channel) + Len(unsent)
      /\ Len(InShim') = Len(batch') + Len(channel') + Len(unsent)
      /\ Numbered(InShim', Len(dispatched'))
  BY <1>1, InShimNumbered, InShimNext
<1>3. /\ Len(dispatched) \in Nat /\ Len(batch) \in Nat /\ Len(channel) \in Nat
      /\ Len(unsent) \in Nat /\ BatchLimit \in Nat
  BY Lengths DEF IInv
<1>4. /\ Len(channel') = Len(channel) - 1 /\ Len(channel) >= 1 /\ Head(channel) \in Nat
      /\ channel \in Seq(Nat) /\ batch \in Seq(Nat)
  <2>1. channel \in Seq(Nat) /\ batch \in Seq(Nat)
    BY DEF IInv, TypeOK
  <2>2. Len(channel) # 0
    BY <1>1, <2>1, EmptySeq
  <2> QED  BY <1>1, <1>3, <2>1, <2>2, HeadTailProperties
<1> DEFINE queued == Append(batch, Head(channel))
           n == Len(batch) + 1
<1>5. queued \in Seq(Nat) /\ Len(queued) = n
  BY <1>4, AppendProperties
<1> HIDE DEF queued
<1>6. CASE Dispatch(queued)
  <2>1. dispatched' = dispatched \o queued /\ batch' = <<>> /\ Len(batch') = 0
    BY <1>6, EmptySeq DEF Dispatch
  <2>2. Len(dispatched') = Len(dispatched) + n
    <3>1. dispatched \in Seq(Nat)
      BY DEF IInv, TypeOK
    <3>2. Len(dispatched \o queued) = Len(dispatched) + Len(queued)
      BY <1>5, <3>1, ConcatProperties
    <3> QED  BY <1>5, <2>1, <3>2
  <2>3. n \in 1..BatchLimit /\ n <= Len(InShim) /\ Len(InShim') = Len(InShim) - n
    <3>1. Len(batch) < BatchLimit
      BY DEF IInv, Bounds
    <3> QED  BY <1>2, <1>3, <1>4, <2>1, <3>1
  <2> HIDE DEF n
  <2>4. Relay!Deliver
    BY <1>1, <1>2, <2>2, <2>3, BatchDelivers
  <2> QED  BY <2>4 DEF Relay!RelayNext
<1>7. CASE batch' = queued /\ UNCHANGED dispatched
  <2>1. Len(InShim') = Len(InShim) /\ Len(dispatched') = Len(dispatched)
    <3>1. Len(batch') = n /\ Len(dispatched') = Len(dispatched)
      BY <1>5, <1>7
    <3>2. Len(InShim') = n + (Len(channel) - 1) + Len(unsent)
      BY <1>2, <1>4, <3>1
    <3> QED  BY <1>2, <1>3, <1>4, <3>1, <3>2
  <2>2. InShim' = InShim
    BY <1>1, <2>1, SameFrames
  <2> QED  BY <1>1, <1>7, <2>2 DEF Relay!relayVars
<1> QED  BY <1>6, <1>7 DEF QueueFrame, queued

LEMMA DeadlineElapsedRefines ==
    ASSUME RInv, RInv', DeadlineElapsed
    PROVE  [Relay!RelayNext]_(Relay!relayVars)
<1> USE DEF RInv
<1>1. /\ dispatcher = "running" /\ dispatcher' = "running"
      /\ \/ batch # <<>> /\ Dispatch(batch)
         \/ batch = <<>> /\ UNCHANGED <<batch, age, dispatched, batches_sent>>
      /\ UNCHANGED <<frame_counter, unsent, channel, signalled>>
  BY DEF DeadlineElapsed, ingestVars
<1>2. /\ Len(dispatched') = Len(dispatched) + Len(batch) /\ Len(batch') = 0
  BY <1>1, FlushCounts
<1>3. /\ Len(dispatched) \in Nat /\ Len(batch) \in Nat /\ Len(channel) \in Nat
      /\ Len(unsent) \in Nat /\ BatchLimit \in Nat
  BY Lengths DEF IInv
<1>4. /\ Len(InShim) = Len(batch) + Len(channel) + Len(unsent)
      /\ Len(InShim') = Len(batch') + Len(channel) + Len(unsent)
      /\ Numbered(InShim', Len(dispatched'))
  BY <1>1, InShimNumbered, InShimNext
<1>5. Len(InShim') = Len(InShim) - Len(batch) /\ Len(batch) <= Len(InShim)
  BY <1>2, <1>3, <1>4
<1>6. CASE batch # <<>>
  <2>1. Len(batch) \in 1..BatchLimit
    <3>1. batch \in Seq(Nat) /\ Len(batch) < BatchLimit
      BY DEF IInv, TypeOK, Bounds
    <3>2. Len(batch) # 0
      BY <1>6, <3>1, EmptySeq
    <3> QED  BY <1>3, <3>1, <3>2
  <2>2. Relay!Deliver
    BY <1>1, <1>2, <1>4, <1>5, <2>1, BatchDelivers
  <2> QED  BY <2>2 DEF Relay!RelayNext
<1>7. CASE batch = <<>>
  <2>1. Len(batch) = 0 /\ UNCHANGED dispatched
    BY <1>1, <1>7, EmptySeq
  <2>2. Len(InShim') = Len(InShim) /\ Len(dispatched') = Len(dispatched)
    <3>1. Len(InShim') = Len(InShim) - 0 /\ Len(InShim) \in Nat
      BY <1>3, <1>4, <1>5, <2>1
    <3> QED  BY <2>1, <3>1
  <2>3. InShim' = InShim
    BY <1>1, <2>2, SameFrames
  <2> QED  BY <1>1, <2>1, <2>3 DEF Relay!relayVars
<1> QED  BY <1>6, <1>7

LEMMA ChannelClosedRefines ==
    ASSUME RInv, RInv', ChannelClosed
    PROVE  [Relay!RelayNext]_(Relay!relayVars)
<1> USE DEF RInv
<1>1. /\ dispatcher = "running" /\ dispatcher' = "returned"
      /\ ingest = "aborted" /\ channel = <<>>
      /\ \/ batch # <<>> /\ Dispatch(batch)
         \/ batch = <<>> /\ UNCHANGED <<batch, age, dispatched, batches_sent>>
      /\ UNCHANGED <<frame_counter, signalled>>
  BY DEF ChannelClosed, ingestVars
<1>2. Len(dispatched') = Len(dispatched) + Len(batch)
  BY <1>1, FlushCounts
<1>3. Len(dispatched) \in Nat /\ Len(batch) \in Nat /\ BatchLimit \in Nat
  BY Lengths DEF IInv
<1>4. unsent = <<>> /\ Len(unsent) = 0 /\ Len(channel) = 0
  BY <1>1, EmptySeq DEF IInv, Bounds
<1>5. InShim \in Seq(Nat) /\ Len(InShim) = Len(batch)
  <2>1. InShim \in Seq(Nat) /\ Len(InShim) = Len(batch) + Len(channel) + Len(unsent)
    BY <1>1, InShimNumbered
  <2> QED  BY <1>3, <1>4, <2>1
<1>6. InShim' = <<>> /\ Len(InShim') = 0 /\ Numbered(InShim', Len(dispatched'))
  <2>1. InShim' = <<>> /\ Len(InShim') = 0
    BY <1>1, InShimNext
  <2> QED  BY <2>1 DEF Numbered
<1>7. CASE batch # <<>>
  <2>1. Len(batch) \in 1..BatchLimit
    <3>1. batch \in Seq(Nat) /\ Len(batch) < BatchLimit
      BY DEF IInv, TypeOK, Bounds
    <3>2. Len(batch) # 0
      BY <1>7, <3>1, EmptySeq
    <3> QED  BY <1>3, <3>1, <3>2
  <2>2. Len(InShim') = Len(InShim) - Len(batch) /\ Len(batch) <= Len(InShim)
    BY <1>3, <1>5, <1>6
  <2>3. Relay!Deliver
    BY <1>1, <1>2, <1>6, <2>1, <2>2, BatchDelivers
  <2> QED  BY <2>3 DEF Relay!RelayNext
<1>8. CASE batch = <<>>
  <2>1. InShim = <<>> /\ UNCHANGED dispatched
    BY <1>1, <1>5, <1>8, EmptySeq
  <2> QED  BY <1>1, <1>6, <2>1 DEF Relay!relayVars
<1> QED  BY <1>7, <1>8

LEMMA ShutdownRefines ==
    ASSUME RInv, RInv', Shutdown \/ AbortIngest \/ AbortDispatcher
    PROVE  [Relay!RelayNext]_(Relay!relayVars)
<1> USE DEF RInv
<1>1. CASE Shutdown
  <2>1. /\ (~signalled) = TRUE /\ (~signalled') = FALSE
        /\ UNCHANGED <<frame_counter, unsent, channel, dispatcher, batch, dispatched>>
    BY <1>1 DEF Shutdown, ingestVars, dispatchVars
  <2>2. Relay!GoDown
    BY <2>1 DEF Relay!GoDown, InShim
  <2> QED  BY <2>2 DEF Relay!RelayNext
<1>2. CASE AbortIngest
  <2>1. /\ signalled /\ unsent' = <<>>
        /\ UNCHANGED <<frame_counter, channel, dispatcher, batch, dispatched, signalled>>
    BY <1>2 DEF AbortIngest, dispatchVars
  <2>2. CASE dispatcher = "running"
    <3>1. /\ Len(InShim) = Len(batch) + Len(channel) + Len(unsent)
          /\ Len(InShim') = Len(batch) + Len(channel) + Len(unsent')
          /\ Numbered(InShim', Len(dispatched))
      BY <2>1, <2>2, InShimNumbered, InShimNext
    <3>2. /\ Len(batch) \in Nat /\ Len(channel) \in Nat /\ Len(unsent) \in Nat
          /\ Len(unsent') = 0
      BY <2>1, Lengths, EmptySeq DEF IInv
    <3>3. Len(InShim') <= Len(InShim)
      BY <3>1, <3>2
    <3>4. Relay!Drop
      BY <2>1, <2>2, <3>1, <3>3, PrefixDrops
    <3> QED  BY <3>4 DEF Relay!RelayNext
  <2>3. CASE dispatcher # "running"
    BY <2>1, <2>3, InShimNumbered, InShimNext DEF Relay!relayVars
  <2> QED  BY <2>2, <2>3
<1>3. CASE AbortDispatcher
  <2>1. /\ signalled /\ dispatcher = "running" /\ dispatcher' = "aborted"
        /\ UNCHANGED <<frame_counter, dispatched, signalled>>
    BY <1>3 DEF AbortDispatcher, ingestVars
  <2>2. Len(InShim') = 0 /\ Len(InShim) \in Nat
    BY <2>1, InShimNumbered, InShimNext, LenProperties
  <2>3. Len(InShim') <= Len(InShim) /\ Numbered(InShim', Len(dispatched))
    BY <2>2 DEF Numbered
  <2>4. Relay!Drop
    BY <2>1, <2>3, PrefixDrops
  <2> QED  BY <2>4 DEF Relay!RelayNext
<1> QED  BY <1>1, <1>2, <1>3

LEMMA InitRefines == Init => Relay!RelayInit
<1> SUFFICES ASSUME Init PROVE Relay!RelayInit
  OBVIOUS
<1>1. <<>> \o <<>> = <<>> /\ (<<>> \o <<>>) \o <<>> = <<>>
  OBVIOUS
<1>2. InShim = <<>>
  BY <1>1 DEF Init, InShim
<1>3. (~signalled) = TRUE
  BY DEF Init
<1> QED  BY <1>2, <1>3 DEF Init, Relay!RelayInit

(* The ingest task, the channel, the dispatcher task and the shutdown of    *)
(* the runtime implement the frame relay.                                   *)
THEOREM ShimRefinesRelay == Spec => ImplementsRelay
<1>1. RInv /\ RInv' /\ [Next]_vars => [Relay!RelayNext]_(Relay!relayVars)
  <2> SUFFICES ASSUME RInv, RInv', [Next]_vars
               PROVE  [Relay!RelayNext]_(Relay!relayVars)
    OBVIOUS
  <2>1. CASE ReceiveFrame
    BY <2>1, ReceiveFrameRefines
  <2>2. CASE SendUnblocked
    BY <2>2, SendUnblockedRefines
  <2>3. CASE QueueFrame
    BY <2>3, QueueFrameRefines
  <2>4. CASE DeadlineElapsed
    BY <2>4, DeadlineElapsedRefines
  <2>5. CASE ChannelClosed
    BY <2>5, ChannelClosedRefines
  <2>6. CASE Tick
    BY <2>6 DEF Tick, ingestVars, InShim, Relay!relayVars
  <2>7. CASE Shutdown \/ AbortIngest \/ AbortDispatcher
    BY <2>7, ShutdownRefines
  <2>8. CASE UNCHANGED vars
    BY <2>8 DEF vars, ingestVars, dispatchVars, InShim, Relay!relayVars
  <2> QED  BY <2>1, <2>2, <2>3, <2>4, <2>5, <2>6, <2>7, <2>8 DEF Next
<1> QED  BY <1>1, InitRefines, RInvariant, PTL DEF Spec, ImplementsRelay, Relay!RelaySpec
==============================================================================
