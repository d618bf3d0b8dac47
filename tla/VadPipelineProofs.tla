-------------------------- MODULE VadPipelineProofs --------------------------
(***************************************************************************)
(* Proofs about VadPipeline, for any payloads, ring, pool and burst sizes. *)
(* vad_classify is never expanded: nothing here depends on what the Wasm   *)
(* module answers.                                                         *)
(***************************************************************************)
EXTENDS VadPipeline, SequenceTheorems, TLAPS

------------------------------------------------------------------------------
(* Increasing sequences of packet numbers, cut and put together *)

\* The packets of s, by number.
Ordered(s) == \A i, j \in 1..Len(s) : i < j => s[i] < s[j]

Precedes(s, t) == \A i \in 1..Len(s), j \in 1..Len(t) : s[i] < t[j]

Within(s, n) == \A i \in 1..Len(s) : s[i] \in 1..n

\* s is t without its first k elements, and perhaps without some at the end.
Cut(s, t, k) ==
    /\ s \in Seq(Nat) /\ k + Len(s) <= Len(t)
    /\ \A i \in 1..Len(s) : s[i] = t[i + k]

LEMMA LenIsNat == ASSUME NEW s \in Seq(Nat) PROVE Len(s) \in Nat
BY LenProperties

LEMMA ElementIsNat ==
    ASSUME NEW s \in Seq(Nat)
    PROVE  \A i \in 1..Len(s) : s[i] \in Nat
BY ElementOfSeq

LEMMA CutKeeps ==
    ASSUME NEW t \in Seq(Nat), NEW k \in Nat, NEW s, Cut(s, t, k)
    PROVE  /\ Ordered(t) => Ordered(s)
           /\ \A u \in Seq(Nat) : /\ Precedes(u, t) => Precedes(u, s)
                                  /\ Precedes(t, u) => Precedes(s, u)
           /\ \A n \in Nat : Within(t, n) => Within(s, n)
<1>1. /\ Len(s) \in Nat /\ Len(t) \in Nat
      /\ \A i \in 1..Len(s) : i + k \in 1..Len(t) /\ s[i] = t[i + k]
  BY LenIsNat DEF Cut
<1>2. Ordered(t) => Ordered(s)
  BY <1>1 DEF Ordered
<1>3. ASSUME NEW u \in Seq(Nat)
      PROVE  (Precedes(u, t) => Precedes(u, s)) /\ (Precedes(t, u) => Precedes(s, u))
  BY <1>1 DEF Precedes
<1>4. ASSUME NEW n \in Nat  PROVE  Within(t, n) => Within(s, n)
  BY <1>1 DEF Within
<1> QED  BY <1>2, <1>3, <1>4

LEMMA TailCuts ==
    ASSUME NEW s \in Seq(Nat), s # <<>>
    PROVE  /\ Cut(Tail(s), s, 1) /\ Len(Tail(s)) = Len(s) - 1
           /\ Len(s) \in Nat \ {0} /\ Head(s) = s[1] /\ Head(s) \in Nat
           /\ Ordered(s) => \A j \in 1..Len(Tail(s)) : Head(s) < Tail(s)[j]
<1>1. /\ Tail(s) \in Seq(Nat) /\ Len(Tail(s)) = Len(s) - 1
      /\ \A i \in 1..Len(Tail(s)) : Tail(s)[i] = s[i + 1]
      /\ Head(s) \in Nat
  BY HeadTailProperties
<1>2. Len(s) \in Nat \ {0}
  BY EmptySeq
<1>3. Head(s) = s[1]
  OBVIOUS
<1> DEFINE t == Tail(s)
<1> HIDE DEF t
<1>4. Cut(t, s, 1)
  BY <1>1, <1>2 DEF Cut, t
<1>5. ASSUME Ordered(s), NEW j \in 1..Len(t)  PROVE  s[1] < t[j]
  <2>1. 1 \in 1..Len(s) /\ j + 1 \in 1..Len(s) /\ 1 < j + 1 /\ t[j] = s[j + 1]
    BY <1>1, <1>2, <1>5 DEF t
  <2> QED  BY <1>5, <2>1 DEF Ordered
<1> QED  BY <1>1, <1>2, <1>3, <1>4, <1>5 DEF t

LEMMA SplitCuts ==
    ASSUME NEW s \in Seq(Nat), NEW n \in 0..Len(s)
    PROVE  /\ Cut(SubSeq(s, 1, n), s, 0) /\ Len(SubSeq(s, 1, n)) = n
           /\ Cut(SubSeq(s, n + 1, Len(s)), s, n) /\ Len(SubSeq(s, n + 1, Len(s))) = Len(s) - n
           /\ Ordered(s) => Precedes(SubSeq(s, 1, n), SubSeq(s, n + 1, Len(s)))
<1>1. /\ n \in Nat /\ Len(s) \in Nat /\ n <= Len(s)
      /\ \A i \in 1..Len(s) : s[i] \in Nat
  BY LenIsNat, ElementIsNat
<1> DEFINE a == SubSeq(s, 1, n)
           b == SubSeq(s, n + 1, Len(s))
<1>2. a \in Seq(Nat) /\ Len(a) = n /\ \A i \in 1..n : a[i] = s[i]
  <2>1. \A i \in 1..n : s[i] \in Nat
    BY <1>1
  <2>2. /\ SubSeq(s, 1, n) \in Seq(Nat)
        /\ Len(SubSeq(s, 1, n)) = IF 1 <= n THEN n - 1 + 1 ELSE 0
        /\ \A i \in 1..(n - 1 + 1) : SubSeq(s, 1, n)[i] = s[1 + i - 1]
    BY <1>1, <2>1, SubSeqProperties
  <2> HIDE DEF a
  <2>3. a \in Seq(Nat) /\ Len(a) = (IF 1 <= n THEN n - 1 + 1 ELSE 0)
        /\ \A i \in 1..(n - 1 + 1) : a[i] = s[1 + i - 1]
    BY <2>2 DEF a
  <2> QED  BY <1>1, <2>3
<1>3. b \in Seq(Nat) /\ Len(b) = Len(s) - n /\ \A i \in 1..(Len(s) - n) : b[i] = s[i + n]
  <2>1. \A i \in (n + 1)..Len(s) : s[i] \in Nat
    BY <1>1
  <2>2. /\ SubSeq(s, n + 1, Len(s)) \in Seq(Nat)
        /\ Len(SubSeq(s, n + 1, Len(s))) = IF n + 1 <= Len(s) THEN Len(s) - (n + 1) + 1 ELSE 0
        /\ \A i \in 1..(Len(s) - (n + 1) + 1) : SubSeq(s, n + 1, Len(s))[i] = s[(n + 1) + i - 1]
    BY <1>1, <2>1, SubSeqProperties
  <2> HIDE DEF b
  <2>3. b \in Seq(Nat) /\ Len(b) = (IF n + 1 <= Len(s) THEN Len(s) - (n + 1) + 1 ELSE 0)
        /\ \A i \in 1..(Len(s) - (n + 1) + 1) : b[i] = s[(n + 1) + i - 1]
    BY <2>2 DEF b
  <2> QED  BY <1>1, <2>3
<1> HIDE DEF a, b
<1>4. Cut(a, s, 0) /\ Cut(b, s, n)
  BY <1>1, <1>2, <1>3 DEF Cut
<1>5. ASSUME Ordered(s), NEW i \in 1..Len(a), NEW j \in 1..Len(b)  PROVE  a[i] < b[j]
  <2>1. /\ i \in 1..Len(s) /\ j + n \in 1..Len(s) /\ i < j + n
        /\ a[i] = s[i] /\ b[j] = s[j + n]
    BY <1>1, <1>2, <1>3, <1>5
  <2> QED  BY <1>5, <2>1 DEF Ordered
<1> QED  BY <1>2, <1>3, <1>4, <1>5 DEF a, b, Precedes

LEMMA AppendKeeps ==
    ASSUME NEW s \in Seq(Nat), NEW x \in Nat
    PROVE  /\ Append(s, x) \in Seq(Nat) /\ Len(Append(s, x)) = Len(s) + 1
           /\ Ordered(s) /\ (\A i \in 1..Len(s) : s[i] < x) => Ordered(Append(s, x))
           /\ \A u \in Seq(Nat) :
                 /\ Precedes(u, s) /\ (\A i \in 1..Len(u) : u[i] < x) => Precedes(u, Append(s, x))
                 /\ Precedes(s, u) /\ (\A i \in 1..Len(u) : x < u[i]) => Precedes(Append(s, x), u)
           /\ \A n \in Nat : Within(s, n) /\ x \in 1..n => Within(Append(s, x), n)
<1> DEFINE t == Append(s, x)
<1>1. /\ t \in Seq(Nat) /\ Len(t) = Len(s) + 1 /\ t[Len(s) + 1] = x
      /\ \A i \in 1..Len(s) : t[i] = s[i]
  <2>1. /\ Append(s, x) \in Seq(Nat) /\ Len(Append(s, x)) = Len(s) + 1
        /\ Append(s, x)[Len(s) + 1] = x
        /\ \A i \in 1..Len(s) : Append(s, x)[i] = s[i]
    BY AppendProperties
  <2> QED  BY <2>1, Zenon DEF t
<1>2. Len(s) \in Nat
  BY LenIsNat
<1> HIDE DEF t
<1>3. \A i \in 1..Len(t) : (i \in 1..Len(s) /\ t[i] = s[i]) \/ (i = Len(s) + 1 /\ t[i] = x)
  BY <1>1, <1>2
<1>4. Ordered(s) /\ (\A i \in 1..Len(s) : s[i] < x) => Ordered(t)
  <2>1. ASSUME Ordered(s), \A i \in 1..Len(s) : s[i] < x,
               NEW i \in 1..Len(t), NEW j \in 1..Len(t), i < j
        PROVE  t[i] < t[j]
    <3>1. i \in 1..Len(s) /\ t[i] = s[i]
      BY <1>1, <1>2, <2>1
    <3> QED  BY <1>3, <2>1, <3>1 DEF Ordered
  <2> QED  BY <2>1 DEF Ordered
<1>5. ASSUME NEW u \in Seq(Nat)
      PROVE  /\ Precedes(u, s) /\ (\A i \in 1..Len(u) : u[i] < x) => Precedes(u, t)
             /\ Precedes(s, u) /\ (\A i \in 1..Len(u) : x < u[i]) => Precedes(t, u)
  BY <1>3 DEF Precedes
<1>6. ASSUME NEW n \in Nat  PROVE  Within(s, n) /\ x \in 1..n => Within(t, n)
  BY <1>3 DEF Within
<1> QED  BY <1>1, <1>4, <1>5, <1>6 DEF t

------------------------------------------------------------------------------
(* The invariant *)

PipelineTypeOK ==
    /\ wire \in Seq(Payloads)
    /\ pool \in Nat /\ lost \in Nat
    /\ rx \in Seq(Nat) /\ tx \in Seq(Nat) /\ burst \in Seq(Nat) /\ sent \in Seq(Nat)
    /\ counters \in [received : Nat, speech : Nat, forwarded : Nat]
    /\ g_running \in BOOLEAN
    /\ pc \in {"init", "started", "polling", "stopped", "exited", "crashed"}

Accounts ==
    /\ pool + Len(rx) + Len(tx) + Len(burst) = PoolSize
    /\ counters.speech = counters.forwarded
    /\ counters.forwarded = Len(sent) + Len(tx) + lost
    /\ counters.received + Len(burst) + Len(rx) <= Len(wire)
    /\ pc = "stopped" => rx = <<>> /\ tx = <<>> /\ burst = <<>>

\* Oldest first: what was sent, waits to be sent, is in hand, waits to be read.
InOrder ==
    /\ Ordered(sent) /\ Ordered(tx) /\ Ordered(burst) /\ Ordered(rx)
    /\ Precedes(sent, tx) /\ Precedes(sent, burst) /\ Precedes(sent, rx)
    /\ Precedes(tx, burst) /\ Precedes(tx, rx)
    /\ Precedes(burst, rx)

Arrived ==
    /\ Within(sent, Len(wire)) /\ Within(tx, Len(wire))
    /\ Within(burst, Len(wire)) /\ Within(rx, Len(wire))

IsSpeech(packet) == Len(packet) >= ChunkSamples /\ vad_classify(packet)

OnlySpeech(s) == \A i \in 1..Len(s) : IsSpeech(wire[s[i]])

PipelineInv ==
    /\ PipelineTypeOK
    /\ Accounts
    /\ InOrder
    /\ Arrived
    /\ OnlySpeech(sent) /\ OnlySpeech(tx)

LEMMA Sizes ==
    /\ ChunkSamples \in Nat /\ PoolSize \in Nat /\ RxRing \in Nat /\ TxRing \in Nat
    /\ BurstSize \in Nat \ {0} /\ MaxFrames \in Nat
BY PipelineAssumption

LEMMA PipelineStarts ==
    ASSUME Init
    PROVE  PipelineInv
<1>1. /\ wire \in Seq(Payloads) /\ <<>> \in Seq(Nat) /\ Len(<<>>) = 0
  BY EmptySeq DEF Init
<1>2. PipelineTypeOK
  BY <1>1, Sizes DEF Init, PipelineTypeOK
<1>3. Accounts
  BY <1>1, Sizes DEF Init, Accounts
<1>4. InOrder /\ Arrived /\ OnlySpeech(sent) /\ OnlySpeech(tx)
  BY <1>1 DEF Init, InOrder, Arrived, OnlySpeech, Ordered, Precedes, Within
<1> QED  BY <1>2, <1>3, <1>4 DEF PipelineInv

LEMMA Lengths ==
    ASSUME PipelineTypeOK
    PROVE  /\ Len(wire) \in Nat /\ Len(rx) \in Nat /\ Len(tx) \in Nat
           /\ Len(burst) \in Nat /\ Len(sent) \in Nat
BY LenProperties DEF PipelineTypeOK

------------------------------------------------------------------------------
(* The steps *)

\* main outside of the loop.
LEMMA MainKeeps ==
    ASSUME PipelineInv,
           \/ StartPort \/ LoadWasm \/ Signal \/ ClassifierCrashes \/ UNCHANGED vars
    PROVE  PipelineInv'
<1>1. /\ UNCHANGED <<wire, rx, sent, burst, counters, pool, tx, lost>>
      /\ g_running' \in BOOLEAN
      /\ pc' = pc \/ pc' \in {"started", "exited", "polling", "crashed"}
  BY DEF StartPort, LoadWasm, Signal, ClassifierCrashes, vars, nicVars, loopVars, PipelineInv,
         PipelineTypeOK
<1>2. PipelineTypeOK' /\ Accounts'
  BY <1>1 DEF PipelineInv, PipelineTypeOK, Accounts
<1>3. InOrder' /\ Arrived' /\ OnlySpeech(sent)' /\ OnlySpeech(tx)'
  BY <1>1 DEF PipelineInv, InOrder, Arrived, OnlySpeech
<1> QED  BY <1>2, <1>3 DEF PipelineInv

LEMMA StopPortKeeps ==
    ASSUME PipelineInv, StopPort
    PROVE  PipelineInv'
<1>1. /\ <<>> \in Seq(Nat) /\ Len(<<>>) = 0
      /\ UNCHANGED <<wire, sent, burst, counters, g_running>>
      /\ burst = <<>> /\ rx' = <<>> /\ tx' = <<>> /\ pc' = "stopped"
      /\ pool' = pool + Len(rx) + Len(tx) /\ lost' = lost + Len(tx)
  BY EmptySeq DEF StopPort, loopVars
<1>2. PipelineTypeOK
  BY DEF PipelineInv
<1>3. PipelineTypeOK' /\ Accounts'
  BY <1>1, <1>2, Lengths, Sizes DEF PipelineInv, PipelineTypeOK, Accounts
<1>4. InOrder' /\ Arrived' /\ OnlySpeech(sent)' /\ OnlySpeech(tx)'
  BY <1>1 DEF PipelineInv, InOrder, Arrived, OnlySpeech, Ordered, Precedes, Within
<1> QED  BY <1>3, <1>4 DEF PipelineInv

LEMMA RxBurstKeeps ==
    ASSUME PipelineInv, RxBurst
    PROVE  PipelineInv'
<1>1. PICK n \in 0..Len(rx) :
        burst' = SubSeq(rx, 1, n) /\ rx' = SubSeq(rx, n + 1, Len(rx))
  <2>1. Len(rx) \in Nat
    BY Lengths DEF PipelineInv
  <2> DEFINE n == IF Len(rx) < BurstSize THEN Len(rx) ELSE BurstSize
  <2>2. n \in 0..Len(rx)
    BY <2>1, Sizes
  <2>3. burst' = SubSeq(rx, 1, n) /\ rx' = SubSeq(rx, n + 1, Len(rx))
    BY DEF RxBurst
  <2> HIDE DEF n
  <2> QED  BY <2>2, <2>3
<1>2. /\ UNCHANGED <<wire, sent, counters, pool, tx, lost, g_running, pc>>
      /\ burst = <<>> /\ pc = "polling"
  BY DEF RxBurst
<1>3. /\ PipelineTypeOK /\ rx \in Seq(Nat) /\ n \in Nat
      /\ sent \in Seq(Nat) /\ tx \in Seq(Nat) /\ Len(wire) \in Nat
  BY Lengths DEF PipelineInv, PipelineTypeOK
<1>4. /\ Cut(burst', rx, 0) /\ Len(burst') = n
      /\ Cut(rx', rx, n) /\ Len(rx') = Len(rx) - n
      /\ Precedes(burst', rx')
  BY <1>1, <1>3, SplitCuts DEF PipelineInv, InOrder
<1>5. burst' \in Seq(Nat) /\ rx' \in Seq(Nat)
  BY <1>4 DEF Cut
<1>6. PipelineTypeOK' /\ Accounts'
  <2>1. Len(burst) = 0
    BY <1>2, EmptySeq
  <2>2. PipelineTypeOK'
    BY <1>2, <1>3, <1>5 DEF PipelineTypeOK
  <2>3. /\ Len(rx) \in Nat /\ Len(tx) \in Nat /\ Accounts
        /\ pool \in Nat /\ counters.received \in Nat
    BY <1>3, Lengths DEF PipelineInv, PipelineTypeOK
  <2>4. Len(burst') + Len(rx') = Len(rx) /\ Len(burst') \in Nat /\ Len(rx') \in Nat
    BY <1>3, <1>4, <1>5, <2>3, LenIsNat
  <2>5. pool + Len(rx') + Len(tx) + Len(burst') = PoolSize
    BY <2>1, <2>3, <2>4, Sizes DEF Accounts
  <2>6. counters.received + Len(burst') + Len(rx') <= Len(wire)
    BY <1>3, <2>1, <2>3, <2>4 DEF Accounts
  <2>7. Accounts'
    BY <1>2, <2>3, <2>5, <2>6 DEF Accounts
  <2> QED  BY <2>2, <2>7
<1>7. /\ Ordered(burst') /\ Ordered(rx')
      /\ Precedes(sent, burst') /\ Precedes(sent, rx')
      /\ Precedes(tx, burst') /\ Precedes(tx, rx')
      /\ Within(burst', Len(wire)) /\ Within(rx', Len(wire))
  BY <1>3, <1>4, CutKeeps DEF PipelineInv, InOrder, Arrived
<1>8. InOrder' /\ Arrived' /\ OnlySpeech(sent)' /\ OnlySpeech(tx)'
  BY <1>2, <1>4, <1>7 DEF PipelineInv, InOrder, Arrived, OnlySpeech
<1> QED  BY <1>6, <1>8 DEF PipelineInv

\* The next packet of the burst is dropped.
LEMMA DropKeeps ==
    ASSUME PipelineInv, ProcessFrame, DropShort \/ DropSilence
    PROVE  PipelineInv'
<1>1. /\ burst # <<>> /\ burst' = Tail(burst) /\ pool' = pool + 1
      /\ counters' = [counters EXCEPT !.received = @ + 1]
      /\ UNCHANGED <<wire, rx, sent, tx, lost, g_running, pc>>
  BY DEF ProcessFrame, DropShort, DropSilence, nicVars
<1>2. /\ PipelineTypeOK /\ burst \in Seq(Nat) /\ Len(wire) \in Nat
      /\ sent \in Seq(Nat) /\ tx \in Seq(Nat) /\ rx \in Seq(Nat)
      /\ pc = "polling"
  BY Lengths DEF PipelineInv, PipelineTypeOK, ProcessFrame
<1>3. Cut(burst', burst, 1) /\ Len(burst') = Len(burst) - 1 /\ burst' \in Seq(Nat)
  BY <1>1, <1>2, TailCuts DEF Cut
<1>4. PipelineTypeOK' /\ Accounts'
  <2>1. counters \in [received : Nat, speech : Nat, forwarded : Nat] /\ pool \in Nat
    BY <1>2 DEF PipelineTypeOK
  <2>2. /\ counters' \in [received : Nat, speech : Nat, forwarded : Nat]
        /\ counters'.received = counters.received + 1
        /\ counters'.speech = counters.speech /\ counters'.forwarded = counters.forwarded
    BY <1>1, <2>1
  <2>3. PipelineTypeOK'
    BY <1>1, <1>2, <1>3, <2>1, <2>2 DEF PipelineTypeOK
  <2>4. /\ Len(rx) \in Nat /\ Len(tx) \in Nat /\ Len(burst) \in Nat
        /\ counters.received \in Nat
    BY <1>2, <2>1, Lengths
  <2>5. Accounts /\ pool' = pool + 1 /\ UNCHANGED <<wire, rx, sent, tx, lost>> /\ pc' = "polling"
    BY <1>1, <1>2 DEF PipelineInv
  <2>6. Accounts'
    BY <1>2, <1>3, <2>1, <2>2, <2>4, <2>5 DEF Accounts
  <2> QED  BY <2>3, <2>6
<1>5. /\ Ordered(burst') /\ Precedes(sent, burst') /\ Precedes(tx, burst')
      /\ Precedes(burst', rx) /\ Within(burst', Len(wire))
  BY <1>2, <1>3, CutKeeps DEF PipelineInv, InOrder, Arrived
<1>6. InOrder' /\ Arrived' /\ OnlySpeech(sent)' /\ OnlySpeech(tx)'
  BY <1>1, <1>5 DEF PipelineInv, InOrder, Arrived, OnlySpeech
<1> QED  BY <1>4, <1>6 DEF PipelineInv

\* The next packet of the burst is forwarded, or lost to a full ring.
LEMMA ForwardKeeps ==
    ASSUME PipelineInv, ProcessFrame, ForwardSpeech
    PROVE  PipelineInv'
<1> DEFINE x == Head(burst)
<1>1. /\ burst # <<>> /\ burst' = Tail(burst)
      /\ counters' = [received |-> counters.received + 1, speech |-> counters.speech + 1,
                      forwarded |-> counters.forwarded + 1]
      /\ IsSpeech(wire[x])
      /\ \/ tx' = Append(tx, x) /\ pool' = pool /\ lost' = lost
         \/ tx' = tx /\ pool' = pool + 1 /\ lost' = lost + 1
      /\ UNCHANGED <<wire, rx, sent, g_running, pc>>
  BY DEF ProcessFrame, ForwardSpeech, nicVars, IsSpeech
<1>2. /\ PipelineTypeOK /\ burst \in Seq(Nat) /\ Len(wire) \in Nat
      /\ sent \in Seq(Nat) /\ tx \in Seq(Nat) /\ rx \in Seq(Nat)
      /\ pc = "polling"
  BY Lengths DEF PipelineInv, PipelineTypeOK, ProcessFrame
<1>3. /\ Cut(burst', burst, 1) /\ Len(burst') = Len(burst) - 1 /\ burst' \in Seq(Nat)
      /\ x \in Nat /\ x = burst[1] /\ Len(burst) \in Nat \ {0}
      /\ \A j \in 1..Len(burst') : x < burst'[j]
  BY <1>1, <1>2, TailCuts DEF Cut, PipelineInv, InOrder
<1> HIDE DEF x
<1>4. /\ x \in 1..Len(wire)
      /\ \A i \in 1..Len(sent) : sent[i] < x
      /\ \A i \in 1..Len(tx) : tx[i] < x
      /\ \A i \in 1..Len(rx) : x < rx[i]
  <2>1. 1 \in 1..Len(burst)
    BY <1>3
  <2> QED  BY <1>3, <2>1 DEF PipelineInv, InOrder, Arrived, Within, Precedes
<1>5. /\ Append(tx, x) \in Seq(Nat) /\ Len(Append(tx, x)) = Len(tx) + 1
      /\ \A i \in 1..Len(tx) : Append(tx, x)[i] = tx[i]
      /\ Append(tx, x)[Len(tx) + 1] = x
      /\ Ordered(Append(tx, x))
      /\ Precedes(sent, Append(tx, x)) /\ Precedes(Append(tx, x), rx)
      /\ Within(Append(tx, x), Len(wire))
  <2>1. /\ Append(tx, x) \in Seq(Nat) /\ Len(Append(tx, x)) = Len(tx) + 1
        /\ \A i \in 1..Len(tx) : Append(tx, x)[i] = tx[i]
        /\ Append(tx, x)[Len(tx) + 1] = x
    BY <1>2, <1>3, AppendProperties
  <2>2. /\ Ordered(Append(tx, x))
        /\ Precedes(sent, Append(tx, x)) /\ Precedes(Append(tx, x), rx)
        /\ Within(Append(tx, x), Len(wire))
    BY <1>2, <1>3, <1>4, AppendKeeps DEF PipelineInv, InOrder, Arrived
  <2> QED  BY <2>1, <2>2
<1>6. PipelineTypeOK' /\ Accounts'
  <2>1. /\ pool \in Nat /\ lost \in Nat /\ counters.received \in Nat
        /\ counters.speech \in Nat /\ counters.forwarded \in Nat
    BY <1>2 DEF PipelineTypeOK
  <2>2. /\ tx' \in Seq(Nat) /\ pool' \in Nat /\ lost' \in Nat
        /\ pool' + Len(tx') = pool + Len(tx) + 1 /\ Len(tx') + lost' = Len(tx) + lost + 1
    <3>1. Len(tx) \in Nat
      BY <1>2, Lengths
    <3>2. CASE tx' = Append(tx, x) /\ pool' = pool /\ lost' = lost
      BY <1>5, <2>1, <3>1, <3>2
    <3>3. CASE tx' = tx /\ pool' = pool + 1 /\ lost' = lost + 1
      BY <1>2, <2>1, <3>1, <3>3
    <3> QED  BY <1>1, <3>2, <3>3
  <2>3. /\ Len(rx) \in Nat /\ Len(tx) \in Nat /\ Len(burst) \in Nat /\ Len(sent) \in Nat
        /\ Len(tx') \in Nat /\ Accounts
    BY <1>2, <2>2, Lengths, LenIsNat DEF PipelineInv
  <2>4. /\ counters'.received = counters.received + 1
        /\ counters'.speech = counters.speech + 1
        /\ counters'.forwarded = counters.forwarded + 1
        /\ counters' \in [received : Nat, speech : Nat, forwarded : Nat]
        /\ UNCHANGED <<wire, rx, sent, g_running>> /\ pc' = "polling"
    <3>1. counters' = [received |-> counters.received + 1, speech |-> counters.speech + 1,
                       forwarded |-> counters.forwarded + 1]
      BY <1>1
    <3>2. UNCHANGED <<wire, rx, sent, g_running>> /\ pc' = "polling"
      BY <1>1, <1>2
    <3> QED  BY <2>1, <3>1, <3>2
  <2>5. PipelineTypeOK'
    BY <1>2, <1>3, <2>2, <2>4 DEF PipelineTypeOK
  <2>6. pool' + Len(rx) + Len(tx') + Len(burst') = PoolSize
    <3>1. pool + Len(rx) + Len(tx) + Len(burst) = PoolSize
      BY <2>3 DEF Accounts
    <3>2. pool' + Len(tx') = pool + Len(tx) + 1 /\ pool' \in Nat /\ pool \in Nat
      BY <2>1, <2>2
    <3>3. /\ Len(rx) \in Nat /\ Len(tx) \in Nat /\ Len(burst) \in Nat /\ Len(tx') \in Nat
      BY <2>3
    <3>4. Len(burst') = Len(burst) - 1
      BY <1>3
    <3> QED  BY <3>1, <3>2, <3>3, <3>4
  <2>7. counters'.forwarded = Len(sent) + Len(tx') + lost'
    <3>1. counters.forwarded = Len(sent) + Len(tx) + lost
      BY <2>3 DEF Accounts
    <3>2. Len(tx') + lost' = Len(tx) + lost + 1 /\ lost' \in Nat /\ lost \in Nat
      BY <2>1, <2>2
    <3>3. Len(sent) \in Nat /\ Len(tx) \in Nat /\ Len(tx') \in Nat
      BY <2>3
    <3>4. counters'.forwarded = counters.forwarded + 1
      BY <2>4
    <3> QED  BY <3>1, <3>2, <3>3, <3>4
  <2>8. counters'.received + Len(burst') + Len(rx) <= Len(wire)
    <3>1. counters.received + Len(burst) + Len(rx) <= Len(wire)
      BY <2>3 DEF Accounts
    <3> QED  BY <1>2, <1>3, <2>1, <2>3, <2>4, <3>1
  <2>9. Accounts'
    BY <2>3, <2>4, <2>6, <2>7, <2>8 DEF Accounts
  <2> QED  BY <2>5, <2>9
<1>7. /\ Ordered(burst') /\ Precedes(sent, burst') /\ Precedes(tx, burst')
      /\ Precedes(burst', rx) /\ Within(burst', Len(wire))
  BY <1>2, <1>3, CutKeeps DEF PipelineInv, InOrder, Arrived
<1>8. Precedes(Append(tx, x), burst')
  BY <1>2, <1>3, <1>7, AppendKeeps
<1>9. OnlySpeech(tx)'
  <2>1. CASE tx' = tx
    BY <1>1, <2>1 DEF PipelineInv, OnlySpeech
  <2>2. CASE tx' = Append(tx, x)
    <3>1. \A i \in 1..Len(tx') : (i \in 1..Len(tx) /\ tx'[i] = tx[i]) \/ tx'[i] = x
      BY <1>2, <1>5, <2>2, Lengths
    <3> QED  BY <1>1, <3>1 DEF PipelineInv, OnlySpeech
  <2> QED  BY <1>1, <2>1, <2>2
<1>10. InOrder' /\ Arrived' /\ OnlySpeech(sent)'
  BY <1>1, <1>5, <1>7, <1>8 DEF PipelineInv, InOrder, Arrived, OnlySpeech
<1> QED  BY <1>6, <1>9, <1>10 DEF PipelineInv

LEMMA FrameLeavesKeeps ==
    ASSUME PipelineInv, FrameLeaves
    PROVE  PipelineInv'
<1> DEFINE x == Head(tx)
<1>1. /\ tx # <<>> /\ tx' = Tail(tx) /\ sent' = Append(sent, x) /\ pool' = pool + 1
      /\ UNCHANGED <<wire, rx, burst, counters, lost, g_running, pc>>
      /\ pc \in {"started", "polling"}
  BY DEF FrameLeaves, loopVars, PortIsUp
<1>2. /\ PipelineTypeOK /\ burst \in Seq(Nat) /\ Len(wire) \in Nat
      /\ sent \in Seq(Nat) /\ tx \in Seq(Nat) /\ rx \in Seq(Nat)
  BY Lengths DEF PipelineInv, PipelineTypeOK
<1>3. /\ Cut(tx', tx, 1) /\ Len(tx') = Len(tx) - 1 /\ tx' \in Seq(Nat)
      /\ x \in Nat /\ x = tx[1] /\ Len(tx) \in Nat \ {0}
      /\ \A j \in 1..Len(tx') : x < tx'[j]
  BY <1>1, <1>2, TailCuts DEF Cut, PipelineInv, InOrder
<1> HIDE DEF x
<1>4. /\ x \in 1..Len(wire) /\ IsSpeech(wire[x])
      /\ \A i \in 1..Len(sent) : sent[i] < x
      /\ \A i \in 1..Len(burst) : x < burst[i]
      /\ \A i \in 1..Len(rx) : x < rx[i]
  <2>1. 1 \in 1..Len(tx)
    BY <1>3
  <2> QED  BY <1>3, <2>1 DEF PipelineInv, InOrder, Arrived, Within, Precedes, OnlySpeech
<1>5. /\ sent' \in Seq(Nat) /\ Len(sent') = Len(sent) + 1
      /\ \A i \in 1..Len(sent) : sent'[i] = sent[i]
      /\ sent'[Len(sent) + 1] = x
  BY <1>1, <1>2, <1>3, AppendProperties
<1>6. PipelineTypeOK' /\ Accounts'
  BY <1>1, <1>2, <1>3, <1>5, Lengths DEF PipelineInv, PipelineTypeOK, Accounts
<1>7. /\ Ordered(tx') /\ Precedes(sent, tx') /\ Precedes(tx', burst)
      /\ Precedes(tx', rx) /\ Within(tx', Len(wire))
  BY <1>2, <1>3, CutKeeps DEF PipelineInv, InOrder, Arrived
<1>8. /\ Ordered(sent') /\ Precedes(sent', tx') /\ Precedes(sent', burst)
      /\ Precedes(sent', rx) /\ Within(sent', Len(wire))
  BY <1>1, <1>2, <1>3, <1>4, <1>7, AppendKeeps DEF PipelineInv, InOrder, Arrived
<1>9. OnlySpeech(sent)' /\ OnlySpeech(tx)'
  <2>1. \A i \in 1..Len(sent') : (i \in 1..Len(sent) /\ sent'[i] = sent[i]) \/ sent'[i] = x
    BY <1>2, <1>5, Lengths
  <2>2. \A i \in 1..Len(tx') : i + 1 \in 1..Len(tx) /\ tx'[i] = tx[i + 1]
    BY <1>3 DEF Cut
  <2> QED  BY <1>1, <1>4, <2>1, <2>2 DEF PipelineInv, OnlySpeech
<1>10. InOrder' /\ Arrived'
  BY <1>1, <1>7, <1>8 DEF PipelineInv, InOrder, Arrived
<1> QED  BY <1>6, <1>9, <1>10 DEF PipelineInv

LEMMA FrameArrivesKeeps ==
    ASSUME PipelineInv, FrameArrives
    PROVE  PipelineInv'
<1> DEFINE x == Len(wire) + 1
<1>1. PICK p \in Payloads : wire' = Append(wire, p)
  BY DEF FrameArrives
<1>2. /\ UNCHANGED <<sent, burst, counters, tx, lost, g_running, pc>>
      /\ pc \in {"started", "polling"}
      /\ \/ pool > 0 /\ rx' = Append(rx, x) /\ pool' = pool - 1
         \/ rx' = rx /\ pool' = pool
  BY DEF FrameArrives, loopVars, PortIsUp
<1>3. /\ PipelineTypeOK /\ burst \in Seq(Nat) /\ Len(wire) \in Nat /\ x \in Nat
      /\ sent \in Seq(Nat) /\ tx \in Seq(Nat) /\ rx \in Seq(Nat) /\ wire \in Seq(Payloads)
  BY Lengths DEF PipelineInv, PipelineTypeOK
<1>4. /\ wire' \in Seq(Payloads) /\ Len(wire') = x
      /\ \A k \in 1..Len(wire) : wire'[k] = wire[k]
  BY <1>1, <1>3, AppendProperties
<1>5. /\ \A s \in {sent, tx, burst, rx} :
            /\ Within(s, Len(wire'))
            /\ \A i \in 1..Len(s) : s[i] < x /\ wire'[s[i]] = wire[s[i]]
  <2>1. ASSUME NEW s, Within(s, Len(wire))
        PROVE  /\ Within(s, Len(wire'))
               /\ \A i \in 1..Len(s) : s[i] < x /\ wire'[s[i]] = wire[s[i]]
    <3>1. ASSUME NEW i \in 1..Len(s)
          PROVE  s[i] \in 1..Len(wire') /\ s[i] < x /\ wire'[s[i]] = wire[s[i]]
      <4>1. s[i] \in 1..Len(wire)
        BY <2>1 DEF Within
      <4> QED  BY <1>3, <1>4, <4>1
    <3> QED  BY <3>1 DEF Within
  <2> QED  BY <2>1 DEF PipelineInv, Arrived
<1> HIDE DEF x
<1>6. /\ rx' \in Seq(Nat) /\ Ordered(rx') /\ Within(rx', Len(wire'))
      /\ Len(rx') = Len(rx) + 1 \/ (Len(rx') = Len(rx) /\ rx' = rx)
      /\ Precedes(sent, rx') /\ Precedes(tx, rx') /\ Precedes(burst, rx')
  <2>1. CASE rx' = rx
    BY <1>3, <1>5, <2>1 DEF PipelineInv, InOrder
  <2>2. CASE rx' = Append(rx, x)
    <3>1. x \in 1..Len(wire') /\ Len(wire') \in Nat
      BY <1>3, <1>4 DEF x
    <3>2. Append(rx, x) \in Seq(Nat) /\ Len(Append(rx, x)) = Len(rx) + 1
      BY <1>3, AppendKeeps
    <3>3. Ordered(Append(rx, x)) /\ Within(Append(rx, x), Len(wire'))
      BY <1>3, <1>5, <3>1, AppendKeeps DEF PipelineInv, InOrder
    <3>4. /\ Precedes(sent, Append(rx, x)) /\ Precedes(tx, Append(rx, x))
          /\ Precedes(burst, Append(rx, x))
      BY <1>3, <1>5, AppendKeeps DEF PipelineInv, InOrder
    <3> QED  BY <2>2, <3>2, <3>3, <3>4
  <2> QED  BY <1>2, <2>1, <2>2
<1>7. Len(rx') + pool' = Len(rx) + pool /\ pool' \in Nat /\ Len(rx') <= Len(rx) + 1
  <2>1. Len(rx) \in Nat /\ pool \in Nat
    BY <1>3, Lengths DEF PipelineTypeOK
  <2>2. Len(Append(rx, x)) = Len(rx) + 1
    BY <1>3, AppendKeeps
  <2> QED  BY <1>2, <2>1, <2>2
<1>8. PipelineTypeOK' /\ Accounts'
  <2>1. Len(wire') = Len(wire) + 1
    BY <1>4 DEF x
  <2>2. Len(rx') \in Nat
    BY <1>6, LenIsNat
  <2>3. PipelineTypeOK'
    BY <1>2, <1>3, <1>4, <1>6, <1>7 DEF PipelineTypeOK
  <2>4. Accounts
    BY DEF PipelineInv
  <2>5. /\ pool' + Len(rx') + Len(tx) + Len(burst) = PoolSize
        /\ counters.received + Len(burst) + Len(rx') <= Len(wire')
    <3>1. /\ Len(rx) \in Nat /\ Len(tx) \in Nat /\ Len(burst) \in Nat
          /\ pool \in Nat /\ counters.received \in Nat
      BY <1>3, Lengths DEF PipelineTypeOK
    <3>2. /\ pool + Len(rx) + Len(tx) + Len(burst) = PoolSize
          /\ counters.received + Len(burst) + Len(rx) <= Len(wire)
      BY <2>4 DEF Accounts
    <3>3. Len(rx') + pool' = Len(rx) + pool /\ pool' \in Nat /\ Len(rx') <= Len(rx) + 1
          /\ Len(wire) \in Nat
      BY <1>3, <1>7
    <3>4. pool' + Len(rx') + Len(tx) + Len(burst) = PoolSize
      BY <2>2, <3>1, <3>2, <3>3, Sizes
    <3>5. counters.received + Len(burst) + Len(rx') <= Len(wire')
      BY <2>1, <2>2, <3>1, <3>2, <3>3
    <3> QED  BY <3>4, <3>5
  <2>6. Accounts'
    BY <1>2, <2>4, <2>5 DEF Accounts
  <2> QED  BY <2>3, <2>6
<1>9. InOrder' /\ Arrived'
  BY <1>2, <1>5, <1>6 DEF PipelineInv, InOrder, Arrived
<1>10. OnlySpeech(sent)' /\ OnlySpeech(tx)'
  BY <1>2, <1>5 DEF PipelineInv, OnlySpeech
<1> QED  BY <1>8, <1>9, <1>10 DEF PipelineInv

LEMMA PipelineInductive == PipelineInv /\ [Next]_vars => PipelineInv'
<1>1. PipelineInv /\ ProcessFrame => PipelineInv'
  BY DropKeeps, ForwardKeeps DEF ProcessFrame
<1> QED
  BY <1>1, MainKeeps, StopPortKeeps, RxBurstKeeps, FrameArrivesKeeps, FrameLeavesKeeps DEF Next

------------------------------------------------------------------------------
(* What the invariant says *)

LEMMA PipelineInvMeaning ==
    ASSUME PipelineInv
    PROVE  MbufsConserved /\ SpeechInOrder
<1>1. /\ PipelineTypeOK /\ sent \in Seq(Nat) /\ tx \in Seq(Nat) /\ Len(<<>>) = 0
      /\ Len(sent) \in Nat /\ Len(tx) \in Nat
  BY Lengths, EmptySeq DEF PipelineInv, PipelineTypeOK
<1>2. MbufsConserved
  BY <1>1, Sizes DEF PipelineInv, PipelineTypeOK, Accounts, MbufsConserved
<1> DEFINE out == sent \o tx
<1>3. /\ out \in Seq(Nat) /\ Len(out) = Len(sent) + Len(tx)
      /\ \A i \in 1..(Len(sent) + Len(tx)) :
            out[i] = IF i <= Len(sent) THEN sent[i] ELSE tx[i - Len(sent)]
  BY <1>1, ConcatProperties
<1> HIDE DEF out
<1>4. DOMAIN out = 1..Len(out)
  BY <1>3, LenProperties
<1>5. ASSUME NEW i \in DOMAIN out
      PROVE  \/ i \in 1..Len(sent) /\ out[i] = sent[i]
             \/ i - Len(sent) \in 1..Len(tx) /\ out[i] = tx[i - Len(sent)] /\ i > Len(sent)
  BY <1>1, <1>3, <1>4
<1>6. \A i \in DOMAIN out : IsSpeech(wire[out[i]])
  BY <1>5 DEF PipelineInv, OnlySpeech
<1>7. ASSUME NEW i \in DOMAIN out, NEW j \in DOMAIN out, i < j  PROVE  out[i] < out[j]
  <2>1. CASE j \in 1..Len(sent)
    <3>1. i \in 1..Len(sent) /\ out[i] = sent[i] /\ out[j] = sent[j]
      BY <1>1, <1>3, <1>4, <1>7, <2>1
    <3> QED  BY <1>7, <2>1, <3>1 DEF PipelineInv, InOrder, Ordered
  <2>2. CASE j - Len(sent) \in 1..Len(tx) /\ out[j] = tx[j - Len(sent)]
    <3>1. CASE i \in 1..Len(sent) /\ out[i] = sent[i]
      BY <2>2, <3>1 DEF PipelineInv, InOrder, Precedes
    <3>2. CASE i - Len(sent) \in 1..Len(tx) /\ out[i] = tx[i - Len(sent)]
      <4>1. i - Len(sent) < j - Len(sent)
        BY <1>1, <1>3, <1>4, <1>7
      <4> QED  BY <2>2, <3>2, <4>1 DEF PipelineInv, InOrder, Ordered
    <3> QED  BY <1>5, <3>1, <3>2
  <2> QED  BY <1>5, <2>1, <2>2
<1>8. SpeechInOrder
  BY <1>3, <1>6, <1>7 DEF PipelineInv, Accounts, SpeechInOrder, IsSpeech, out
<1> QED  BY <1>2, <1>8

(* Every behaviour of the pipeline satisfies the invariant; no fairness is  *)
(* needed.  It includes the type invariant: no counter and no number of     *)
(* free mbufs becomes negative.                                             *)
THEOREM PipelineCorrect == Spec => []PipelineInv
<1>1. Init => PipelineInv
  BY PipelineStarts
<1> QED  BY <1>1, PipelineInductive, PTL DEF Spec

(* No path through pipeline_run, and no signal, leaks an mbuf or frees one  *)
(* twice.                                                                   *)
THEOREM MbufsAreConserved == Spec => []MbufsConserved
<1>1. PipelineInv => MbufsConserved
  BY PipelineInvMeaning
<1> QED  BY <1>1, PipelineCorrect, PTL

(* Only speech is transmitted, in the order of its arrival and each frame   *)
(* at most once, and the counters account for it.                           *)
THEOREM SpeechStaysInOrder == Spec => []SpeechInOrder
<1>1. PipelineInv => SpeechInOrder
  BY PipelineInvMeaning
<1> QED  BY <1>1, PipelineCorrect, PTL
==============================================================================
