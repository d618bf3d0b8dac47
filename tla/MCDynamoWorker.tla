---------------------------- MODULE MCDynamoWorker ----------------------------
(* A worker that is sent two prefill requests, one with a bad TTL hint, and *)
(* four decode requests: two for a handle the bus delivers, so that they    *)
(* share one permit, one for a handle it does not, one without a handle.    *)
EXTENDS DynamoWorker, TLC

CONSTANTS h1, h2, h3, c1, c2, c3, c4

MCHandles == {h1, h2, h3}
MCCalls == {c1, c2, c3, c4}
MCKvHandle == c1 :> h1 @@ c2 :> h1 @@ c3 :> h2 @@ c4 :> None
MCBadTtl == {h2}
MCBus == {h1}
==============================================================================
