---------------------------- MODULE MCSmartRouter ----------------------------
(* SmartRouter on a small cluster: two prefill workers, so that ties and    *)
(* stale choices occur, one decode worker, two requests that share a        *)
(* request_id, the second high-priority, and one with a bad priority hint.  *)
EXTENDS SmartRouter, TLC

CONSTANTS p1, p2, d1, r1, r2, r3

MCWorkers == {p1, p2, d1}
MCRoleOf == p1 :> "prefill" @@ p2 :> "prefill" @@ d1 :> "decode"
MCLoadLevels == p1 :> {0, 90} @@ p2 :> {0} @@ d1 :> {0}
MCRequests == {r1, r2, r3}
MCRequestId == r1 :> "a" @@ r2 :> "a" @@ r3 :> "b"
MCPriority == r1 :> 5 @@ r2 :> 9 @@ r3 :> NotAnInt
MCMaxAttempts == r1 :> 2 @@ r2 :> 1 @@ r3 :> 1
==============================================================================
