---------------------------- MODULE MCTTLEviction ----------------------------
(* TTLEviction with a handle that is registered and renewed, one that is      *)
(* registered once, and four transfers over two permits.                     *)
EXTENDS TTLEviction

CONSTANTS h1, h2, r1, r2, r3

MCHandleOf == [r \in Registrations |-> IF r = r3 THEN h2 ELSE h1]
==============================================================================
