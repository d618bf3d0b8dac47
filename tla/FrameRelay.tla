------------------------------ MODULE FrameRelay ------------------------------
(***************************************************************************)
(* What the shim promises between the VAD edge and the router: frames      *)
(* leave in the order they arrived, in batches of bounded size, each at    *)
(* most once.  When the relay is taken down it may drop what it holds, in  *)
(* one go or piece by piece, but never delivers around a gap.              *)
(***************************************************************************)
EXTENDS Naturals, Sequences

CONSTANT MaxSize           \* the largest batch, at least 1

VARIABLES
    accepted,              \* frames accepted so far: the next one is accepted + 1
    held,                  \* frames accepted and not yet delivered
    delivered,             \* frames delivered, oldest first
    up                     \* FALSE once frames may be dropped

relayVars == <<accepted, held, delivered, up>>

RelayInit == accepted = 0 /\ held = <<>> /\ delivered = <<>> /\ up = TRUE

Accept ==
    /\ accepted' = accepted + 1
    /\ held' = Append(held, accepted + 1)
    /\ UNCHANGED <<delivered, up>>

\* Deliver the n oldest frames as one batch; the newest of them may be
\* accepted in the same instant.
Deliver ==
    /\ \E n \in 1..MaxSize :
          /\ n <= Len(held)
          /\ delivered' = delivered \o SubSeq(held, 1, n)
          /\ held' = SubSeq(held, n + 1, Len(held))
    /\ UNCHANGED <<accepted, up>>

GoDown == up = TRUE /\ up' = FALSE /\ UNCHANGED <<accepted, held, delivered>>

\* Once going down, newest frames may be dropped, and arrivals refused.
Drop ==
    /\ up = FALSE
    /\ \E n \in 0..Len(held) : held' = SubSeq(held, 1, n)
    /\ UNCHANGED <<delivered, up>>
    /\ accepted' \in {accepted, accepted + 1}

RelayNext == Accept \/ Deliver \/ GoDown \/ Drop

RelaySpec == RelayInit /\ [][RelayNext]_relayVars
==============================================================================
