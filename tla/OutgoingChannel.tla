-------------------------- MODULE OutgoingChannel --------------------------
(***************************************************************************)
(* What a WebSocket session promises to the actors that send through it:   *)
(* payloads reach the client in the order they were posted, none twice,    *)
(* none skipped, until the channel is cut; nothing is delivered later.     *)
(***************************************************************************)
EXTENDS Naturals, Sequences

CONSTANT Payload

VARIABLES sent, delivered, cut

Init == sent = <<>> /\ delivered = <<>> /\ cut = FALSE

Post(p) ==
  /\ sent' = Append(sent, p)
  /\ UNCHANGED <<delivered, cut>>

DeliverNext ==
  /\ ~cut
  /\ Len(delivered) < Len(sent)
  /\ delivered' = Append(delivered, sent[Len(delivered) + 1])
  /\ UNCHANGED <<sent, cut>>

Cut ==
  /\ cut' = TRUE
  /\ UNCHANGED <<sent, delivered>>

Next == (\E p \in Payload : Post(p)) \/ DeliverNext \/ Cut

Spec == Init /\ [][Next]_<<sent, delivered, cut>>
============================================================================
