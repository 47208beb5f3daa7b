--------------------------- MODULE ReliableStream ---------------------------
(***************************************************************************)
(* What a UDT_STREAM connection promises, seen from its two applications:   *)
(* a custody chain.  Data is accepted by send(), received by the peer's     *)
(* buffer, and only then released at the sender and delivered by recv(), in *)
(* order and once.  Numbers count packets' worth of data.                  *)
(***************************************************************************)
EXTENDS Naturals, Sequences

CONSTANT DataSize       \* how much the sending application has to send

VARIABLES accepted, received, released, delivered
vars == <<accepted, received, released, delivered>>

Init == accepted = 0 /\ received = 0 /\ released = 0 /\ delivered = <<>>

Accept  == /\ accepted' \in accepted + 1 .. DataSize
           /\ UNCHANGED <<received, released, delivered>>
Receive == /\ received' \in received + 1 .. accepted
           /\ UNCHANGED <<accepted, released, delivered>>
Release == /\ released' \in released + 1 .. received
           /\ UNCHANGED <<accepted, received, delivered>>
Deliver == /\ Len(delivered) < received
           /\ delivered' = Append(delivered, Len(delivered))
           /\ UNCHANGED <<accepted, received, released>>

Next == Accept \/ Receive \/ Release \/ Deliver
Safe == Init /\ [][Next]_vars

(* No stage of the chain stops for ever while it has something to pass on.  *)
Live == WF_vars(Accept) /\ WF_vars(Receive) /\ WF_vars(Release) /\ WF_vars(Deliver)
Spec == Safe /\ Live
=============================================================================
