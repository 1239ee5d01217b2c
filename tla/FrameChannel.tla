------------------------------- MODULE FrameChannel -------------------------------
(***************************************************************************)
(* What one direction of the shared-memory transport promises: every frame *)
(* reaches the receiver once, in the order of publication and with the     *)
(* bytes it was published with, and is the receiver's until it completes   *)
(* it, in any order.                                                       *)
(***************************************************************************)
EXTENDS Naturals, Sequences

VARIABLES
    sent,    \* number of frames published; the n-th carries payload n
    queue,   \* payloads published and not yet received
    leased   \* payloads the receiver holds

Init == sent = 0 /\ queue = <<>> /\ leased = {}

Publish == sent' = sent + 1 /\ queue' = Append(queue, sent + 1) /\ UNCHANGED leased

Lease ==
    /\ queue # <<>>
    /\ leased' = leased \cup {Head(queue)}
    /\ queue' = Tail(queue)
    /\ UNCHANGED sent

Complete == \E payload \in leased : leased' = leased \ {payload} /\ UNCHANGED <<sent, queue>>

Spec == Init /\ [][Publish \/ Lease \/ Complete]_<<sent, queue, leased>>

=============================================================================
