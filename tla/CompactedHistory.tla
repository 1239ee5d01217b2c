---------------------------- MODULE CompactedHistory ----------------------------
(***************************************************************************)
(* What the historian promises to its readers (prompt injection, the drop  *)
(* queue, the compaction marker): the compacted history of a session is a  *)
(* list of adjacent message ranges that starts at message 1, it only grows *)
(* at its end, and the publication floor moves with it in one step.        *)
(***************************************************************************)
EXTENDS CompartmentRanges

CONSTANT MaxRaw          \* the messages a session may come to hold

VARIABLES compartments,  \* the published compartments
          floor          \* prior_boundary_ordinal

vars == <<compartments, floor>>

Init == /\ compartments = <<>>
        /\ floor = 1

\* One publication: a non-empty block of adjacent ranges that begins right
\* after the last published message.
Publish ==
    LET first == LastEnd(compartments) + 1
        n     == NextSequence(compartments) IN
    \E ends \in EndLists(first, MaxRaw) :
        /\ compartments' = compartments \o Split(first, ends, n)
        /\ floor' = LastEnd(compartments') + 1

Spec == Init /\ [][Publish]_vars

=============================================================================
