------------------------------- MODULE FencedWriter -------------------------------
(***************************************************************************)
(* What a lease with a generation promises to the data it guards: grants   *)
(* are numbered, and only the newest grant writes.                         *)
(***************************************************************************)
EXTENDS Naturals

VARIABLES
    granted,   \* generation of the newest grant
    written    \* generation of the last write

Init == granted = 0 /\ written = 0

Grant == granted' = granted + 1 /\ UNCHANGED written

Write == granted > 0 /\ written' = granted /\ UNCHANGED granted

Spec == Init /\ [][Grant \/ Write]_<<granted, written>>

=============================================================================
