------------------------------ MODULE MCDreamSchedule -----------------------------
(* DreamSchedule on a small instance: passes as model values. *)
EXTENDS DreamSchedule

=============================================================================
