------------------------------- MODULE MCHistorian -------------------------------
(* Historian on small instances: processes as model values. *)
EXTENDS Historian

=============================================================================
