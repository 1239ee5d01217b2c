------------------------------- MODULE MCDrainQuota -------------------------------
(* DrainQuota on a small instance: runs as model values, tokens in small units. *)
EXTENDS DrainQuota

=============================================================================
