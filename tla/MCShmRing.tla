------------------------------- MODULE MCShmRing -------------------------------
(* ShmRing on small instances: an arena of two pages of two bytes. *)
EXTENDS ShmRing

=============================================================================
