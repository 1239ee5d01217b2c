-------------------------------- MODULE MCChannel2 --------------------------------
(* Channel2 on a small instance: delivery attempts as model values. *)
EXTENDS Channel2

=============================================================================
