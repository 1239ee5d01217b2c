--------------------------- MODULE MCCompactionMarker ---------------------------
(* CompactionMarker on small sets of processes and messages.               *)
EXTENDS CompactionMarker

CONSTANTS p1, p2

UserMessages == {1, 3, 4} \cap 1..MaxMessage
=============================================================================
