--------------------------- MODULE MCVolumesClient ---------------------------
(* Instances of VolumesClient for TLC. *)
EXTENDS VolumesClient, TLC

CONSTANTS n1

MCOnePV == [c \in Claims |-> n1]
=============================================================================
