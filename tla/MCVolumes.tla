----------------------------- MODULE MCVolumes ------------------------------
(* Instances of Volumes for TLC. *)
EXTENDS Volumes, TLC
CONSTANTS c1, c2, c3, n1, n2

\* Two claims whose "<namespace>-<name>" is the same, and one on its own
MCCollide == c1 :> n1 @@ c2 :> n1 @@ c3 :> n2
MCApart   == [c \in Claims |-> n1]
\* The claims of one PV name may be exchanged
MCSymmetry == Permutations(Requests) \cup Permutations({c1, c2})
=============================================================================
