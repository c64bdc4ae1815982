----------------------------- MODULE MCStamper -----------------------------
(* Instances of Stamper for TLC. *)
EXTENDS Stamper, TLC

\* Commitments, and neighbours, are interchangeable in the safety run.
Symmetry == Permutations(Commitment) \cup Permutations(Neighbour)
=============================================================================
