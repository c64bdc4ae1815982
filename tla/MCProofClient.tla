--------------------------- MODULE MCProofClient ---------------------------
(* Instances of ProofClient for TLC. *)
EXTENDS ProofClient
=============================================================================
