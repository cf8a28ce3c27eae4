--------------------------- MODULE MCProofWorker ----------------------------
(* Small instances of ProofWorker for TLC. *)
EXTENDS ProofWorker, TLC

OwnAndForeign == {"valid", "foreign"}
ScalarOnly    == {"scalar"}

Symmetry == Permutations(Workers)
=============================================================================
