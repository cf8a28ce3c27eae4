---------------------------- MODULE MCProofQueue ----------------------------
(* Small instances of ProofQueue for TLC.  Jobs and workers are never      *)
(* ordered or named by the specification, so both sets are symmetric.      *)
EXTENDS ProofQueue, TLC

AllKinds      == {"valid", "foreign", "shapeless", "scalar", "unparsable"}
ReadableKinds == {"valid", "foreign", "shapeless"}
ValidOnly     == {"valid"}
NotJson       == {"unparsable"}

Symmetry == Permutations(Jobs) \cup Permutations(Workers)
=============================================================================
