------------------------------ MODULE MCAtPort ------------------------------
(* Symmetry for AtPort, for the runs that check no liveness. *)
EXTENDS AtPort, TLC

WorkerSymmetry == Permutations(Workers)
=============================================================================
