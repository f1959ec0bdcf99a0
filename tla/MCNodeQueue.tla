---------------------------- MODULE MCNodeQueue ----------------------------
(* Instances of NodeQueue for TLC. *)
EXTENDS NodeQueue, TLC

WorkerSymmetry == Permutations(Workers)
=============================================================================
