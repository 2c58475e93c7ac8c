---------------------------- MODULE MCFidCounter ----------------------------
(* Two or three workers drawing numbers, with crashes of both kinds.       *)
EXTENDS FidCounter, TLC

WorkerSymmetry == Permutations(Threads)
=============================================================================
