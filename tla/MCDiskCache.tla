---------------------------- MODULE MCDiskCache ----------------------------
(* Instances of DiskCache for TLC. *)
EXTENDS DiskCache, TLC

CONSTANTS w1, w2, w3, h1, h2

WorkerSymmetry == Permutations(Workers)
=============================================================================
