---------------------------- MODULE MCAtomicWrite ----------------------------
(* One writer, two-block files, three calls: enough for a stale temporary  *)
(* file, an overwrite and a power loss between any two steps.              *)
EXTENDS AtomicWrite, TLC

InodeSymmetry == Permutations(Inodes)
=============================================================================
