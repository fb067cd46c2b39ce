---------------------------- MODULE MC_TargetLock ----------------------------
(* TLC instance of TargetLock: a handful of processes, and one inode more   *)
(* than processes so that open() always finds a fresh one.                  *)
EXTENDS TargetLock, FiniteSets, TLC

ASSUME EnoughInodes == Cardinality(Inode) > Cardinality(Proc)

Symmetry == Permutations(Proc) \cup Permutations(Inode)
=============================================================================
