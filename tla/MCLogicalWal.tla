---------------------------- MODULE MCLogicalWal ----------------------------
(* The log owner on a small instance: a handful of interchangeable             *)
(* transactions, groups of up to two frames, a group left stale by another.    *)
EXTENDS LogicalWal, TLC

TxSymmetry == Permutations(Tx)
=============================================================================
