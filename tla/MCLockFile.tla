---------------------------- MODULE MCLockFile ----------------------------
(* Instances of LockFile for model checking.                               *)
EXTENDS LockFile, TLC

CONSTANTS p1, p2, p3

OneHost == [p \in Proc |-> "here"]

Symm == Permutations(Proc)
===========================================================================
