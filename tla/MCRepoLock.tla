---------------------------- MODULE MCRepoLock ----------------------------
(* Instances of RepoLock for model checking.                               *)
EXTENDS RepoLock, TLC

CONSTANTS p1, p2, p3

OneHost == [p \in Proc |-> "here"]

Symm == Permutations(Proc)
===========================================================================
