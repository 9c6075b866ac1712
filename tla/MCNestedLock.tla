--------------------------- MODULE MCNestedLock ---------------------------
(* Instances of NestedLock for model checking.                             *)
EXTENDS NestedLock, TLC

CONSTANTS s1, s2, s3

Symm == Permutations(Sess)
===========================================================================
