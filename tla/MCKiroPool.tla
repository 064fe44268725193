----------------------------- MODULE MCKiroPool -----------------------------
(* Instances of KiroPool for TLC. *)
EXTENDS KiroPool, TLC

\* Nothing in the code tells requests apart but their order of arrival.
RequestSymmetry == Permutations(Requests)

\* Accounts that start alike are told apart by their rows only.
Symmetry == RequestSymmetry \cup Permutations(Accounts)
=============================================================================
