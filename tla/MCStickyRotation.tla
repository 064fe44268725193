-------------------------- MODULE MCStickyRotation --------------------------
(* Instances of StickyRotation for TLC. *)
EXTENDS StickyRotation, TLC

Symmetry == Permutations(Accounts)
=============================================================================
