-------------------------- MODULE MCOpencodeSlots --------------------------
(* Instances of OpencodeSlots for TLC. *)
EXTENDS OpencodeSlots, TLC

\* A negative number drops that many slots from the end.
AnySizes == {-1, 0, 1, 3}

Symmetry == Permutations(Requests)
=============================================================================
