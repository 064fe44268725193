------------------------- MODULE MCRequestBuilder -------------------------
(* Instances of RequestBuilder for TLC. *)
EXTENDS RequestBuilder, TLC

\* Ids of calls are compared for equality only.
Symmetry == Permutations(Calls)
=============================================================================
