----------------------------- MODULE MCIdentity -----------------------------
(* Identity for TLC: requests are interchangeable model values              *)
EXTENDS Identity, TLC
symmetry == Permutations(Requests)
=============================================================================
