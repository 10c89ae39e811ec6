------------------------------ MODULE MCDrafts ------------------------------
(* Drafts for TLC: accounts, workers and requests are interchangeable model values *)
EXTENDS Drafts, TLC
symmetry == Permutations(Accounts) \cup Permutations(Workers) \cup Permutations(Calls)
=============================================================================
