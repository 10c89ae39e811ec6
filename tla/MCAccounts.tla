------------------------------ MODULE MCAccounts ------------------------------
(* Accounts for TLC: the jobs are model values, interchangeable within a set *)
EXTENDS Accounts, TLC
symmetry == Permutations(Syncs) \cup Permutations(Publishes)
=============================================================================
