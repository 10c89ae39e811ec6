------------------------------ MODULE MCBilling ------------------------------
(* Billing for TLC: workspaces and handlers are interchangeable model values *)
EXTENDS Billing, TLC
symmetry == Permutations(Workspaces) \cup Permutations(Handlers)
=============================================================================
