------------------------------- MODULE MCOAuth -------------------------------
(* OAuthFlow for TLC: requests and profiles are interchangeable model values *)
EXTENDS OAuthFlow, TLC
symmetry == Permutations(Callbacks) \cup Permutations(Selections) \cup Permutations(Profiles)
=============================================================================
