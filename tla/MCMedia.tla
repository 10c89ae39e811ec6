------------------------------- MODULE MCMedia -------------------------------
(* MediaLifecycle for TLC: the constants are given in the cfg files.        *)
EXTENDS MediaLifecycle
=============================================================================
