---- MODULE MCBridgeLock ----
(* Model values and symmetry for the runs of BridgeLock. *)
EXTENDS BridgeLock, TLC

Symmetry == Permutations(Instance)
=============================
