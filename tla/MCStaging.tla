---- MODULE MCStaging ----
(* Model values and symmetry for the runs of Staging. *)
EXTENDS Staging, TLC

Symmetry == Permutations(Tx) \cup Permutations(UserItem)
==========================
