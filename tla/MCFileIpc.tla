---- MODULE MCFileIpc ----
(* Model values and symmetry for the runs of FileIpc. *)
EXTENDS FileIpc, TLC

Symmetry == Permutations(Request) \cup Permutations(Bridge)
=============================
