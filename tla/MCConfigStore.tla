---------------------------- MODULE MCConfigStore ----------------------------
(* Model values and symmetry for checking ConfigStore with TLC. *)
EXTENDS ConfigStore, TLC

Symmetry == Permutations(Procs) \cup Permutations(Names) \cup Permutations(Keys)
=============================================================================
