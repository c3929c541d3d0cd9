--------------------------- MODULE MCPlayerLogin ---------------------------
(* Model values and symmetry for the runs of PlayerLogin. *)
EXTENDS PlayerLogin, TLC

Threads == Permutations(Thread)
=============================================================================
