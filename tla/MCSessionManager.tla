-------------------------- MODULE MCSessionManager --------------------------
(* Symmetry for the runs of SessionManager: descriptors are interchangeable. *)
EXTENDS SessionManagerService, TLC

Descriptors == Permutations(Fd)
=============================================================================
