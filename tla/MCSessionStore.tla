---------------------------- MODULE MCSessionStore ----------------------------
(***************************************************************************)
(* Instances of SessionStore.  Processes are interchangeable.              *)
(***************************************************************************)
EXTENDS SessionStore, TLC

Symmetry == Permutations(Processes)

=============================================================================
