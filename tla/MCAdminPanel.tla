---------------------------- MODULE MCAdminPanel ----------------------------
(* Instance of AdminPanel for TLC. *)
EXTENDS AdminPanel, TLC

Symmetry == Permutations(Request)
=============================================================================
