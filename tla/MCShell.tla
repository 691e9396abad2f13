------------------------------ MODULE MCShell ------------------------------
(* Instance of Shell for TLC. *)
EXTENDS Shell, TLC

Symmetry == Permutations(Session) \cup Permutations(User) \cup Permutations(Call)
=============================================================================
