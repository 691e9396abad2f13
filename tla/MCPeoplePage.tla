---------------------------- MODULE MCPeoplePage ----------------------------
(* Instance of PeoplePage for TLC. *)
EXTENDS PeoplePage, TLC

Symmetry == Permutations(Client)
=============================================================================
