----------------------------- MODULE MCStartup -----------------------------
(* Instance of Startup for TLC. *)
EXTENDS Startup, TLC

Symmetry == Permutations(Server) \cup Permutations(Name) \cup Permutations(Memo)
=============================================================================
