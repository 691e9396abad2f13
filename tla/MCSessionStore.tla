--------------------------- MODULE MCSessionStore ---------------------------
(* Instance of SessionStore for TLC. *)
EXTENDS SessionStore, TLC

Symmetry == Permutations(Hash) \cup Permutations(Client) \cup Permutations(User)
=============================================================================
