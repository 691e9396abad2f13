------------------------------ MODULE MCMemos ------------------------------
(* Instances of Memos for TLC. *)
EXTENDS Memos, TLC

Symmetry == Permutations(Memo) \cup Permutations(File) \cup Permutations(Client)
                               \cup Permutations(User)
=============================================================================
