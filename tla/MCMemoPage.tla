----------------------------- MODULE MCMemoPage -----------------------------
(* Instance of MemoPage for TLC. *)
EXTENDS MemoPage, TLC

Symmetry == Permutations(Call) \cup Permutations(Memo)
=============================================================================
