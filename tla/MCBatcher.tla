----------------------------- MODULE MCBatcher -----------------------------
(* Instances of Batcher for TLC. *)
EXTENDS Batcher, TLC

OpSymmetry == Permutations(Ops) \cup Permutations(Wallets)
=============================================================================
