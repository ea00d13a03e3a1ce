---------------------------- MODULE MCNonceLine ----------------------------
(***************************************************************************)
(* An instance of NonceLine for TLC: callbacks 1 and 2 wait for their      *)
(* receipts, 3 does not; all share one wallet.                             *)
(***************************************************************************)
EXTENDS NonceLine

MCWalletOf == [t \in Txs |-> "w1"]
=============================================================================
