------------------------------ MODULE MCSplit ------------------------------
(* An instance of Split for TLC: both calls have the same payer. *)
EXTENDS Split

MCPayerKey == [c \in Calls |-> "server_key1"]

MCTxs == Calls \X (Approvals \cup Sends) \X (0 .. MaxNonce + 1)
=============================================================================
