----------------------------- MODULE MCService -----------------------------
(***************************************************************************)
(* Chain 1 has two keys in the keystore, chain 13 has one; chain 2, where  *)
(* it is used, has none and falls back to owner_key.                       *)
(***************************************************************************)
EXTENDS Service

CONSTANTS r1, r2, r3

\* Three requests of which two are ops and the third is anything.
MCKinds == [r \in Requests |-> CASE r = r1 -> {"userop"}
                                  [] r = r2 -> {"userop", "account"}
                                  [] r = r3 -> Handlers]

Chain1 == <<"1">>
Chain2 == <<"2">>
Chain13 == <<"1", "3">>

TwoChains == {Chain1, Chain2}
LikeChains == {Chain1, Chain13}

RowsOfChain1 == {[chain |-> Chain1, idx |-> i] : i \in 0 .. 1}
RowsOfBoth == RowsOfChain1 \cup {[chain |-> Chain13, idx |-> 0]}
=============================================================================
