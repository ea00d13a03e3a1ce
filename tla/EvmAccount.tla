----------------------------- MODULE EvmAccount -----------------------------
(***************************************************************************)
(* External: the transactions of the wallets as the chain's node shows     *)
(* them through eth_getTransactionCount(pending), eth_sendRawTransaction   *)
(* and eth_getTransactionReceipt.  A node keeps one transaction per nonce  *)
(* of a wallet and mines a wallet's nonces in order.  Transactions do not  *)
(* leave the pool except by being mined or replaced, and blocks are final. *)
(***************************************************************************)
EXTENDS Naturals

CONSTANTS
    Wallets,    \* the addresses that send transactions
    Txs,        \* the transactions
    NoTx,       \* an empty slot
    MaxNonce    \* bound on the nonces used

ASSUME TxsAssumption == NoTx \notin Txs

ASSUME NonceAssumption == MaxNonce \in Nat

VARIABLES
    slot,       \* slot[w][n]: the transaction that has nonce n of wallet w
    mined,      \* mined[w]: how many of them are in blocks
    reverted    \* the mined transactions whose receipt has status 0

chainVars == <<slot, mined, reverted>>

Nonces == 0 .. MaxNonce

ChainTypeOK ==
    /\ slot \in [Wallets -> [Nonces -> Txs \cup {NoTx}]]
    /\ mined \in [Wallets -> 0 .. MaxNonce + 1]
    /\ reverted \subseteq Txs

ChainInit ==
    /\ slot = [w \in Wallets |-> [n \in Nonces |-> NoTx]]
    /\ mined = [w \in Wallets |-> 0]
    /\ reverted = {}

\* What PendingNonceAt returns: the first nonce with nothing mined or pending.
IsPendingNonce(w, n) ==
    /\ slot[w][n] = NoTx
    /\ \A i \in 0 .. n - 1 : slot[w][i] # NoTx

IsMined(w, n, t) == n < mined[w] /\ slot[w][n] = t

\* The node takes the transaction: into a free nonce, at the end of the line
\* or beyond it, or in place of a pending one that paid a lower fee.
Admit(w, n, t) ==
    /\ n >= mined[w]
    /\ slot' = [slot EXCEPT ![w][n] = t]
    /\ UNCHANGED <<mined, reverted>>

\* "nonce too low", "already known" or "replacement transaction underpriced".
Refuse(w, n) ==
    /\ slot[w][n] # NoTx
    /\ UNCHANGED chainVars

\* The next transaction of the wallet enters a block and succeeds or reverts.
Mine(w) ==
    /\ mined[w] <= MaxNonce
    /\ slot[w][mined[w]] # NoTx
    /\ mined' = [mined EXCEPT ![w] = @ + 1]
    /\ reverted' \in {reverted, reverted \cup {slot[w][mined[w]]}}
    /\ UNCHANGED slot
=============================================================================
