----------------------------- MODULE NonceLine -----------------------------
(***************************************************************************)
(* The nonce line of a wallet: the callbacks that run under its nonce lock *)
(* (what LeaseLock promises of it) read the pending nonce from the chain   *)
(* (EvmAccount), sign a transaction with it and broadcast it.              *)
(*                                                                         *)
(* A member of Txs is one such callback and the transaction it signs.  It  *)
(* is either one of core.SendManagedTx or Batcher.onchainSubmit, which     *)
(* wait for the receipt under the lock (Waits), or one of SendNative or    *)
(* SendErc20, which return after the broadcast.                            *)
(***************************************************************************)
EXTENDS EvmAccount

CONSTANTS
    WalletOf,   \* WalletOf[t]: the wallet that signs, whose address is the key
    Waits,      \* the callbacks that wait for their receipt
    MayLapse    \* whether a lease can expire under its callback

ASSUME CallersAssumption ==
    /\ WalletOf \in [Txs -> Wallets]
    /\ Waits \subseteq Txs
    /\ MayLapse \in BOOLEAN

VARIABLES
    live, zombies,  \* the state of the nonce lock
    pc,             \* pc[t]: where the callback is
    nonce,          \* nonce[t]: the nonce it read
    admitted,       \* history: the transactions the node took
    lapsed          \* history: the callbacks whose lease expired under them

lockVars == <<live, zombies>>
vars == <<slot, mined, reverted, live, zombies, pc, nonce, admitted, lapsed>>

Lock == INSTANCE LeaseLock WITH Calls <- Txs, KeyOf <- WalletOf

InFn == {"read", "send", "wait"}
Ended == {"ok", "failed", "crashed"}
PCs == {"lock"} \cup InFn \cup Ended

Goto(t, from, to) ==
    /\ pc[t] = from
    /\ pc' = [pc EXCEPT ![t] = to]

-----------------------------------------------------------------------------
Init ==
    /\ ChainInit
    /\ Lock!Init
    /\ pc = [t \in Txs |-> "lock"]
    /\ nonce = [t \in Txs |-> 0]
    /\ admitted = {}
    /\ lapsed = {}

\* A mutant: the wallet's key is not locked.
EnterUnlocked(t) ==
    /\ live' = live \cup {t}
    /\ Goto(t, "lock", "read")
    /\ UNCHANGED <<zombies, chainVars, nonce, admitted, lapsed>>

\* WithNonceLock starts the callback.
Enter(t) ==
    /\ Lock!Acquire(t)
    /\ Goto(t, "lock", "read")
    /\ UNCHANGED <<chainVars, nonce, admitted, lapsed>>

\* The call fails before its callback runs: no client, no account, no lock.
LockFails(t) ==
    /\ Goto(t, "lock", "failed")
    /\ UNCHANGED <<chainVars, lockVars, nonce, admitted, lapsed>>

\* A mutant: the nonce before the pending one, as an unsigned number.
ReadWrapped(t) ==
    /\ \E n \in Nonces :
          /\ IsPendingNonce(WalletOf[t], n)
          /\ nonce' = [nonce EXCEPT ![t] = (n + 255) % 256]
    /\ Goto(t, "read", "send")
    /\ UNCHANGED <<chainVars, lockVars, admitted, lapsed>>

\* A mutant: the nonce is the number of mined transactions (NonceAt).
ReadMinedNonce(t) ==
    /\ mined[WalletOf[t]] <= MaxNonce
    /\ nonce' = [nonce EXCEPT ![t] = mined[WalletOf[t]]]
    /\ Goto(t, "read", "send")
    /\ UNCHANGED <<chainVars, lockVars, admitted, lapsed>>

\* A mutant: the nonce after the pending one.
ReadNextNonce(t) ==
    /\ \E n \in Nonces :
          /\ IsPendingNonce(WalletOf[t], n)
          /\ nonce' = [nonce EXCEPT ![t] = IF n < MaxNonce THEN n + 1 ELSE n]
    /\ Goto(t, "read", "send")
    /\ UNCHANGED <<chainVars, lockVars, admitted, lapsed>>

\* PendingNonceAt.
ReadNonce(t) ==
    /\ \E n \in Nonces :
          /\ IsPendingNonce(WalletOf[t], n)
          /\ nonce' = [nonce EXCEPT ![t] = n]
    /\ Goto(t, "read", "send")
    /\ UNCHANGED <<chainVars, lockVars, admitted, lapsed>>

\* The callback returns and the lock is given back.
Return(t, from, to) ==
    /\ Goto(t, from, to)
    /\ Lock!Leave({t})
    /\ UNCHANGED <<nonce, lapsed>>

\* The client, the entry point address, the fees or the nonce is not to be
\* had; or gas estimation, signing or the transport fails before the node
\* has the transaction.
FailsBeforeBroadcast(t) ==
    /\ \/ Return(t, "read", "failed")
       \/ Return(t, "send", "failed")
    /\ UNCHANGED <<chainVars, admitted>>

\* The node takes the transaction; SendTransaction returns nil, and those
\* that wait for the receipt keep the lock.
Broadcast(t) ==
    /\ Admit(WalletOf[t], nonce[t], t)
    /\ admitted' = admitted \cup {t}
    /\ \/ /\ t \in Waits
          /\ Goto(t, "send", "wait")
          /\ UNCHANGED <<lockVars, nonce, lapsed>>
       \/ /\ t \notin Waits
          /\ Return(t, "send", "ok")

\* The node takes the transaction but the caller gets an error.
BroadcastLostReply(t) ==
    /\ Admit(WalletOf[t], nonce[t], t)
    /\ admitted' = admitted \cup {t}
    /\ Return(t, "send", "failed")

\* The node turns the transaction down because the nonce is in use.
BroadcastRefused(t) ==
    /\ Refuse(WalletOf[t], nonce[t])
    /\ Return(t, "send", "failed")
    /\ UNCHANGED admitted

\* A mutant: the callback reports success without the receipt.
WaitMinedSkipped(t) ==
    /\ Return(t, "wait", "ok")
    /\ UNCHANGED <<chainVars, admitted>>

\* bind.WaitMined finds the receipt.  Its status is not looked at.
WaitMined(t) ==
    /\ IsMined(WalletOf[t], nonce[t], t)
    /\ Return(t, "wait", "ok")
    /\ UNCHANGED <<chainVars, admitted>>

\* The wait times out or the request's context is cancelled.
WaitTimeout(t) ==
    /\ Return(t, "wait", "failed")
    /\ UNCHANGED <<chainVars, admitted>>

Block(w) ==
    /\ Mine(w)
    /\ UNCHANGED <<lockVars, pc, nonce, admitted, lapsed>>

\* The lease expires under the callback, which goes on.
Lapse(t) ==
    /\ Lock!Lapse(t)
    /\ lapsed' = lapsed \cup {t}
    /\ UNCHANGED <<chainVars, pc, nonce, admitted>>

\* The process dies; what was broadcast stays in the pool.
Crash(t) ==
    /\ pc[t] \in InFn
    /\ Return(t, pc[t], "crashed")
    /\ UNCHANGED <<chainVars, admitted>>

-----------------------------------------------------------------------------
Proceed(t) ==
    \/ ReadNonce(t) \/ FailsBeforeBroadcast(t) \/ Broadcast(t)
    \/ BroadcastLostReply(t) \/ BroadcastRefused(t)
    \/ WaitMined(t) \/ WaitTimeout(t)

Next ==
    \/ \E t \in Txs : Enter(t) \/ LockFails(t) \/ Proceed(t)
    \/ \E t \in Txs : Lapse(t) \/ Crash(t)
    \/ \E w \in Wallets : Block(w)

\* Every call ends (its context has a deadline, the lock attempt is bounded)
\* and the chain mines what it can mine.
Fairness ==
    /\ \A t \in Txs : WF_vars(Enter(t) \/ LockFails(t) \/ Proceed(t))
    /\ \A w \in Wallets : WF_vars(Block(w))

Spec == Init /\ [][Next]_vars

FairSpec == Spec /\ Fairness

-----------------------------------------------------------------------------
\* Callbacks, lock, chain and history have their types; a callback's nonce is
\* one the chain has a slot for.
TypeOK ==
    /\ ChainTypeOK
    /\ live \subseteq Txs
    /\ zombies \subseteq Txs
    /\ pc \in [Txs -> PCs]
    /\ nonce \in [Txs -> Nonces]
    /\ admitted \subseteq Txs
    /\ lapsed \subseteq Txs

SameSlot(t, u) == WalletOf[t] = WalletOf[u] /\ nonce[t] = nonce[u]

\* Two transactions of one wallet never get the same nonce unless the lease
\* of one of them expired under it; not after a timed out wait, a lost
\* reply, a crash or a transfer that does not wait for its receipt either.
UniqueNonce ==
    \A t, u \in admitted : t # u /\ SameSlot(t, u) => {t, u} \cap lapsed # {}

\* No nonce is skipped, lapsed leases or not: a hole would hold back every
\* later transaction of the wallet.
NoHole ==
    \A w \in Wallets, n \in Nonces :
        slot[w][n] # NoTx => \A i \in 0 .. n : slot[w][i] # NoTx

\* A transaction whose hash was answered is on the wallet's line: mined for
\* those that wait for the receipt, and for the others still in its slot,
\* unless a lapsed lease let another transaction replace it.
AnsweredTxStands ==
    \A t \in Txs : pc[t] = "ok" =>
        IF t \in Waits
        THEN IsMined(WalletOf[t], nonce[t], t)
        ELSE LET u == slot[WalletOf[t]][nonce[t]]
             IN  u = t \/ {t, u} \cap lapsed # {}

\* A transaction that reverted is not answered as a success: it is to be
\* answered 422 and not retryable (README, error contract).
RevertIsReported ==
    \A t \in Waits : pc[t] = "ok" => t \notin reverted

\* Whatever becomes of its callback, a transaction that has its slot is mined.
LineMoves ==
    \A t \in Txs :
        slot[WalletOf[t]][nonce[t]] = t
            ~> \/ IsMined(WalletOf[t], nonce[t], t)
               \/ slot[WalletOf[t]][nonce[t]] # t
=============================================================================
