----------------------------- MODULE Withdrawal -----------------------------
(***************************************************************************)
(* POST /api/transfer with source "account": the handler of                *)
(* internal/transfer, sendViaAccount under the lock of the account, the    *)
(* batcher as OpQueue promises it, the error contract, and the adapter     *)
(* that repeats a payment whose answer says it may.                        *)
(*                                                                         *)
(* A withdrawal <<p, k>> is the k-th attempt of payment p.                 *)
(***************************************************************************)
EXTENDS TxError, Fees, FiniteSets

CONSTANTS
    Payments,   \* the payments the adapter asks for
    Attempts,   \* Attempts[p]: how often it asks for p, a bound
    Accounts,   \* the smart accounts
    AccountOf,  \* AccountOf[p]: the account that pays
    Envs,       \* the fee settings a process may have
    Markets,    \* the fees the node may quote
    MaxForeign, \* bound on the ops that others send for an account
    MaxLost     \* bound on the answers that are lost

ASSUME WithdrawalAssumption ==
    /\ AccountOf \in [Payments -> Accounts]
    /\ Attempts \in [Payments -> Nat]
    /\ MaxForeign \in Nat /\ MaxLost \in Nat
    /\ Envs \subseteq FeeFields /\ Markets \subseteq Quotes

Withdrawals == UNION {{p} \X (1 .. Attempts[p]) : p \in Payments}

VARIABLES
    live, zombies,                  \* the account locks
    answer, out, executed, unsure,  \* the batcher
    wd,         \* wd[w]: [pc, nonce, fee, reply], the locals of the request
    lost,       \* the attempts whose answer will not reach the adapter
    refused,    \* the ops that reverted when their gas was estimated
    accNonce,   \* accNonce[a]: the nonce of the account on the chain
    landed,     \* landed[a]: ops of others that were executed
    poor,       \* the accounts that cannot make a payment any more
    foreign,    \* history, foreign[a]: ops of others that were sent
    lapsed,     \* history: the withdrawals whose lease expired under them
    taken       \* history: the withdrawals whose op came into the queue

lockVars == <<live, zombies>>
queueVars == <<answer, out, executed, unsure>>
chainVars == <<accNonce, landed, poor, foreign>>
callVars == <<wd, lost, refused>>
worldVars == <<lost, refused, chainVars, lapsed, taken>>
vars == <<lockVars, queueVars, wd, worldVars>>

Account(w) == AccountOf[w[1]]

Lock == INSTANCE LeaseLock WITH
    Calls <- Withdrawals, KeyOf <- [w \in Withdrawals |-> Account(w)],
    MayLapse <- TRUE

Queue == INSTANCE OpQueue WITH Ops <- Withdrawals

-----------------------------------------------------------------------------
Init ==
    /\ Lock!Init
    /\ Queue!Init
    /\ wd = [w \in Withdrawals |->
                [pc |-> "idle", nonce |-> 0, fee |-> NoFee, reply |-> "OK"]]
    /\ lost = {}
    /\ refused = {}
    /\ accNonce = [a \in Accounts |-> 0]
    /\ landed = [a \in Accounts |-> 0]
    /\ poor = {}
    /\ foreign = [a \in Accounts |-> 0]
    /\ lapsed = {}
    /\ taken = {}

At(w, pc) == wd[w].pc = pc

Goto(w, pc) == wd' = [wd EXCEPT ![w].pc = pc]

\* What the adapter makes of an answer: it repeats what it may repeat.
Verdict(n) == IF n.retryable THEN "retry" ELSE n.code

Reply(w, pc, n) ==
    wd' = [wd EXCEPT ![w].pc = pc, ![w].fee = NoFee, ![w].reply = Verdict(n)]

\* External: the adapter asks again if the answer to the last attempt says
\* so, or if it gets none.  The request has no idempotency key.
Post(w) ==
    /\ At(w, "idle")
    /\ \A k \in 1 .. w[2] - 1 :
          LET v == <<w[1], k>>
          IN  v \in lost \/ (At(v, "err") /\ wd[v].reply = "retry")
    /\ Goto(w, "lock")
    /\ UNCHANGED <<lockVars, queueVars, worldVars>>

\* External: the adapter's own timeout, a broken connection, or the end of
\* the process that serves the attempt, at any point of it, and also when the
\* answer is written but not yet read.
Disconnect(w) ==
    /\ ~At(w, "idle") /\ w \notin lost
    /\ Cardinality(lost) < MaxLost
    /\ lost' = lost \cup {w}
    /\ UNCHANGED <<lockVars, queueVars, wd, refused, chainVars, lapsed, taken>>

\* A check of Transfer, of the chain or of an amount fails.
Invalidate(w) ==
    /\ At(w, "lock")
    /\ Reply(w, "err", Invalid)
    /\ UNCHANGED <<lockVars, queueVars, worldVars>>

\* No client or server key; the account's lock is busy or Redis is away.
NotLocked(w) ==
    /\ At(w, "lock")
    /\ \E err \in {{"network"}, {"nonce"}, {}} : Reply(w, "err", Normalize(err))
    /\ UNCHANGED <<lockVars, queueVars, worldVars>>

\* A mutant: the lock key has no account in it, so nobody waits.
EnterUnlocked(w) ==
    /\ At(w, "lock")
    /\ live' = live \cup {w}
    /\ Goto(w, "read")
    /\ UNCHANGED <<zombies, queueVars, worldVars>>

Enter(w) ==
    /\ At(w, "lock")
    /\ Lock!Acquire(w)
    /\ Goto(w, "read")
    /\ UNCHANGED <<queueVars, worldVars>>

\* A mutant: the nonce before the account's.
ReadNonceBefore(w) ==
    /\ At(w, "read")
    /\ wd' = [wd EXCEPT ![w].pc = "fee", ![w].nonce = accNonce[Account(w)] - 1]
    /\ UNCHANGED <<lockVars, queueVars, worldVars>>

\* The account's nonce, from the state of the last block.
ReadNonce(w) ==
    /\ At(w, "read")
    /\ wd' = [wd EXCEPT ![w].pc = "fee", ![w].nonce = accNonce[Account(w)]]
    /\ UNCHANGED <<lockVars, queueVars, worldVars>>

Quote(w) ==
    /\ At(w, "fee")
    /\ \E env \in Envs, m \in Markets, floored \in BOOLEAN :
          LET fee == UserOpMaxFeeFields(env, m, floored) IN
          /\ fee # NoFee
          /\ wd' = [wd EXCEPT ![w].pc = "enqueue", ![w].fee = fee]
    /\ UNCHANGED <<lockVars, queueVars, worldVars>>

\* The callback returns an error before the op is in the queue: the nonce
\* is not to be had, the fee settings contradict each other, or there is no
\* pool for the chain.
FailsEarly(w) ==
    /\ wd[w].pc \in {"read", "fee", "enqueue"}
    /\ \E err \in {{"network"}, {}} : Reply(w, "err", Normalize(err))
    /\ Lock!Leave({w})
    /\ UNCHANGED <<queueVars, worldVars>>

Enqueue(w) ==
    /\ At(w, "enqueue")
    /\ Queue!Take(w)
    /\ wd' = [wd EXCEPT ![w].pc = "wait", ![w].fee = NoFee]
    /\ taken' = taken \cup {w}
    /\ UNCHANGED <<lockVars, lost, refused, chainVars, lapsed>>

\* A mutant: the result of Enqueue is taken for an error.
SucceedsAsError(w) ==
    /\ At(w, "wait")
    /\ Queue!Succeed(w)
    /\ Lock!Leave({w})
    /\ Reply(w, "err", Unknown)
    /\ UNCHANGED worldVars

Succeeds(w) ==
    /\ At(w, "wait") /\ w \notin refused
    /\ Queue!Succeed(w)
    /\ Lock!Leave({w})
    /\ Reply(w, "ok", Success)
    /\ UNCHANGED worldVars

\* Enqueue returns an error: the op reverted when its gas was estimated, the
\* bundler's wallet cannot pay the gas, its nonce was refused, the node or
\* Redis is out of reach, or a wait timed out.
Fails(w) ==
    /\ At(w, "wait")
    /\ Queue!Fail(w)
    /\ Lock!Leave({w})
    /\ \E err \in {{"revert"}, {"revert", "nonce"}, {"funds"}, {"nonce"},
                  {"network"}, {"timeout"}, {}} :
          /\ "revert" \in err <=> w \in refused
          /\ Reply(w, "err", Normalize(err))
    /\ UNCHANGED worldVars

\* The context of the request is cancelled, or its process is gone: the lock
\* is free, the op stays in the queue.
HangsUp(w) ==
    /\ At(w, "wait") /\ w \in lost
    /\ Queue!Leave(w)
    /\ Lock!Leave({w})
    /\ Goto(w, "gone")
    /\ UNCHANGED worldVars

Lapse(w) ==
    /\ Lock!Lapse(w)
    /\ lapsed' = lapsed \cup {w}
    /\ UNCHANGED <<queueVars, callVars, chainVars, taken>>

(***************************************************************************)
(* The batcher and the chain (external here)                               *)
(***************************************************************************)
\* The op does not validate on the chain: its nonce is used or the account
\* cannot pay.
Reverts(w) == wd[w].nonce # accNonce[Account(w)] \/ Account(w) \in poor

\* The node estimates on top of what is pending: an op of somebody else, an
\* op of another withdrawal with the same nonce, or the op itself in a
\* transaction the batcher has given up on.
Clashes(w) ==
    \/ landed[Account(w)] < foreign[Account(w)]
    \/ \E v \in out : /\ Account(v) = Account(w) /\ wd[v].nonce = wd[w].nonce
                      /\ v # w \/ w \in unsure

\* The batcher sends the op by itself and the estimate of its gas reverts: the
\* op is done with, unless it is in a transaction that was given up.
EstimateReverts(w) ==
    /\ At(w, "wait") /\ w \notin refused
    /\ w \in out \cup unsure
    /\ Reverts(w) \/ Clashes(w)
    /\ refused' = refused \cup {w}
    /\ IF w \in unsure THEN UNCHANGED queueVars ELSE Queue!Finish({w}, {})
    /\ UNCHANGED <<lockVars, wd, lost, chainVars, lapsed, taken>>

\* The op is executed and uses up the account's nonce.
Execute(w) ==
    /\ w \in out /\ ~Reverts(w)
    /\ Queue!Finish({w}, {w})
    /\ accNonce' = [accNonce EXCEPT ![Account(w)] = @ + 1]
    /\ UNCHANGED <<lockVars, callVars, landed, poor, foreign, lapsed, taken>>

\* The batcher is done with the op, which was not executed.
Settle(w) ==
    /\ w \in out
    /\ Queue!Finish({w}, {})
    /\ UNCHANGED <<lockVars, wd, worldVars>>

GiveUp(w) ==
    /\ w \in out \cup executed /\ w \notin unsure
    /\ Queue!GiveUp({w}, {})
    /\ UNCHANGED <<lockVars, wd, worldVars>>

\* Another op of the account, sent over JSON-RPC without the account's lock,
ForeignOp(a) ==
    /\ foreign[a] < MaxForeign
    /\ foreign' = [foreign EXCEPT ![a] = @ + 1]
    /\ UNCHANGED <<lockVars, queueVars, callVars, accNonce, landed, poor, lapsed,
                   taken>>

\* and its execution.
ForeignMined(a) ==
    /\ landed[a] < foreign[a]
    /\ landed' = [landed EXCEPT ![a] = @ + 1]
    /\ accNonce' = [accNonce EXCEPT ![a] = @ + 1]
    /\ UNCHANGED <<lockVars, queueVars, callVars, poor, foreign, lapsed, taken>>

RunsDry(a) ==
    /\ a \notin poor
    /\ poor' = poor \cup {a}
    /\ UNCHANGED <<lockVars, queueVars, callVars, accNonce, landed, foreign,
                   lapsed, taken>>

-----------------------------------------------------------------------------
Serve(w) ==
    \/ Invalidate(w) \/ NotLocked(w) \/ Enter(w) \/ ReadNonce(w) \/ Quote(w)
    \/ FailsEarly(w) \/ Enqueue(w) \/ Succeeds(w) \/ Fails(w)

Next ==
    \/ \E w \in Withdrawals :
          \/ Post(w) \/ Disconnect(w) \/ Serve(w) \/ HangsUp(w) \/ Lapse(w)
          \/ EstimateReverts(w) \/ Execute(w) \/ Settle(w) \/ GiveUp(w)
    \/ \E a \in Accounts : ForeignOp(a) \/ ForeignMined(a) \/ RunsDry(a)

Spec == Init /\ [][Next]_vars

-----------------------------------------------------------------------------
\* The locals of sendViaAccount, the lock, the queue and the accounts have
\* their types, and an answer is one the error contract can give.
TypeOK ==
    /\ live \subseteq Withdrawals /\ zombies \subseteq Withdrawals
    /\ answer \in [Withdrawals -> {"none", "wait", "ok", "err", "cancelled"}]
    /\ out \subseteq Withdrawals /\ executed \subseteq Withdrawals
    /\ unsure \subseteq Withdrawals
    /\ wd \in [Withdrawals ->
                [pc    : {"idle", "lock", "read", "fee", "enqueue", "wait",
                          "ok", "err", "gone"},
                 nonce : Nat,
                 fee   : FeeFields,
                 reply : {"OK", "VALIDATION", "CALL_EXCEPTION",
                          "INSUFFICIENT_FUNDS", "retry"}]]
    /\ lost \subseteq Withdrawals /\ refused \subseteq Withdrawals
    /\ accNonce \in [Accounts -> Nat]
    /\ landed \in [Accounts -> Nat]
    /\ poor \subseteq Accounts
    /\ foreign \in [Accounts -> 0 .. MaxForeign]
    /\ lapsed \subseteq Withdrawals /\ taken \subseteq Withdrawals

\* The withdrawals whose op was left behind by their request: the adapter
\* hung up, the batcher gave up, or the lease of the account ran out.
Loose == {w \in Withdrawals : At(w, "gone")} \cup unsure \cup lapsed

\* Two withdrawals of an account do not use the same account nonce (the
\* comment of sendViaAccount), unless one of them was left behind.
NonceNotShared ==
    \A v, w \in out \cup executed :
        /\ v # w /\ Account(v) = Account(w) /\ wd[v].nonce = wd[w].nonce
        => {v, w} \cap Loose # {}

\* A payment is made twice only if the adapter got no answer to the earlier
\* attempt, or if the batcher gave up on a transaction that holds its op: an
\* error that was answered and may be repeated means that nothing was paid.
PaidOnce ==
    \A v, w \in executed :
        v[1] = w[1] /\ v[2] < w[2] => v \in lost \cup unsure

\* A withdrawal is answered 422 for a revert only if the account cannot pay,
\* an op from outside was sent for it, its own op is in a transaction that
\* was given up, or its nonce is that of another withdrawal in the queue, one
\* of the two left behind.  (The other dead letter, INSUFFICIENT_FUNDS, is
\* about the gas money of the bundler's wallet and says nothing of the
\* payment.)
RevertIsDeserved ==
    \A w \in Withdrawals :
        wd[w].reply = "CALL_EXCEPTION" =>
            \/ Account(w) \in poor
            \/ foreign[Account(w)] > 0
            \/ w \in unsure
            \/ \E v \in taken \ {w} : /\ Account(v) = Account(w)
                                      /\ wd[v].nonce = wd[w].nonce
                                      /\ {v, w} \cap Loose # {}

\* The fee fields of a UserOp are positive, and the priority fee does not
\* exceed the cap, whatever the node quotes and the environment says.
FeeFieldsFit ==
    \A w \in Withdrawals :
        At(w, "enqueue") => 0 < wd[w].fee.pri /\ wd[w].fee.pri <= wd[w].fee.max
=============================================================================
