------------------------------- MODULE Split -------------------------------
(***************************************************************************)
(* internal/split: Execute pays from the relayer's EOA through the router  *)
(* contract.  Under the nonce lock of the payer it reads the router's      *)
(* payer nonce and the EOA's pending nonce, tops up the token allowance    *)
(* with transactions it waits for, and sends the split, which it does not  *)
(* wait for.  The chain is EvmAccount, with what the token and the router  *)
(* do when a transaction is mined.                                         *)
(***************************************************************************)
EXTENDS EvmAccount

CONSTANTS
    Calls,      \* the calls of Execute
    PayerKey,   \* PayerKey[c]: the field payerKey of the request
    Erc20,      \* the calls that move tokens without a permit
    Need,       \* the tokens such a call moves
    Strict,     \* the token refuses to change one allowance into another
    MayLapse    \* whether a lease can expire under its callback

\* relayer: server_key2 if the request says so, server_key1 otherwise.
Relayer(c) == IF PayerKey[c] = "server_key2" THEN "server_key2"
                                             ELSE "server_key1"

\* The transactions of ensureAllowance, in order, and those of the split.
Approvals == {"approve", "reset", "again"}
Sends == {"send", "resend"}

ASSUME SplitAssumption ==
    /\ Erc20 \subseteq Calls
    /\ \A c \in Calls : Relayer(c) \in Wallets
    /\ Calls \X (Approvals \cup Sends) \X (0 .. MaxNonce + 1) \subseteq Txs
    /\ Need \in Nat \ {0}
    /\ Strict \in BOOLEAN
    /\ MayLapse \in BOOLEAN

VARIABLES
    live, zombies,  \* the state of the nonce lock
    call,           \* call[c]: [pc, waits, nonce, pn], the locals of Execute
    allowance,      \* allowance[w]: the router's allowance on the chain
    payerNonce,     \* payerNonce[w]: the router's nonce of the payer
    lapsed,         \* history: the calls whose lease expired under them
    stale,          \* history: the calls that read payerNonce or allowance
                    \* while a transaction of another call was pending that
                    \* changes it
    skipped,        \* history: the calls whose second attempt follows EFS024
    spoiled         \* history: the transactions that reverted for a reason
                    \* other than the payer nonce and the allowance

lockVars == <<live, zombies>>
tokenVars == <<allowance, payerNonce>>
history == <<lapsed, stale, skipped, spoiled>>
vars == <<slot, mined, reverted, live, zombies, call, allowance, payerNonce,
          lapsed, stale, skipped, spoiled>>

Lock == INSTANCE LeaseLock WITH KeyOf <- [c \in Calls |-> Relayer(c)]

Ended == {"ok", "failed"}

\* A transaction is its call, its step and the payer nonce it was signed for.
Tx(c) == <<c, call[c].pc, call[c].pn>>

-----------------------------------------------------------------------------
Init ==
    /\ ChainInit
    /\ Lock!Init
    /\ call = [c \in Calls |->
                  [pc |-> "lock", waits |-> FALSE, nonce |-> 0, pn |-> 0]]
    /\ allowance \in [Wallets -> 0 .. 2 * Need]
    /\ payerNonce = [w \in Wallets |-> 0]
    /\ lapsed = {}
    /\ stale = {}
    /\ skipped = {}
    /\ spoiled = {}

Goto(c, from, r) ==
    /\ call[c].pc = from
    /\ call' = [call EXCEPT ![c] = r]

\* The callback returns and the lock is given back.
Return(c, to) ==
    /\ call' = [call EXCEPT ![c].pc = to, ![c].waits = FALSE]
    /\ Lock!Leave({c})

\* A bad request, a missing key, client or lock.
Refused(c) ==
    /\ Goto(c, "lock", [call[c] EXCEPT !.pc = "failed"])
    /\ UNCHANGED <<chainVars, lockVars, tokenVars, history>>

Enter(c) ==
    /\ Lock!Acquire(c)
    /\ Goto(c, "lock", [call[c] EXCEPT !.pc = "payerNonce"])
    /\ UNCHANGED <<chainVars, tokenVars, history>>

\* Whether a transaction of another call with a step in S is in the pool.
OthersPending(w, c, S) ==
    \E n \in Nonces : /\ n >= mined[w] /\ slot[w][n] # NoTx
                      /\ slot[w][n][1] # c /\ slot[w][n][2] \in S

Note(c, S) == stale' = IF OthersPending(Relayer(c), c, S) THEN stale \cup {c}
                                                          ELSE stale

\* callBig(signerEpoch), callBig(payerNonce): the state of the last block.
ReadPayerNonce(c) ==
    /\ Goto(c, "payerNonce", [call[c] EXCEPT !.pc = "eoaNonce",
                                             !.pn = payerNonce[Relayer(c)]])
    /\ Note(c, Sends)
    /\ UNCHANGED <<chainVars, lockVars, tokenVars, lapsed, skipped, spoiled>>

ReadEoaNonce(c) ==
    /\ \E n \in Nonces :
          /\ IsPendingNonce(Relayer(c), n)
          /\ Goto(c, "eoaNonce", [call[c] EXCEPT !.pc = "allowance",
                                                 !.nonce = n])
    /\ UNCHANGED <<chainVars, lockVars, tokenVars, history>>

\* ensureAllowance, if the call needs it: enough allowance, or approve.
CheckAllowance(c) ==
    LET enough == c \notin Erc20 \/ allowance[Relayer(c)] >= Need IN
    /\ Goto(c, "allowance",
            [call[c] EXCEPT !.pc = IF enough THEN "send" ELSE "approve"])
    /\ Note(c, IF c \in Erc20 THEN Approvals \cup Sends ELSE {})
    /\ UNCHANGED <<chainVars, lockVars, tokenVars, lapsed, skipped, spoiled>>

\* A view call, or anything before the first transaction, fails.
ReadFails(c) ==
    /\ call[c].pc \in {"payerNonce", "eoaNonce", "allowance", "fresh"}
    /\ Return(c, "failed")
    /\ UNCHANGED <<chainVars, tokenVars, history>>

(***************************************************************************)
(* SignAndSend with the call's nonce.  A failed gas estimate is replaced   *)
(* by a fixed limit, so a transaction bound to revert is sent all the same. *)
(***************************************************************************)
\* A mutant: the nonce is counted from one.
SignAndSendAhead(c, err) ==
    LET w == Relayer(c)
        n == call[c].nonce + 1
    IN  \/ err = "" /\ n \in Nonces /\ Admit(w, n, Tx(c))
        \/ err = "other" /\ UNCHANGED chainVars

\* err is "" for success, "low" for the node's "nonce too low", "other" for
\* a transport error, before or after the node took the transaction, and for
\* "replacement transaction underpriced".
SignAndSend(c, err) ==
    LET w == Relayer(c)
        n == call[c].nonce
    IN  \/ err = "" /\ n \in Nonces /\ Admit(w, n, Tx(c))
        \/ err = "low" /\ n < mined[w] /\ UNCHANGED chainVars
        \/ err = "other" /\ UNCHANGED chainVars
        \/ err = "other" /\ n \in Nonces /\ Admit(w, n, Tx(c))

\* A mutant: every error is a nonce error.
RetryAlways(err) == err # ""

\* isNonceErr: the texts "nonce" and "efs024".
IsNonceErr(err) == err \in {"low", "efs024"}

\* The router's view hashTypedDataPayerSplit refuses a payer nonce that is no
\* longer the current one: EFS024, before a nonce of the EOA is used.
ViewRefuses(c, err) ==
    /\ err = "efs024"
    /\ call[c].pn # payerNonce[Relayer(c)]
    /\ UNCHANGED chainVars

\* ensureAllowance after a failed approve, reset or second approve.
ApprovalFails(c) ==
    IF call[c].pc = "approve"
    THEN /\ call' = [call EXCEPT ![c].pc = "reset", ![c].waits = FALSE]
         /\ UNCHANGED lockVars
    ELSE Return(c, "failed")

Approve(c, err) ==
    /\ call[c].pc \in Approvals /\ ~call[c].waits
    /\ SignAndSend(c, err)
    /\ IF err = "" THEN /\ call' = [call EXCEPT ![c].waits = TRUE]
                        /\ UNCHANGED lockVars
                   ELSE ApprovalFails(c)
    /\ UNCHANGED <<tokenVars, history>>

\* A mutant: the receipt's status is not looked at.
ReceiptUnchecked(c) ==
    /\ call[c].waits
    /\ IsMined(Relayer(c), call[c].nonce, Tx(c))
    /\ call' = [call EXCEPT ![c].pc = IF @ = "reset" THEN "again" ELSE "send",
                            ![c].nonce = @ + 1, ![c].waits = FALSE]
    /\ UNCHANGED <<chainVars, lockVars, tokenVars, history>>

\* WaitReceipt finds the approval with status 1: the next nonce is free.
Receipt(c) ==
    /\ call[c].waits
    /\ IsMined(Relayer(c), call[c].nonce, Tx(c)) /\ Tx(c) \notin reverted
    /\ call' = [call EXCEPT ![c].pc = IF @ = "reset" THEN "again" ELSE "send",
                            ![c].nonce = @ + 1, ![c].waits = FALSE]
    /\ UNCHANGED <<chainVars, lockVars, tokenVars, history>>

\* A mutant: WaitReceipt has no deadline.
NoReceiptPatient(c) ==
    /\ call[c].waits
    /\ Tx(c) \in reverted
    /\ ApprovalFails(c)
    /\ UNCHANGED <<chainVars, tokenVars, history>>

\* WaitReceipt finds status 0, times out after 60 s, or is cancelled.
NoReceipt(c) ==
    /\ call[c].waits
    /\ ApprovalFails(c)
    /\ UNCHANGED <<chainVars, tokenVars, history>>

\* buildAndSend: the split signed for the payer nonce, checked by the view and
\* sent; once more after a nonce error, with a fresh payer nonce and the next
\* nonce of the EOA.
BuildAndSend(c, err) ==
    /\ call[c].pc \in Sends
    /\ ViewRefuses(c, err) \/ SignAndSend(c, err)
    /\ IF call[c].pc = "send" /\ IsNonceErr(err)
       THEN /\ call' = [call EXCEPT ![c].pc = "fresh"]
            /\ skipped' = IF err = "efs024" THEN skipped \cup {c} ELSE skipped
            /\ UNCHANGED lockVars
       ELSE /\ Return(c, IF err = "" THEN "ok" ELSE "failed")
            /\ UNCHANGED skipped
    /\ UNCHANGED <<tokenVars, lapsed, stale, spoiled>>

\* A mutant: the second attempt goes back to the nonce before.
ReadFreshBack(c) ==
    /\ Goto(c, "fresh", [call[c] EXCEPT !.pc = "resend", !.nonce = @ - 1,
                                        !.pn = payerNonce[Relayer(c)]])
    /\ Note(c, Sends)
    /\ UNCHANGED <<chainVars, lockVars, tokenVars, lapsed, skipped, spoiled>>

\* After a nonce error: the payer nonce again, and the next EOA nonce.
ReadFresh(c) ==
    /\ Goto(c, "fresh", [call[c] EXCEPT !.pc = "resend", !.nonce = @ + 1,
                                        !.pn = payerNonce[Relayer(c)]])
    /\ Note(c, Sends)
    /\ UNCHANGED <<chainVars, lockVars, tokenVars, lapsed, skipped, spoiled>>

Lapse(c) ==
    /\ Lock!Lapse(c)
    /\ lapsed' = lapsed \cup {c}
    /\ UNCHANGED <<chainVars, call, tokenVars, stale, skipped, spoiled>>

(***************************************************************************)
(* The chain (external): what the token and the router do with the next    *)
(* transaction of wallet w.  The payer nonce and the allowance decide, and *)
(* an unsound one reverts all the same: its balance, its permit, the       *)
(* signer epoch, its gas.                                                  *)
(***************************************************************************)
Fits(t, w) ==
    CASE t[2] = "reset" -> TRUE
      [] t[2] \in {"approve", "again"} -> ~Strict \/ allowance[w] = 0
      [] OTHER -> /\ t[3] = payerNonce[w]
                  /\ t[1] \in Erc20 => allowance[w] >= Need

Block(w, sound) ==
    LET t == slot[w][mined[w]]
        after == CASE t[2] = "reset" -> 0
                   [] t[2] \in {"approve", "again"} -> Need
                   [] OTHER -> allowance[w] - (IF t[1] \in Erc20 THEN Need ELSE 0)
    IN
    /\ Mine(w)
    /\ IF sound /\ Fits(t, w)
       THEN /\ reverted' = reverted
            /\ allowance' = [allowance EXCEPT ![w] = after]
            /\ payerNonce' = [payerNonce EXCEPT
                                 ![w] = IF t[2] \in Sends THEN @ + 1 ELSE @]
       ELSE reverted' = reverted \cup {t} /\ UNCHANGED tokenVars
    /\ spoiled' = IF sound THEN spoiled ELSE spoiled \cup {t}
    /\ UNCHANGED <<lockVars, call, lapsed, stale, skipped>>

-----------------------------------------------------------------------------
Step(c) ==
    \/ Refused(c) \/ Enter(c) \/ ReadPayerNonce(c) \/ ReadEoaNonce(c)
    \/ CheckAllowance(c) \/ ReadFails(c) \/ Receipt(c) \/ NoReceipt(c)
    \/ ReadFresh(c)
    \/ \E err \in {"", "low", "other"} : Approve(c, err)
    \/ \E err \in {"", "low", "other", "efs024"} : BuildAndSend(c, err)

Next ==
    \/ \E c \in Calls : Step(c) \/ Lapse(c)
    \/ \E w \in Wallets, sound \in BOOLEAN : Block(w, sound)

\* Every request of a call is answered or times out.  No fairness for the
\* chain.
Fairness == \A c \in Calls : WF_vars(Step(c))

Spec == Init /\ [][Next]_vars

FairSpec == Spec /\ Fairness

-----------------------------------------------------------------------------
\* The locals of Execute, the token and the router have their types: no nonce
\* and no allowance falls below zero, and lock and history name calls.
TypeOK ==
    /\ ChainTypeOK
    /\ live \subseteq Calls /\ zombies \subseteq Calls
    /\ call \in [Calls ->
          [pc : {"lock", "payerNonce", "eoaNonce", "allowance", "fresh"}
                \cup Approvals \cup Sends \cup Ended,
           waits : BOOLEAN, nonce : Nat, pn : Nat]]
    /\ allowance \in [Wallets -> 0 .. 2 * Need]
    /\ payerNonce \in [Wallets -> Nat]
    /\ lapsed \subseteq Calls /\ stale \subseteq Calls
    /\ skipped \subseteq Calls /\ spoiled \subseteq reverted

\* The split transactions of call c that were mined and paid.
Paid(c) ==
    {p \in Wallets \X Nonces :
        LET t == slot[p[1]][p[2]] IN
        p[2] < mined[p[1]] /\ t[1] = c /\ t[2] \in Sends /\ t \notin reverted}

\* A call pays once at most: the second attempt of Execute, with a fresh
\* payer nonce, is never made when the first one is out.
PaysOnce ==
    \A c \in Calls, p, q \in UNION {Paid(d) : d \in Calls} :
        p \in Paid(c) /\ q \in Paid(c) => p = q

\* A transaction never waits behind an empty nonce, whatever the approvals,
\* their reset and the errors of the node do, except in one case: the second
\* attempt after EFS024 skips the one nonce before its own, and nothing is
\* ever sent beyond it.
NoHole ==
    \A w \in Wallets, n \in Nonces :
        slot[w][n] # NoTx =>
            \A i \in 0 .. n :
                \/ slot[w][i] # NoTx
                \/ i + 1 = n /\ slot[w][n][2] = "resend" /\ slot[w][n][1] \in skipped

\* The second attempt of Execute, like the first one, uses a nonce of the EOA
\* with nothing missing before it, as reading PendingNonceAt would ensure.
RetryFollowsTheLine ==
    \A c \in Calls :
        call[c].pc = "resend" =>
            \A i \in Nonces : i < call[c].nonce => slot[Relayer(c)][i] # NoTx

\* A split that was answered with its hash and then reverts for its payer
\* nonce or the allowance was sent on a value that was read while a split or
\* an approval of another call was pending, or after some lease had run out.
RevertsOnlyIfStale ==
    \A c \in Calls :
        /\ call[c].pc = "ok"
        /\ \E t \in reverted \ spoiled : t[1] = c /\ t[2] \in Sends
        => c \in stale \/ lapsed # {}

\* When the token refuses to change the allowance, the reset of
\* ensureAllowance goes out with a nonce the chain still takes.
ResetFollowsRefusal ==
    \A c \in Calls :
        /\ call[c].pc = "reset" /\ ~call[c].waits
        /\ <<c, "approve", call[c].pn>> \in reverted \ spoiled
        => call[c].nonce >= mined[Relayer(c)]

\* Every call of Execute ends, also when nothing is mined any more.
EverySplitEnds ==
    \A c \in Calls : call[c].pc # "lock" ~> call[c].pc \in Ended
=============================================================================
