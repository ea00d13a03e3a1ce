---------------------------- MODULE SplitProofs ----------------------------
(***************************************************************************)
(* Proofs about the funded split for any number of calls and payers, any   *)
(* amount and both kinds of token.                                         *)
(***************************************************************************)
EXTENDS Split, TLAPS

Steps == Approvals \cup Sends

\* The transactions of the calls.
CallTxs == Calls \X Steps \X (0 .. MaxNonce + 1)

InFn == {"payerNonce", "eoaNonce", "allowance", "fresh"} \cup Steps

\* Where a call knows its nonce of the EOA.
HasNonce == {"allowance", "fresh"} \cup Steps

Filled(w, n) == slot[w][n] # NoTx

Pending(w, n) == n >= mined[w] /\ Filled(w, n)

\* A slot holds a transaction of a call of that payer, which has come to send
\* transactions, and the router has counted no more splits than were mined.
PlaceInv ==
    /\ \A w \in Wallets, n \in Nonces :
          Filled(w, n) => /\ slot[w][n] \in CallTxs
                          /\ Relayer(slot[w][n][1]) = w
                          /\ call[slot[w][n][1]].pc \in Steps \cup {"fresh"} \cup Ended
    /\ \A w \in Wallets : payerNonce[w] <= mined[w]
    /\ \A c \in Calls : call[c].pn <= MaxNonce + 1
    /\ \A c \in Calls : call[c].waits => call[c].pc \in Approvals

\* Nothing is missing below what was mined, below a filled slot, and below a
\* nonce a call works with, except where EFS024 made a call skip one.
FilledInv ==
    /\ NoHole
    /\ \A w \in Wallets, n \in Nonces : n < mined[w] => Filled(w, n)
    /\ \A c \in Calls : call[c].pc \in HasNonce =>
          \A i \in Nonces : i < call[c].nonce =>
              \/ Filled(Relayer(c), i)
              \/ i + 1 = call[c].nonce /\ call[c].pc = "resend" /\ c \in skipped
    /\ \A c \in Calls : call[c].pc = "fresh" =>
          call[c].nonce < mined[Relayer(c)] \/ c \in skipped

\* A call that has not ended has no split out, one that has ended at most one.
SplitInv ==
    /\ \A w \in Wallets, n \in Nonces :
          Filled(w, n) /\ slot[w][n][2] \in Sends => call[slot[w][n][1]].pc \in Ended
    /\ \A v, w \in Wallets, m, n \in Nonces :
          /\ Filled(v, m) /\ slot[v][m][2] \in Sends
          /\ Filled(w, n) /\ slot[w][n][2] \in Sends
          /\ slot[v][m][1] = slot[w][n][1]
          => v = w /\ m = n

LockInv ==
    /\ \A c \in Calls : c \in live \cup zombies <=> call[c].pc \in InFn
    /\ zombies \subseteq lapsed
    /\ \A c, d \in live : c # d => Relayer(c) # Relayer(d)

\* Beyond the nonce of a call there is only what has skipped a nonce; for a
\* call with current reads it is the end of the line, but for an approval of
\* its own.
LineInv ==
    /\ skipped \subseteq stale
    /\ \A c \in Calls : call[c].pc \in HasNonce =>
          \A n \in Nonces : n > call[c].nonce /\ Filled(Relayer(c), n) =>
              slot[Relayer(c)][n][1] \in skipped
    /\ \A c \in Calls \ stale : call[c].pc \in HasNonce =>
        /\ call[c].pc \notin {"fresh", "resend"}
        /\ \A n \in Nonces :
              n >= call[c].nonce /\ Filled(Relayer(c), n) =>
                  /\ n = call[c].nonce
                  /\ call[c].pc \in Approvals
                  /\ slot[Relayer(c)][n][1] = c
                  /\ slot[Relayer(c)][n][2] \in Approvals

\* What a call has read holds until its split is sent ...
ReadInv ==
    \A c \in Calls \ stale :
        LET w == Relayer(c) IN
        /\ call[c].pc \in InFn \ {"payerNonce"} =>
              /\ call[c].pn = payerNonce[w]
              /\ \A n \in Nonces : Pending(w, n) => slot[w][n][2] \notin Sends
        /\ c \in Erc20 /\ call[c].pc \in Approvals \cup {"send"} =>
              \A n \in Nonces : Pending(w, n) => n = call[c].nonce
        /\ c \in Erc20 /\ call[c].pc = "send" => allowance[w] >= Need
        /\ /\ call[c].pc \in {"approve", "again"} /\ call[c].waits
           /\ call[c].nonce \in Nonces
           /\ IsMined(w, call[c].nonce, Tx(c)) /\ Tx(c) \notin reverted
           => allowance[w] >= Need
        /\ c \notin Erc20 => call[c].pc \notin Approvals

\* ... and from then on until it is mined.
SentInv ==
    \A w \in Wallets, n \in Nonces :
        LET c == slot[w][n][1] IN
        Pending(w, n) /\ slot[w][n][2] \in Sends /\ c \notin stale =>
            /\ slot[w][n][3] = payerNonce[w]
            /\ \A m \in Nonces : m < n /\ Pending(w, m) => slot[w][m][2] \notin Sends
            /\ c \in Erc20 => n = mined[w] /\ allowance[w] >= Need

NoBadRevert == \A t \in reverted \ spoiled : t[2] \in Sends => t[1] \in stale

IndInv ==
    /\ TypeOK
    /\ PlaceInv
    /\ FilledInv
    /\ SplitInv
    /\ LockInv
    /\ lapsed = {} => LineInv /\ ReadInv /\ SentInv /\ NoBadRevert

USE TxsAssumption, NonceAssumption, SplitAssumption

Locals ==
    [pc : {"lock", "payerNonce", "eoaNonce", "allowance", "fresh"}
          \cup Approvals \cup Sends \cup Ended,
     waits : BOOLEAN, nonce : Nat, pn : Nat]

-----------------------------------------------------------------------------
(***************************************************************************)
(* The steps of a call by what they change.                                *)
(***************************************************************************)
\* Call c, and no other, gets these locals.
Sets(c, pc, waits, nonce, pn) ==
    /\ \A d \in Calls : d # c => call'[d] = call[d]
    /\ call'[c].pc = pc /\ call'[c].waits = waits
    /\ call'[c].nonce = nonce /\ call'[c].pn = pn

Moves(c, pc) == Sets(c, pc, call[c].waits, call[c].nonce, call[c].pn)

Quiet == UNCHANGED <<slot, mined, reverted>>

\* The node takes the transaction of call c.
Puts(c) ==
    /\ call[c].nonce \in Nonces /\ call[c].nonce >= mined[Relayer(c)]
    /\ slot' \in [Wallets -> [Nonces -> Txs \cup {NoTx}]]
    /\ \A w \in Wallets, n \in Nonces :
          slot'[w][n] = IF w = Relayer(c) /\ n = call[c].nonce
                        THEN Tx(c) ELSE slot[w][n]
    /\ UNCHANGED <<mined, reverted>>

Stays == UNCHANGED <<live, zombies>>

Leaves(c) == live' = live \ {c} /\ zombies' = zombies \ {c}

Refuses(c) ==
    /\ call[c].pc = "lock" /\ Moves(c, "failed")
    /\ Quiet /\ Stays /\ UNCHANGED stale

Enters(c) ==
    /\ call[c].pc = "lock" /\ Moves(c, "payerNonce")
    /\ \A d \in live : Relayer(d) # Relayer(c)
    /\ live' = live \cup {c} /\ UNCHANGED zombies
    /\ Quiet /\ UNCHANGED stale

\* The payer nonce is read; a call that is not marked stale by it has met no
\* split of another call.
ReadsPayer(c) ==
    /\ \/ /\ call[c].pc = "payerNonce"
          /\ Sets(c, "eoaNonce", call[c].waits, call[c].nonce,
                  payerNonce[Relayer(c)])
       \/ /\ call[c].pc = "fresh"
          /\ Sets(c, "resend", call[c].waits, call[c].nonce + 1,
                  payerNonce[Relayer(c)])
    /\ stale \subseteq stale'
    /\ c \notin stale' => ~OthersPending(Relayer(c), c, Sends)
    /\ stale' \subseteq stale \cup {c}
    /\ Quiet /\ Stays

ReadsLine(c) ==
    /\ call[c].pc = "eoaNonce"
    /\ \E n \in Nonces :
          /\ Sets(c, "allowance", call[c].waits, n, call[c].pn)
          /\ IsPendingNonce(Relayer(c), n)
    /\ Quiet /\ Stays /\ UNCHANGED stale

ChecksAllowance(c) ==
    /\ call[c].pc = "allowance"
    /\ \/ Moves(c, "send") /\ (c \in Erc20 => allowance[Relayer(c)] >= Need)
       \/ Moves(c, "approve") /\ c \in Erc20
    /\ stale \subseteq stale'
    /\ c \in Erc20 /\ c \notin stale' => ~OthersPending(Relayer(c), c, Steps)
    /\ stale' \subseteq stale \cup {c}
    /\ Quiet /\ Stays

\* The callback ends without a further transaction.
GivesUp(c) ==
    /\ call[c].pc \in InFn
    /\ Sets(c, "failed", FALSE, call[c].nonce, call[c].pn)
    /\ Quiet /\ Leaves(c) /\ UNCHANGED stale

\* The first approval failed, before or after the node took it.
Resets(c) ==
    /\ call[c].pc = "approve"
    /\ Sets(c, "reset", FALSE, call[c].nonce, call[c].pn)
    /\ Quiet \/ Puts(c)
    /\ Stays /\ UNCHANGED stale

Approves(c) ==
    /\ call[c].pc \in Approvals
    /\ Sets(c, call[c].pc, TRUE, call[c].nonce, call[c].pn)
    /\ Puts(c) /\ Stays /\ UNCHANGED stale

\* The reset or the second approval was taken and its reply was lost.
LosesApproval(c) ==
    /\ call[c].pc \in Approvals
    /\ Sets(c, "failed", FALSE, call[c].nonce, call[c].pn)
    /\ Puts(c) /\ Leaves(c) /\ UNCHANGED stale

Confirms(c) ==
    /\ call[c].waits
    /\ IsMined(Relayer(c), call[c].nonce, Tx(c)) /\ Tx(c) \notin reverted
    /\ Sets(c, IF call[c].pc = "reset" THEN "again" ELSE "send", FALSE,
            call[c].nonce + 1, call[c].pn)
    /\ Quiet /\ Stays /\ UNCHANGED stale

Submits(c) ==
    /\ call[c].pc \in Sends
    /\ \E pc \in Ended : Sets(c, pc, FALSE, call[c].nonce, call[c].pn)
    /\ Puts(c) /\ Leaves(c) /\ UNCHANGED stale

TooLow(c) ==
    /\ call[c].pc = "send" /\ call[c].nonce < mined[Relayer(c)]
    /\ Moves(c, "fresh")
    /\ Quiet /\ Stays /\ UNCHANGED stale

\* The view refuses the payer nonce of the first attempt.
Outdated(c) ==
    /\ call[c].pc = "send" /\ call[c].pn # payerNonce[Relayer(c)]
    /\ Moves(c, "fresh")
    /\ Quiet /\ Stays /\ UNCHANGED stale

Class(c) ==
    \/ /\ UNCHANGED skipped
       /\ \/ Refuses(c) \/ Enters(c) \/ ReadsPayer(c) \/ ReadsLine(c)
          \/ ChecksAllowance(c) \/ GivesUp(c) \/ Resets(c) \/ Approves(c)
          \/ LosesApproval(c) \/ Confirms(c) \/ Submits(c) \/ TooLow(c)
    \/ Outdated(c) /\ skipped' = skipped \cup {c}

LEMMA TypeLocals == TypeOK => call \in [Calls -> Locals]
  BY DEF TypeOK, Locals

LEMMA SetsFacts ==
    ASSUME TypeOK, NEW c \in Calls, NEW r \in Locals,
           call' = [call EXCEPT ![c] = r]
    PROVE  /\ call' \in [Calls -> Locals]
           /\ Sets(c, r.pc, r.waits, r.nonce, r.pn)
  BY TypeLocals DEF Sets

\* A transaction of a call is one of the chain's.
LEMMA TxType ==
    ASSUME TypeOK, PlaceInv, NEW c \in Calls, call[c].pc \in Steps
    PROVE  Tx(c) \in CallTxs /\ Tx(c) \in Txs
<1>1. call[c].pn \in 0 .. MaxNonce + 1
  BY TypeLocals DEF Locals, PlaceInv
<1>2. Tx(c) \in CallTxs
  BY <1>1 DEF Tx, CallTxs
<1> QED BY <1>2 DEF CallTxs, Steps

LEMMA AdmitFacts ==
    ASSUME TypeOK, PlaceInv, NEW c \in Calls, call[c].pc \in Steps,
           call[c].nonce \in Nonces, Admit(Relayer(c), call[c].nonce, Tx(c))
    PROVE  Puts(c)
<1> DEFINE w0 == Relayer(c)
           n0 == call[c].nonce
           t == Tx(c)
           row == [slot[w0] EXCEPT ![n0] = t]
<1>1. slot' = [slot EXCEPT ![w0] = row] /\ n0 >= mined[w0]
        /\ UNCHANGED <<mined, reverted>>
  BY DEF Admit
<1>2. w0 \in Wallets /\ n0 \in Nonces /\ slot[w0] \in [Nonces -> Txs \cup {NoTx}]
        /\ slot \in [Wallets -> [Nonces -> Txs \cup {NoTx}]]
  BY DEF TypeOK, ChainTypeOK
<1>3. t \in Txs
  BY TxType
<1> HIDE DEF w0, n0, t
<1>4. row \in [Nonces -> Txs \cup {NoTx}]
        /\ \A n \in Nonces : row[n] = IF n = n0 THEN t ELSE slot[w0][n]
  BY <1>2, <1>3
<1> HIDE DEF row
<1>5. slot' \in [Wallets -> [Nonces -> Txs \cup {NoTx}]]
        /\ \A w \in Wallets, n \in Nonces :
              slot'[w][n] = IF w = w0 /\ n = n0 THEN t ELSE slot[w][n]
  BY <1>1, <1>2, <1>4
<1> QED BY <1>1, <1>2, <1>5 DEF Puts, w0, n0, t

\* What SignAndSend can do.
LEMMA SendFacts ==
    ASSUME TypeOK, PlaceInv, NEW c \in Calls, call[c].pc \in Steps,
           NEW err \in {"", "low", "other"}, SignAndSend(c, err)
    PROVE  /\ Puts(c) \/ Quiet
           /\ err = "" => Puts(c)
           /\ err = "low" => Quiet /\ call[c].nonce < mined[Relayer(c)]
<1>1. CASE call[c].nonce \in Nonces /\ Admit(Relayer(c), call[c].nonce, Tx(c))
  <2>1. Puts(c)
    BY <1>1, AdmitFacts
  <2>2. CASE err = "low"
    BY <2>2 DEF SignAndSend, Quiet, chainVars
  <2> QED BY <2>1, <2>2
<1>2. CASE ~(call[c].nonce \in Nonces /\ Admit(Relayer(c), call[c].nonce, Tx(c)))
  BY <1>2 DEF SignAndSend, Quiet, chainVars
<1> QED BY <1>1, <1>2

\* Every step of a call is of one of the classes.
LEMMA StepClasses ==
    ASSUME TypeOK, PlaceInv, NEW c \in Calls, Step(c)
    PROVE  /\ Class(c)
           /\ call' \in [Calls -> Locals]
           /\ UNCHANGED <<allowance, payerNonce, lapsed, spoiled>>
<1>0. call \in [Calls -> Locals] /\ call[c] \in Locals
  BY TypeLocals
<1> USE DEF Class, Moves, Quiet, Stays, Leaves, chainVars, lockVars, tokenVars, history
<1> DEFINE Goal == /\ Class(c)
                   /\ call' \in [Calls -> Locals]
                   /\ UNCHANGED <<allowance, payerNonce, lapsed, spoiled>>
<1>1. CASE Refused(c)
  <2> DEFINE r == [call[c] EXCEPT !.pc = "failed"]
  <2>1. r \in Locals /\ r.pc = "failed" /\ r.waits = call[c].waits
          /\ r.nonce = call[c].nonce /\ r.pn = call[c].pn
    BY <1>0 DEF Locals, Ended
  <2>2. call[c].pc = "lock" /\ call' = [call EXCEPT ![c] = r]
    BY <1>1 DEF Refused, Goto
  <2> HIDE DEF r
  <2>3. call' \in [Calls -> Locals] /\ Sets(c, r.pc, r.waits, r.nonce, r.pn)
    BY <2>1, <2>2, SetsFacts
  <2>4. Refuses(c)
    BY <1>1, <2>1, <2>2, <2>3 DEF Refused, Refuses
  <2> QED BY <1>1, <2>3, <2>4 DEF Refused
<1>2. CASE Enter(c)
  <2> DEFINE r == [call[c] EXCEPT !.pc = "payerNonce"]
  <2>1. r \in Locals /\ r.pc = "payerNonce" /\ r.waits = call[c].waits
          /\ r.nonce = call[c].nonce /\ r.pn = call[c].pn
    BY <1>0 DEF Locals
  <2>2. call[c].pc = "lock" /\ call' = [call EXCEPT ![c] = r]
    BY <1>2 DEF Enter, Goto
  <2> HIDE DEF r
  <2>3. call' \in [Calls -> Locals] /\ Sets(c, r.pc, r.waits, r.nonce, r.pn)
    BY <2>1, <2>2, SetsFacts
  <2>4. Enters(c)
    BY <1>2, <2>1, <2>2, <2>3 DEF Enter, Enters, Lock!Acquire, TypeOK
  <2> QED BY <1>2, <2>3, <2>4 DEF Enter
<1>3. CASE ReadPayerNonce(c)
  <2> DEFINE p == payerNonce[Relayer(c)]
             r == [call[c] EXCEPT !.pc = "eoaNonce", !.pn = p]
  <2>0. p \in Nat
    BY DEF TypeOK
  <2>1. r \in Locals /\ r.pc = "eoaNonce" /\ r.waits = call[c].waits
          /\ r.nonce = call[c].nonce /\ r.pn = p
    BY <1>0, <2>0 DEF Locals
  <2>2. call[c].pc = "payerNonce" /\ call' = [call EXCEPT ![c] = r]
    BY <1>3 DEF ReadPayerNonce, Goto
  <2> HIDE DEF r
  <2>3. call' \in [Calls -> Locals] /\ Sets(c, r.pc, r.waits, r.nonce, r.pn)
    BY <2>1, <2>2, SetsFacts
  <2>4. ReadsPayer(c)
    BY <1>3, <2>1, <2>2, <2>3 DEF ReadPayerNonce, ReadsPayer, Note
  <2> QED BY <1>3, <2>3, <2>4 DEF ReadPayerNonce
<1>4. CASE ReadEoaNonce(c)
  <2>0. PICK n \in Nonces :
           /\ IsPendingNonce(Relayer(c), n)
           /\ Goto(c, "eoaNonce", [call[c] EXCEPT !.pc = "allowance", !.nonce = n])
    BY <1>4 DEF ReadEoaNonce
  <2> DEFINE r == [call[c] EXCEPT !.pc = "allowance", !.nonce = n]
  <2>n. n \in Nat
    BY DEF Nonces
  <2>1. r \in Locals /\ r.pc = "allowance" /\ r.waits = call[c].waits
          /\ r.nonce = n /\ r.pn = call[c].pn
    BY <1>0, <2>n DEF Locals
  <2>2. call[c].pc = "eoaNonce" /\ call' = [call EXCEPT ![c] = r]
    BY <2>0 DEF Goto
  <2> HIDE DEF r
  <2>3. call' \in [Calls -> Locals] /\ Sets(c, r.pc, r.waits, r.nonce, r.pn)
    BY <2>1, <2>2, SetsFacts
  <2>4. ReadsLine(c)
    BY <1>4, <2>0, <2>1, <2>2, <2>3 DEF ReadEoaNonce, ReadsLine
  <2> QED BY <1>4, <2>3, <2>4 DEF ReadEoaNonce
<1>5. CASE CheckAllowance(c)
  <2> DEFINE enough == c \notin Erc20 \/ allowance[Relayer(c)] >= Need
             p == IF enough THEN "send" ELSE "approve"
             r == [call[c] EXCEPT !.pc = p]
  <2>0. p \in {"send", "approve"}
    OBVIOUS
  <2>1. call[c].pc = "allowance" /\ call' = [call EXCEPT ![c] = r]
          /\ Note(c, IF c \in Erc20 THEN Approvals \cup Sends ELSE {})
    BY <1>5 DEF CheckAllowance, Goto
  <2>2. /\ p = "send" => (c \in Erc20 => allowance[Relayer(c)] >= Need)
        /\ p = "approve" => c \in Erc20
    OBVIOUS
  <2> HIDE DEF p
  <2>3. r \in Locals /\ r.pc = p /\ r.waits = call[c].waits
          /\ r.nonce = call[c].nonce /\ r.pn = call[c].pn
    BY <1>0, <2>0 DEF Locals, Approvals, Sends
  <2> HIDE DEF r
  <2>4. call' \in [Calls -> Locals] /\ Sets(c, r.pc, r.waits, r.nonce, r.pn)
    BY <2>1, <2>3, SetsFacts
  <2>5. ChecksAllowance(c)
    BY <1>5, <2>0, <2>1, <2>2, <2>3, <2>4 DEF CheckAllowance, ChecksAllowance, Note, Steps
  <2> QED BY <1>5, <2>4, <2>5 DEF CheckAllowance
<1>6. ASSUME NEW p \in Ended, Return(c, p)
      PROVE  /\ call' \in [Calls -> Locals]
             /\ Sets(c, p, FALSE, call[c].nonce, call[c].pn)
             /\ Leaves(c)
  BY <1>0, <1>6 DEF Return, Lock!Leave, Locals, Sets
<1>7. CASE ReadFails(c)
  BY <1>6, <1>7 DEF ReadFails, GivesUp, InFn, Ended
<1>8. ASSUME ApprovalFails(c), call[c].pc \in Approvals
      PROVE  /\ call' \in [Calls -> Locals]
             /\ \/ /\ call[c].pc = "approve" /\ Stays
                   /\ Sets(c, "reset", FALSE, call[c].nonce, call[c].pn)
                \/ Sets(c, "failed", FALSE, call[c].nonce, call[c].pn) /\ Leaves(c)
  <2>1. CASE call[c].pc = "approve"
    BY <1>0, <1>8, <2>1 DEF ApprovalFails, Locals, Sets, Approvals
  <2>2. CASE call[c].pc # "approve"
    BY <1>6, <1>8, <2>2 DEF ApprovalFails, Ended
  <2> QED BY <2>1, <2>2
<1>9. ASSUME NEW err \in {"", "low", "other"}, Approve(c, err)
      PROVE  Goal
  <2>1. call[c].pc \in Approvals /\ call[c].pc \in Steps /\ SignAndSend(c, err)
          /\ UNCHANGED <<allowance, payerNonce, lapsed, stale, skipped, spoiled>>
    BY <1>9 DEF Approve, Steps
  <2>2. /\ Puts(c) \/ Quiet
        /\ err = "" => Puts(c)
    BY <2>1, SendFacts
  <2> HIDE DEF Quiet, Stays, Leaves, Moves
  <2>3. CASE err = ""
    <3>1. call' = [call EXCEPT ![c].waits = TRUE] /\ Stays
      BY <1>9, <2>3 DEF Approve, Stays
    <3>2. call' \in [Calls -> Locals] /\ Sets(c, call[c].pc, TRUE, call[c].nonce, call[c].pn)
      BY <1>0, <3>1 DEF Locals, Sets
    <3>3. Approves(c)
      BY <2>1, <2>2, <2>3, <3>1, <3>2 DEF Approves
    <3> QED BY <2>1, <3>2, <3>3
  <2>4. CASE err # ""
    <3>1. ApprovalFails(c)
      BY <1>9, <2>4 DEF Approve
    <3>2. call[c].pc \in InFn
      BY <2>1 DEF InFn
    <3> QED BY <1>8, <2>1, <2>2, <3>1, <3>2 DEF Resets, LosesApproval, GivesUp
  <2> QED BY <2>3, <2>4
<1>10. CASE Receipt(c)
  <2>1. call[c].pc \in Approvals
    BY <1>10 DEF Receipt, PlaceInv
  <2> DEFINE p == IF call[c].pc = "reset" THEN "again" ELSE "send"
  <2>2. p \in {"again", "send"}
    OBVIOUS
  <2>3. call' = [call EXCEPT ![c].pc = p, ![c].nonce = call[c].nonce + 1, ![c].waits = FALSE]
    BY <1>0, <1>10 DEF Receipt
  <2>4. Confirms(c) <=> Sets(c, p, FALSE, call[c].nonce + 1, call[c].pn)
    BY <1>10 DEF Receipt, Confirms
  <2> HIDE DEF p
  <2>5. call' \in [Calls -> Locals] /\ Sets(c, p, FALSE, call[c].nonce + 1, call[c].pn)
    BY <1>0, <2>2, <2>3 DEF Locals, Sets, Approvals, Sends
  <2> QED BY <1>10, <2>4, <2>5 DEF Receipt
<1>11. CASE NoReceipt(c)
  <2>1. call[c].pc \in Approvals /\ call[c].pc \in InFn
    BY <1>11 DEF NoReceipt, PlaceInv, InFn, Steps
  <2> QED BY <1>8, <1>11, <2>1 DEF NoReceipt, Resets, GivesUp
<1>12. CASE ReadFresh(c)
  <2> DEFINE p == payerNonce[Relayer(c)]
             n == call[c].nonce + 1
             r == [call[c] EXCEPT !.pc = "resend", !.nonce = n, !.pn = p]
  <2>0. p \in Nat /\ n \in Nat
    BY <1>0 DEF TypeOK, Locals
  <2>2. call[c].pc = "fresh" /\ call' = [call EXCEPT ![c] = r]
    BY <1>0, <1>12 DEF ReadFresh, Goto
  <2>n. n = call[c].nonce + 1 /\ p = payerNonce[Relayer(c)]
    OBVIOUS
  <2> HIDE DEF n, p
  <2>1. r \in Locals /\ r.pc = "resend" /\ r.waits = call[c].waits
          /\ r.nonce = n /\ r.pn = p
    BY <1>0, <2>0 DEF Locals, Sends
  <2> HIDE DEF r
  <2>3. call' \in [Calls -> Locals] /\ Sets(c, r.pc, r.waits, r.nonce, r.pn)
    BY <2>1, <2>2, SetsFacts
  <2>4. ReadsPayer(c)
    BY <1>12, <2>1, <2>2, <2>3, <2>n DEF ReadFresh, ReadsPayer, Note
  <2> QED BY <1>12, <2>3, <2>4 DEF ReadFresh
<1>13. ASSUME NEW err \in {"", "low", "other", "efs024"}, BuildAndSend(c, err)
       PROVE  Goal
  <2>1. call[c].pc \in Sends /\ call[c].pc \in Steps
          /\ (ViewRefuses(c, err) \/ SignAndSend(c, err))
          /\ UNCHANGED <<allowance, payerNonce, lapsed, stale, spoiled>>
    BY <1>13 DEF BuildAndSend, Steps
  <2>2. /\ Puts(c) \/ Quiet
        /\ err = "" => Puts(c)
        /\ err = "low" => Quiet /\ call[c].nonce < mined[Relayer(c)]
        /\ err = "efs024" => Quiet /\ call[c].pn # payerNonce[Relayer(c)]
    <3>1. CASE ViewRefuses(c, err)
      BY <3>1 DEF ViewRefuses
    <3>2. CASE ~ViewRefuses(c, err)
      <4>1. err \in {"", "low", "other"} /\ SignAndSend(c, err)
        BY <2>1, <3>2 DEF SignAndSend
      <4> QED BY <2>1, <4>1, SendFacts
    <3> QED BY <3>1, <3>2
  <2>3. CASE call[c].pc = "send" /\ IsNonceErr(err)
    <3>1. /\ call' = [call EXCEPT ![c].pc = "fresh"] /\ Stays
          /\ err \in {"low", "efs024"}
          /\ skipped' = IF err = "efs024" THEN skipped \cup {c} ELSE skipped
      BY <1>13, <2>3 DEF BuildAndSend, IsNonceErr
    <3>2. call' \in [Calls -> Locals] /\ Moves(c, "fresh")
      BY <1>0, <3>1 DEF Locals, Sets
    <3>3. CASE err = "low"
      BY <2>1, <2>2, <2>3, <3>1, <3>2, <3>3 DEF TooLow
    <3>4. CASE err = "efs024"
      BY <2>1, <2>2, <2>3, <3>1, <3>2, <3>4 DEF Outdated
    <3> QED BY <3>1, <3>3, <3>4
  <2>4. CASE ~(call[c].pc = "send" /\ IsNonceErr(err))
    <3> DEFINE p == IF err = "" THEN "ok" ELSE "failed"
    <3>1. p \in Ended /\ (err # "" => p = "failed")
      BY DEF Ended
    <3>2. Return(c, p) /\ UNCHANGED skipped
      BY <1>13, <2>4 DEF BuildAndSend
    <3>3. call[c].pc \in InFn
      BY <2>1 DEF InFn
    <3> HIDE DEF p
    <3>4. /\ call' \in [Calls -> Locals]
          /\ Sets(c, p, FALSE, call[c].nonce, call[c].pn)
          /\ Leaves(c)
      BY <1>6, <3>1, <3>2
    <3> HIDE DEF Quiet, Leaves
    <3>5. CASE Puts(c)
      BY <2>1, <3>1, <3>2, <3>4, <3>5 DEF Submits
    <3>6. CASE ~Puts(c)
      BY <2>1, <2>2, <3>1, <3>2, <3>3, <3>4, <3>6 DEF GivesUp
    <3> QED BY <2>1, <3>4, <3>5, <3>6
  <2> QED BY <2>3, <2>4
<1> QED
  BY <1>1, <1>2, <1>3, <1>4, <1>5, <1>7, <1>9, <1>10, <1>11, <1>12, <1>13 DEF Step

-----------------------------------------------------------------------------
\* What the next transaction of wallet w does to the chain.
BlockClass(w) ==
    LET t == slot[w][mined[w]] IN
    /\ UNCHANGED <<slot, call, live, zombies, lapsed, stale, skipped>>
    /\ spoiled \subseteq spoiled'
    /\ mined[w] \in Nonces /\ Filled(w, mined[w])
    /\ \A v \in Wallets : mined'[v] = IF v = w THEN mined[w] + 1 ELSE mined[v]
    /\ \A v \in Wallets : v # w => /\ payerNonce'[v] = payerNonce[v]
                                  /\ allowance'[v] = allowance[v]
    /\ \/ /\ Fits(t, w) /\ UNCHANGED reverted
          /\ payerNonce'[w] = IF t[2] \in Sends THEN payerNonce[w] + 1
                                               ELSE payerNonce[w]
          /\ t[2] \in {"approve", "again"} => allowance'[w] = Need
       \/ /\ ~Fits(t, w) \/ t \in spoiled'
          /\ reverted' = reverted \cup {t}
          /\ UNCHANGED <<allowance, payerNonce>>

LEMMA TxFields ==
    ASSUME NEW t \in CallTxs
    PROVE  t[1] \in Calls /\ t[2] \in Steps /\ t[3] \in 0 .. MaxNonce + 1 /\ t \in Txs
  BY DEF CallTxs, Steps

LEMMA Blocks ==
    ASSUME TypeOK, PlaceInv, NEW w \in Wallets, NEW sound \in BOOLEAN,
           Block(w, sound)
    PROVE  /\ BlockClass(w)
           /\ mined' \in [Wallets -> 0 .. MaxNonce + 1]
           /\ reverted' \subseteq Txs /\ spoiled' \subseteq reverted'
           /\ allowance' \in [Wallets -> 0 .. 2 * Need]
           /\ payerNonce' \in [Wallets -> Nat]
<1> DEFINE t == slot[w][mined[w]]
           after == CASE t[2] = "reset" -> 0
                      [] t[2] \in {"approve", "again"} -> Need
                      [] OTHER -> allowance[w] - (IF t[1] \in Erc20 THEN Need ELSE 0)
           pn == IF t[2] \in Sends THEN payerNonce[w] + 1 ELSE payerNonce[w]
<1>1. /\ Mine(w)
      /\ IF sound /\ Fits(t, w)
         THEN /\ reverted' = reverted
              /\ allowance' = [allowance EXCEPT ![w] = after]
              /\ payerNonce' = [payerNonce EXCEPT ![w] = pn]
         ELSE reverted' = reverted \cup {t} /\ UNCHANGED <<allowance, payerNonce>>
      /\ spoiled' = IF sound THEN spoiled ELSE spoiled \cup {t}
      /\ UNCHANGED <<live, zombies, call, lapsed, stale, skipped>>
  BY DEF Block, lockVars, tokenVars, TypeOK
<1>2. /\ mined[w] \in 0 .. MaxNonce + 1 /\ allowance[w] \in 0 .. 2 * Need
      /\ payerNonce[w] \in Nat /\ Need \in Nat
  BY DEF TypeOK, ChainTypeOK
<1>3. /\ mined[w] \in Nonces /\ Filled(w, mined[w]) /\ UNCHANGED slot
      /\ mined' = [mined EXCEPT ![w] = mined[w] + 1]
  BY <1>1, <1>2 DEF Mine, Nonces, Filled
<1>4. t \in CallTxs
  BY <1>3 DEF PlaceInv
<1>5. t[1] \in Calls /\ t[2] \in Steps /\ t \in Txs
  BY <1>4, TxFields
<1>6. Fits(t, w) => after \in 0 .. 2 * Need
  <2>1. CASE t[2] = "reset" \/ t[2] \in {"approve", "again"}
    BY <1>2, <2>1
  <2>2. CASE ~(t[2] = "reset" \/ t[2] \in {"approve", "again"})
    <3>1. after = allowance[w] - (IF t[1] \in Erc20 THEN Need ELSE 0)
      BY <2>2
    <3>2. Fits(t, w) => (t[1] \in Erc20 => allowance[w] >= Need)
      BY <2>2 DEF Fits
    <3> HIDE DEF after
    <3> QED BY <1>2, <3>1, <3>2
  <2> QED BY <2>1, <2>2
<1>7. t[2] \in {"approve", "again"} => after = Need
  OBVIOUS
<1>8. pn \in Nat
  BY <1>2
<1>9. /\ mined' \in [Wallets -> 0 .. MaxNonce + 1]
      /\ \A v \in Wallets : mined'[v] = IF v = w THEN mined[w] + 1 ELSE mined[v]
  BY <1>2, <1>3 DEF TypeOK, ChainTypeOK, Nonces
<1>10. /\ reverted' \subseteq Txs /\ spoiled' \subseteq reverted'
       /\ spoiled \subseteq spoiled'
  BY <1>1, <1>5 DEF TypeOK, ChainTypeOK
<1>11. pn = IF t[2] \in Sends THEN payerNonce[w] + 1 ELSE payerNonce[w]
  OBVIOUS
<1> HIDE DEF after, pn
<1>12. CASE sound /\ Fits(t, w)
  <2>1. /\ allowance' \in [Wallets -> 0 .. 2 * Need]
        /\ \A v \in Wallets : v # w => allowance'[v] = allowance[v]
        /\ allowance'[w] = after
    BY <1>1, <1>6, <1>12 DEF TypeOK
  <2>2. /\ payerNonce' \in [Wallets -> Nat]
        /\ \A v \in Wallets : v # w => payerNonce'[v] = payerNonce[v]
        /\ payerNonce'[w] = pn
    BY <1>1, <1>8, <1>12 DEF TypeOK
  <2>3. BlockClass(w)
    BY <1>1, <1>3, <1>7, <1>9, <1>10, <1>11, <1>12, <2>1, <2>2 DEF BlockClass
  <2> QED BY <1>9, <1>10, <2>1, <2>2, <2>3
<1>13. CASE ~(sound /\ Fits(t, w))
  <2>1. BlockClass(w)
    BY <1>1, <1>3, <1>9, <1>10, <1>13 DEF BlockClass
  <2> QED BY <1>1, <1>9, <1>10, <1>13, <2>1 DEF TypeOK
<1> QED BY <1>12, <1>13

-----------------------------------------------------------------------------
LEMMA InitIndInv == Init => IndInv
<1> SUFFICES ASSUME Init
             PROVE  IndInv
  OBVIOUS
<1> USE DEF Init, ChainInit, Lock!Init
<1>1. TypeOK
  BY DEF TypeOK, ChainTypeOK, Nonces
<1>2. PlaceInv /\ SplitInv
  BY DEF PlaceInv, SplitInv, Filled
<1>3. FilledInv
  BY DEF FilledInv, NoHole, Nonces, Filled, HasNonce, Steps, Approvals, Sends
<1>4. LockInv /\ LineInv
  BY DEF LockInv, LineInv, InFn, HasNonce, Steps, Approvals, Sends
<1>5. ReadInv
  BY DEF ReadInv, InFn, Steps, Approvals, Sends
<1>6. SentInv /\ NoBadRevert
  BY DEF SentInv, NoBadRevert, Pending, Filled
<1> QED BY <1>1, <1>2, <1>3, <1>4, <1>5, <1>6 DEF IndInv

\* A slot after a step of call c holds what it held, or the transaction of c.
LEMMA SlotCases ==
    ASSUME TypeOK, NEW c \in Calls, Class(c)
    PROVE  /\ Puts(c) \/ Quiet
           /\ UNCHANGED <<mined, reverted>>
           /\ Puts(c) /\ ~Quiet => call[c].pc \in Steps
  BY DEF Class, Refuses, Enters, ReadsPayer, ReadsLine, ChecksAllowance,
         GivesUp, Resets, Approves, LosesApproval, Confirms, Submits, TooLow, Outdated,
         Quiet, Puts, Steps, Approvals

\* Where a step of call c leads, in terms of the points of Execute only.
LEMMA Progress ==
    ASSUME TypeOK, PlaceInv, NEW c \in Calls, Class(c)
    PROVE  /\ call[c].pc \notin Ended
           /\ call[c].pc \in Steps \cup {"fresh"} =>
                 call'[c].pc \in Steps \cup {"fresh"} \cup Ended
           /\ call'[c].waits => call'[c].pc \in Approvals
           /\ \A d \in Calls : d # c => call'[d] = call[d]
           /\ call'[c].pn \in {call[c].pn, payerNonce[Relayer(c)]}
  BY DEF Class, Refuses, Enters, ReadsPayer, ReadsLine, ChecksAllowance,
         GivesUp, Resets, Approves, LosesApproval, Confirms, Submits, TooLow, Outdated,
         Moves, Sets, Steps, Approvals, Sends, Ended, InFn, PlaceInv

LEMMA StepType ==
    ASSUME TypeOK, PlaceInv, NEW c \in Calls, Class(c),
           call' \in [Calls -> Locals], UNCHANGED <<allowance, payerNonce, lapsed, spoiled>>
    PROVE  TypeOK'
<1>1. slot' \in [Wallets -> [Nonces -> Txs \cup {NoTx}]] /\ UNCHANGED <<mined, reverted>>
  BY SlotCases DEF Puts, Quiet, TypeOK, ChainTypeOK
<1>2. live' \subseteq Calls /\ zombies' \subseteq Calls /\ stale' \subseteq Calls
        /\ skipped' \subseteq Calls
  BY DEF TypeOK, Class, Refuses, Enters, ReadsPayer, ReadsLine, ChecksAllowance,
         GivesUp, Resets, Approves, LosesApproval, Confirms, Submits, TooLow, Outdated,
         Stays, Leaves
<1> QED BY <1>1, <1>2 DEF TypeOK, ChainTypeOK, Locals

LEMMA StepPlace ==
    ASSUME TypeOK, PlaceInv, NEW c \in Calls, Class(c),
           UNCHANGED <<allowance, payerNonce, lapsed, spoiled>>
    PROVE  PlaceInv'
<1>1. ASSUME NEW w \in Wallets, NEW n \in Nonces, Filled(w, n)'
      PROVE  /\ slot'[w][n] \in CallTxs
             /\ Relayer(slot'[w][n][1]) = w
             /\ call'[slot'[w][n][1]].pc \in Steps \cup {"fresh"} \cup Ended
  <2>1. CASE slot'[w][n] = slot[w][n]
    <3>1. /\ slot[w][n] \in CallTxs /\ Relayer(slot[w][n][1]) = w
          /\ call[slot[w][n][1]].pc \in Steps \cup {"fresh"} \cup Ended
          /\ slot[w][n][1] \in Calls
      BY <1>1, <2>1, TxFields DEF PlaceInv, Filled
    <3> QED BY <2>1, <3>1, Progress
  <2>2. CASE slot'[w][n] # slot[w][n]
    <3>1. Puts(c) /\ call[c].pc \in Steps
      BY <2>2, SlotCases DEF Quiet
    <3>2. slot'[w][n] = Tx(c) /\ w = Relayer(c)
      BY <2>2, <3>1 DEF Puts
    <3>3. Tx(c) \in CallTxs /\ Tx(c)[1] = c
      BY <3>1, TxType DEF Tx
    <3> QED BY <3>1, <3>2, <3>3, Progress
  <2> QED BY <2>1, <2>2
<1>2. \A w \in Wallets : payerNonce'[w] <= mined'[w]
  BY SlotCases DEF PlaceInv
<1>3. \A d \in Calls : call'[d].pn <= MaxNonce + 1
  <2>1. payerNonce[Relayer(c)] <= MaxNonce + 1
    BY DEF TypeOK, ChainTypeOK, PlaceInv
  <2> QED BY <2>1, Progress DEF PlaceInv
<1>4. \A d \in Calls : call'[d].waits => call'[d].pc \in Approvals
  BY Progress DEF PlaceInv
<1> QED BY <1>1, <1>2, <1>3, <1>4 DEF PlaceInv

LEMMA SkippedGrows ==
    ASSUME NEW c \in Calls, Class(c)
    PROVE  skipped \subseteq skipped'
  BY DEF Class

\* The nonce a call works with after a step: its own, the end of the line, or
\* the next one, after a mined transaction or after EFS024.
LEMMA NonceCases ==
    ASSUME TypeOK, PlaceInv, FilledInv, NEW c \in Calls, Class(c),
           call'[c].pc \in HasNonce
    PROVE  \/ /\ call[c].pc \in HasNonce /\ call'[c].nonce = call[c].nonce
              /\ call[c].pc # "resend"
           \/ /\ Quiet /\ call'[c].nonce \in Nonces
              /\ IsPendingNonce(Relayer(c), call'[c].nonce)
           \/ /\ Quiet /\ call'[c].nonce = call[c].nonce + 1
              /\ call[c].pc \in HasNonce
              /\ \/ call[c].nonce < mined[Relayer(c)]
                 \/ call'[c].pc = "resend" /\ c \in skipped'
              /\ call[c].pc # "resend"
<1> USE DEF HasNonce, Steps, Approvals, Sends, Ended, Moves, Sets
<1>1. CASE Refuses(c) \/ Enters(c) \/ GivesUp(c) \/ LosesApproval(c) \/ Submits(c)
  BY <1>1 DEF Refuses, Enters, GivesUp, LosesApproval, Submits
<1>2. CASE ReadsPayer(c)
  BY <1>2, SkippedGrows DEF ReadsPayer, FilledInv
<1>3. CASE ReadsLine(c)
  BY <1>3 DEF ReadsLine
<1>4. CASE \/ ChecksAllowance(c) \/ Resets(c) \/ Approves(c) \/ TooLow(c)
           \/ Outdated(c)
  BY <1>4 DEF ChecksAllowance, Resets, Approves, TooLow, Outdated
<1>5. CASE Confirms(c)
  BY <1>5 DEF Confirms, IsMined, PlaceInv
<1> QED BY <1>1, <1>2, <1>3, <1>4, <1>5 DEF Class

LEMMA PutsNonce ==
    ASSUME NEW c \in Calls, Class(c), ~Quiet
    PROVE  Puts(c) /\ call[c].pc \in Steps /\ call[c].pc \in HasNonce
  BY DEF Class, Refuses, Enters, ReadsPayer, ReadsLine, ChecksAllowance,
         GivesUp, Resets, Approves, LosesApproval, Confirms, Submits, TooLow, Outdated,
         Steps, Approvals, HasNonce

\* A slot that was filled stays filled.
LEMMA StaysFilled ==
    ASSUME TypeOK, PlaceInv, NEW c \in Calls, Class(c),
           NEW w \in Wallets, NEW n \in Nonces, Filled(w, n)
    PROVE  Filled(w, n)'
<1>1. CASE Quiet
  BY <1>1 DEF Quiet, Filled
<1>2. CASE ~Quiet
  <2>1. Tx(c) # NoTx
    BY <1>2, PutsNonce, TxType
  <2> QED BY <1>2, <2>1, PutsNonce DEF Puts, Filled
<1> QED BY <1>1, <1>2

LEMMA StepFilled ==
    ASSUME TypeOK, PlaceInv, FilledInv, NEW c \in Calls, Class(c),
           call' \in [Calls -> Locals]
    PROVE  FilledInv'
<1>0. \A d \in Calls : call[d].nonce \in Nat /\ call'[d].nonce \in Nat
  BY TypeLocals DEF Locals
<1>m. \A w \in Wallets : mined[w] \in 0 .. MaxNonce + 1
  BY DEF TypeOK, ChainTypeOK
<1>1. NoHole'
  <2> SUFFICES ASSUME NEW w \in Wallets, NEW n \in Nonces, Filled(w, n)',
                      NEW i \in 0 .. n, ~Filled(w, i)'
               PROVE  i + 1 = n /\ slot'[w][n][2] = "resend"
                        /\ slot'[w][n][1] \in skipped'
    BY DEF NoHole, Filled
  <2>0. i \in Nonces /\ n \in Nat /\ i # n
    BY DEF Nonces
  <2>1. ~Filled(w, i)
    BY <2>0, StaysFilled
  <2>2. CASE slot'[w][n] = slot[w][n]
    <3>1. i + 1 = n /\ slot[w][n][2] = "resend" /\ slot[w][n][1] \in skipped
      BY <2>1, <2>2 DEF FilledInv, NoHole, Filled
    <3> QED BY <2>2, <3>1, SkippedGrows
  <2>3. CASE slot'[w][n] # slot[w][n]
    <3>1. ~Quiet
      BY <2>3 DEF Quiet
    <3>2. /\ call[c].pc \in HasNonce /\ w = Relayer(c) /\ n = call[c].nonce
          /\ slot'[w][n] = Tx(c)
      BY <2>3, <3>1, PutsNonce DEF Puts
    <3>3. i < call[c].nonce
      BY <2>0, <3>2
    <3>4. i + 1 = n /\ call[c].pc = "resend" /\ c \in skipped
      BY <2>0, <2>1, <3>2, <3>3 DEF FilledInv
    <3> QED BY <3>2, <3>4, SkippedGrows DEF Tx
  <2> QED BY <2>2, <2>3
<1>2. \A w \in Wallets, n \in Nonces : n < mined'[w] => Filled(w, n)'
  BY SlotCases, StaysFilled DEF FilledInv
<1>3. ASSUME NEW d \in Calls, call'[d].pc \in HasNonce, NEW i \in Nonces,
             i < call'[d].nonce
      PROVE  \/ Filled(Relayer(d), i)'
             \/ i + 1 = call'[d].nonce /\ call'[d].pc = "resend" /\ d \in skipped'
  <2>1. \/ Filled(Relayer(d), i)
        \/ i + 1 = call'[d].nonce /\ call'[d].pc = "resend" /\ d \in skipped'
    <3>1. CASE d # c
      BY <1>3, <3>1, Progress, SkippedGrows DEF FilledInv
    <3>2. CASE d = c
      <4>1. CASE /\ call[c].pc \in HasNonce /\ call'[c].nonce = call[c].nonce
                 /\ call[c].pc # "resend"
        BY <1>3, <3>2, <4>1 DEF FilledInv
      <4>2. CASE call'[c].nonce \in Nonces /\ IsPendingNonce(Relayer(c), call'[c].nonce)
        BY <1>3, <3>2, <4>2 DEF IsPendingNonce, Nonces, Filled
      <4>3. CASE /\ call'[c].nonce = call[c].nonce + 1
                 /\ call[c].pc \in HasNonce
                 /\ \/ call[c].nonce < mined[Relayer(c)]
                    \/ call'[c].pc = "resend" /\ c \in skipped'
                 /\ call[c].pc # "resend"
        <5>1. \/ i < call[c].nonce \/ i < mined[Relayer(c)]
              \/ i + 1 = call'[c].nonce /\ call'[c].pc = "resend" /\ c \in skipped'
          BY <1>0, <1>m, <1>3, <3>2, <4>3 DEF Nonces
        <5> QED BY <3>2, <4>3, <5>1 DEF FilledInv
      <4> QED BY <1>3, <3>2, <4>1, <4>2, <4>3, NonceCases
    <3> QED BY <3>1, <3>2
  <2> QED BY <2>1, StaysFilled
<1>4. ASSUME NEW d \in Calls, call'[d].pc = "fresh"
      PROVE  call'[d].nonce < mined'[Relayer(d)] \/ d \in skipped'
  <2>1. CASE d # c
    BY <1>4, <2>1, Progress, SlotCases, SkippedGrows DEF FilledInv
  <2>2. CASE d = c
    <3>1. TooLow(c) \/ c \in skipped'
      BY <1>4, <2>2 DEF Class, Refuses, Enters, ReadsPayer, ReadsLine, ChecksAllowance,
         GivesUp, Resets, Approves, LosesApproval, Confirms, Submits,
         Moves, Sets, Approvals, Ended
    <3> QED BY <2>2, <3>1 DEF TooLow, Moves, Sets, Quiet
  <2> QED BY <2>1, <2>2
<1> QED BY <1>1, <1>2, <1>3, <1>4 DEF FilledInv

\* A slot that holds a split after a step held it before, or the step is the
\* one that sends it and ends the call.
LEMMA SplitSlots ==
    ASSUME TypeOK, PlaceInv, NEW c \in Calls, Class(c),
           NEW w \in Wallets, NEW n \in Nonces, Filled(w, n)',
           slot'[w][n][2] \in Sends
    PROVE  \/ slot'[w][n] = slot[w][n] /\ Filled(w, n)
           \/ /\ Submits(c) /\ slot'[w][n] = Tx(c) /\ Tx(c)[1] = c
              /\ w = Relayer(c) /\ n = call[c].nonce
<1>1. CASE slot'[w][n] = slot[w][n]
  BY <1>1 DEF Filled
<1>2. CASE slot'[w][n] # slot[w][n]
  <2>1. ~Quiet
    BY <1>2 DEF Quiet
  <2>2. Puts(c) /\ slot'[w][n] = Tx(c) /\ w = Relayer(c) /\ n = call[c].nonce
    BY <1>2, <2>1, PutsNonce DEF Puts
  <2>3. call[c].pc \in Sends /\ Tx(c)[1] = c
    BY <2>2 DEF Tx
  <2>4. Submits(c)
    BY <2>1, <2>3 DEF Class, Refuses, Enters, ReadsPayer, ReadsLine, ChecksAllowance,
         GivesUp, Resets, Approves, LosesApproval, Confirms, TooLow, Outdated, Sends, Approvals
  <2> QED BY <2>2, <2>3, <2>4
<1> QED BY <1>1, <1>2

LEMMA StepSplit ==
    ASSUME TypeOK, PlaceInv, SplitInv, NEW c \in Calls, Class(c)
    PROVE  SplitInv'
<1> DEFINE Has(w, n) == Filled(w, n) /\ slot[w][n][2] \in Sends
<1>0. Submits(c) => call'[c].pc \in Ended
  BY DEF Submits, Sets
<1>1. ASSUME NEW w \in Wallets, NEW n \in Nonces, Filled(w, n)', slot'[w][n][2] \in Sends
      PROVE  call'[slot'[w][n][1]].pc \in Ended
  <2>1. CASE slot'[w][n] = slot[w][n] /\ Filled(w, n)
    <3>1. slot[w][n][1] \in Calls /\ call[slot[w][n][1]].pc \in Ended
      BY <1>1, <2>1, TxFields DEF PlaceInv, SplitInv
    <3> QED BY <2>1, <3>1, Progress
  <2> QED BY <1>0, <1>1, <2>1, SplitSlots
<1>2. ASSUME NEW v \in Wallets, NEW w \in Wallets, NEW m \in Nonces, NEW n \in Nonces,
             Filled(v, m)', slot'[v][m][2] \in Sends,
             Filled(w, n)', slot'[w][n][2] \in Sends,
             slot'[v][m][1] = slot'[w][n][1]
      PROVE  v = w /\ m = n
  <2>1. \/ slot'[v][m] = slot[v][m] /\ Filled(v, m) /\ call[slot[v][m][1]].pc \in Ended
        \/ /\ slot'[v][m][1] = c /\ v = Relayer(c) /\ m = call[c].nonce
    BY <1>2, SplitSlots DEF SplitInv
  <2>2. \/ slot'[w][n] = slot[w][n] /\ Filled(w, n) /\ call[slot[w][n][1]].pc \in Ended
        \/ /\ slot'[w][n][1] = c /\ w = Relayer(c) /\ n = call[c].nonce
    BY <1>2, SplitSlots DEF SplitInv
  <2>3. call[c].pc \notin Ended
    BY Progress
  <2>4. CASE slot'[v][m] = slot[v][m] /\ Filled(v, m) /\ slot'[w][n] = slot[w][n] /\ Filled(w, n)
    BY <1>2, <2>4 DEF SplitInv
  <2> QED BY <1>2, <2>1, <2>2, <2>3, <2>4
<1> QED BY <1>1, <1>2 DEF SplitInv

LEMMA StepLock ==
    ASSUME TypeOK, PlaceInv, LockInv, NEW c \in Calls, Class(c), UNCHANGED lapsed
    PROVE  LockInv'
<1> USE DEF InFn, Steps, Approvals, Sends, Ended, Moves, Sets, Stays, Leaves, LockInv
<1>1. CASE Refuses(c)
  BY <1>1 DEF Refuses
<1>2. CASE Enters(c)
  BY <1>2 DEF Enters, TypeOK
<1>3. CASE GivesUp(c) \/ LosesApproval(c) \/ Submits(c)
  BY <1>3 DEF GivesUp, LosesApproval, Submits
<1>4. CASE ReadsPayer(c) \/ ReadsLine(c) \/ ChecksAllowance(c) \/ Resets(c)
           \/ Approves(c) \/ TooLow(c) \/ Outdated(c)
  BY <1>4 DEF ReadsPayer, ReadsLine, ChecksAllowance, Resets, Approves, TooLow, Outdated
<1>5. CASE Confirms(c)
  BY <1>5 DEF Confirms, PlaceInv
<1> QED BY <1>1, <1>2, <1>3, <1>4, <1>5 DEF Class

-----------------------------------------------------------------------------
(***************************************************************************)
(* While no lease has run out, the calls of one payer take turns.          *)
(***************************************************************************)
LEMMA Alone ==
    ASSUME LockInv, lapsed = {}, NEW c \in Calls, NEW d \in Calls,
           call[c].pc \in InFn, call[d].pc \in InFn, Relayer(c) = Relayer(d)
    PROVE  c = d
  BY DEF LockInv

LEMMA HasNonceInFn ==
    ASSUME NEW pc \in HasNonce
    PROVE  pc \in InFn
  BY DEF HasNonce, InFn

\* A step of c leaves the line of another call alone.
LEMMA OthersLine ==
    ASSUME LockInv, lapsed = {}, NEW c \in Calls, Class(c), NEW d \in Calls,
           d # c, call[d].pc \in InFn
    PROVE  \A n \in Nonces : slot'[Relayer(d)][n] = slot[Relayer(d)][n]
<1>1. CASE Quiet
  BY <1>1 DEF Quiet
<1>2. CASE ~Quiet
  <2>1. Puts(c) /\ call[c].pc \in InFn
    BY <1>2, PutsNonce, HasNonceInFn
  <2>2. Relayer(c) # Relayer(d)
    BY <2>1, Alone
  <2> QED BY <2>1, <2>2 DEF Puts
<1> QED BY <1>1, <1>2

LEMMA StaleGrows ==
    ASSUME NEW c \in Calls, Class(c)
    PROVE  stale \subseteq stale'
  BY DEF Class, Refuses, Enters, ReadsPayer, ReadsLine, ChecksAllowance,
         GivesUp, Resets, Approves, LosesApproval, Confirms, Submits, TooLow, Outdated

\* Only a call that read while a split was pending is told EFS024.
LEMMA StepSkipped ==
    ASSUME TypeOK, LineInv, ReadInv, NEW c \in Calls, Class(c)
    PROVE  skipped' \subseteq stale'
<1>1. CASE UNCHANGED skipped
  BY <1>1, StaleGrows DEF LineInv
<1>2. CASE Outdated(c) /\ skipped' = skipped \cup {c}
  <2>1. call[c].pc \in InFn \ {"payerNonce"}
    BY <1>2 DEF Outdated, InFn, Steps, Sends
  <2>2. c \in stale
    BY <1>2, <2>1 DEF Outdated, ReadInv
  <2> QED BY <1>2, <2>2, StaleGrows DEF LineInv
<1> QED BY <1>1, <1>2 DEF Class

\* The nonce of a call only grows, once it is read.
LEMMA NonceGrows ==
    ASSUME TypeOK, PlaceInv, NEW c \in Calls, Class(c),
           call'[c].pc \in HasNonce, call[c].pc \in HasNonce
    PROVE  call'[c].nonce \in {call[c].nonce, call[c].nonce + 1}
  BY DEF Class, Refuses, Enters, ReadsPayer, ReadsLine, ChecksAllowance,
         GivesUp, Resets, Approves, LosesApproval, Confirms, Submits, TooLow, Outdated,
         Moves, Sets, Steps, Approvals, Sends, Ended, HasNonce

LEMMA StepBeyond ==
    ASSUME TypeOK, PlaceInv, FilledInv, LockInv, LineInv, lapsed = {},
           NEW c \in Calls, Class(c), call' \in [Calls -> Locals],
           NEW d \in Calls, call'[d].pc \in HasNonce,
           NEW n \in Nonces, n > call'[d].nonce, Filled(Relayer(d), n)'
    PROVE  slot'[Relayer(d)][n][1] \in skipped'
<1>n. n \in Nat /\ call[c].nonce \in Nat /\ call'[d].nonce \in Nat
  BY TypeLocals DEF Locals, Nonces
<1>1. CASE d # c
  <2>1. call'[d] = call[d] /\ call[d].pc \in HasNonce
    BY <1>1, Progress
  <2>2. slot'[Relayer(d)][n] = slot[Relayer(d)][n]
    BY <1>1, <2>1, HasNonceInFn, OthersLine
  <2>3. Filled(Relayer(d), n)
    BY <2>2 DEF Filled
  <2> QED BY <2>1, <2>2, <2>3, SkippedGrows DEF LineInv
<1>2. CASE d = c /\ call[c].pc \in HasNonce
  <2>1. n > call[c].nonce
    BY <1>2, <1>n, NonceGrows
  <2>2. slot'[Relayer(c)][n] = slot[Relayer(c)][n]
    <3>1. CASE Quiet
      BY <3>1 DEF Quiet
    <3>2. CASE ~Quiet
      BY <1>n, <2>1, <3>2, PutsNonce DEF Puts
    <3> QED BY <3>1, <3>2
  <2>3. Filled(Relayer(c), n)
    BY <1>2, <2>2 DEF Filled
  <2> QED BY <1>2, <2>1, <2>2, <2>3, SkippedGrows DEF LineInv
<1>3. CASE d = c /\ call[c].pc \notin HasNonce
  <2>1. Quiet /\ IsPendingNonce(Relayer(c), call'[c].nonce)
    BY <1>3, NonceCases
  <2>2. Filled(Relayer(c), n) /\ ~Filled(Relayer(c), call'[c].nonce)
    BY <1>3, <2>1 DEF Quiet, Filled, IsPendingNonce
  <2>3. call'[c].nonce \in 0 .. n
    BY <1>3, <1>n
  <2>4. slot[Relayer(c)][n][1] \in skipped
    BY <2>2, <2>3 DEF FilledInv, NoHole, Filled
  <2> QED BY <1>3, <2>1, <2>4, SkippedGrows DEF Quiet
<1> QED BY <1>1, <1>2, <1>3

LEMMA StepLine ==
    ASSUME TypeOK, PlaceInv, FilledInv, LockInv, LineInv, ReadInv, lapsed = {},
           NEW c \in Calls, Class(c), call' \in [Calls -> Locals]
    PROVE  LineInv'
<1> DEFINE Line(d) ==
              call[d].pc \in HasNonce =>
                /\ call[d].pc \notin {"fresh", "resend"}
                /\ \A n \in Nonces :
                      n >= call[d].nonce /\ Filled(Relayer(d), n) =>
                          /\ n = call[d].nonce
                          /\ call[d].pc \in Approvals
                          /\ slot[Relayer(d)][n][1] = d
                          /\ slot[Relayer(d)][n][2] \in Approvals
<1>0. \A d \in Calls \ stale : Line(d)
  BY DEF LineInv
<1>n. call[c].nonce \in Nat /\ mined[Relayer(c)] \in Nat
  BY TypeLocals DEF Locals, TypeOK, ChainTypeOK
<1>s. stale \subseteq stale'
  BY StaleGrows
<1>1. ASSUME NEW d \in Calls, d # c, d \notin stale'
      PROVE  Line(d)'
  <2> SUFFICES ASSUME call[d].pc \in HasNonce
               PROVE  Line(d)'
    BY <1>1, Progress
  <2>1. \A n \in Nonces : slot'[Relayer(d)][n] = slot[Relayer(d)][n]
    BY <1>1, HasNonceInFn, OthersLine
  <2> QED BY <1>0, <1>s, <1>1, <2>1, Progress DEF Filled
<1>2. ASSUME c \notin stale'
      PROVE  Line(c)'
  <2>0. Line(c) /\ c \notin stale
    BY <1>0, <1>s, <1>2
  <2> USE DEF HasNonce, Steps, Approvals, Sends, Ended, Moves, Sets
  <2>1. CASE Refuses(c) \/ Enters(c) \/ GivesUp(c) \/ LosesApproval(c) \/ Submits(c)
    BY <2>1 DEF Refuses, Enters, GivesUp, LosesApproval, Submits
  <2>2. CASE ReadsPayer(c)
    BY <2>0, <2>2 DEF ReadsPayer
  <2>3. CASE ReadsLine(c)
    <3>1. PICK n \in Nonces :
             /\ Sets(c, "allowance", call[c].waits, n, call[c].pn)
             /\ IsPendingNonce(Relayer(c), n)
      BY <2>3 DEF ReadsLine
    <3>2. ASSUME NEW k \in Nonces, k >= n, Filled(Relayer(c), k)
          PROVE  FALSE
      <4>1. n \in 0 .. k /\ ~Filled(Relayer(c), n)
        BY <3>1, <3>2 DEF Nonces, IsPendingNonce, Filled
      <4>2. slot[Relayer(c)][k][2] \in Sends
        BY <3>2, <4>1 DEF FilledInv, NoHole, Filled
      <4>3. k >= mined[Relayer(c)]
        BY <1>n, <3>2, <4>1 DEF FilledInv, Nonces
      <4>4. call[c].pc \in InFn \ {"payerNonce"}
        BY <2>3 DEF ReadsLine, InFn
      <4> QED BY <2>0, <3>2, <4>2, <4>3, <4>4 DEF ReadInv, Pending
    <3> QED BY <2>3, <3>1, <3>2 DEF ReadsLine, Quiet, Filled
  <2>4. CASE ChecksAllowance(c)
    BY <2>0, <2>4 DEF ChecksAllowance, Quiet, Filled
  <2>5. CASE Resets(c) \/ Approves(c)
    <3>1. /\ call[c].pc \in Approvals /\ call'[c].pc \in Approvals
          /\ call'[c].nonce = call[c].nonce
          /\ Quiet \/ Puts(c)
      BY <2>5 DEF Resets, Approves
    <3>2. CASE Quiet
      BY <2>0, <3>1, <3>2 DEF Quiet, Filled
    <3>3. CASE Puts(c)
      <4>1. Tx(c)[1] = c /\ Tx(c)[2] \in Approvals
        BY <3>1 DEF Tx
      <4> QED BY <2>0, <3>1, <3>3, <4>1 DEF Puts, Filled
    <3> QED BY <3>1, <3>2, <3>3
  <2>6. CASE Confirms(c)
    <3>1. call[c].pc \in Approvals
      BY <2>6 DEF Confirms, PlaceInv
    <3>2. \A k \in Nonces : k >= call[c].nonce + 1 => ~Filled(Relayer(c), k)
      BY <2>0, <1>n, <3>1 DEF Nonces
    <3>3. /\ call'[c].pc \in {"again", "send"} /\ call'[c].nonce = call[c].nonce + 1
          /\ Quiet
      BY <2>6 DEF Confirms
    <3> QED BY <3>2, <3>3 DEF Quiet, Filled
  <2>7. CASE TooLow(c)
    <3>1. call[c].nonce \in Nonces
      BY <1>n, <2>7 DEF TooLow, Nonces, TypeOK, ChainTypeOK
    <3>2. Filled(Relayer(c), call[c].nonce)
      BY <2>7, <3>1 DEF TooLow, FilledInv
    <3> QED BY <2>0, <1>n, <2>7, <3>1, <3>2 DEF TooLow
  <2>8. CASE Outdated(c)
    <3>1. call[c].pc \in InFn \ {"payerNonce"}
      BY <2>8 DEF Outdated, InFn
    <3> QED BY <2>0, <2>8, <3>1 DEF Outdated, ReadInv
  <2> QED BY <2>1, <2>2, <2>3, <2>4, <2>5, <2>6, <2>7, <2>8 DEF Class
<1>3. \A d \in Calls \ stale' : Line(d)'
  BY <1>1, <1>2
<1>4. skipped' \subseteq stale'
  BY StepSkipped
<1>5. \A d \in Calls : call'[d].pc \in HasNonce =>
         \A n \in Nonces : n > call'[d].nonce /\ Filled(Relayer(d), n)' =>
             slot'[Relayer(d)][n][1] \in skipped'
  BY StepBeyond
<1> QED BY <1>3, <1>4, <1>5 DEF LineInv

\* What ReadInv says of call c.
ReadOK(c) ==
    LET w == Relayer(c) IN
    /\ call[c].pc \in InFn \ {"payerNonce"} =>
          /\ call[c].pn = payerNonce[w]
          /\ \A n \in Nonces : Pending(w, n) => slot[w][n][2] \notin Sends
    /\ c \in Erc20 /\ call[c].pc \in Approvals \cup {"send"} =>
          \A n \in Nonces : Pending(w, n) => n = call[c].nonce
    /\ c \in Erc20 /\ call[c].pc = "send" => allowance[w] >= Need
    /\ /\ call[c].pc \in {"approve", "again"} /\ call[c].waits
       /\ call[c].nonce \in Nonces
       /\ IsMined(w, call[c].nonce, Tx(c)) /\ Tx(c) \notin reverted
       => allowance[w] >= Need
    /\ c \notin Erc20 => call[c].pc \notin Approvals

LEMMA ReadInvParts == ReadInv <=> \A c \in Calls \ stale : ReadOK(c)
  BY DEF ReadInv, ReadOK

LEMMA StepRead ==
    ASSUME TypeOK, PlaceInv, FilledInv, SplitInv, LockInv, LineInv, ReadInv,
           lapsed = {}, NEW c \in Calls, Class(c),
           UNCHANGED <<allowance, payerNonce, lapsed, spoiled>>
    PROVE  ReadInv'
<1>n. call[c].nonce \in Nat /\ mined[Relayer(c)] \in Nat
  BY TypeLocals DEF Locals, TypeOK, ChainTypeOK
<1>s. stale \subseteq stale'
  BY StaleGrows
<1>m. UNCHANGED <<mined, reverted>>
  BY SlotCases
<1>1. ASSUME NEW d \in Calls, d # c, d \notin stale'
      PROVE  ReadOK(d)'
  <2>1. ReadOK(d)
    BY <1>1, <1>s, ReadInvParts
  <2>2. call'[d] = call[d]
    BY <1>1, Progress
  <2>3. CASE call[d].pc \in InFn
    <3>1. \A n \in Nonces : slot'[Relayer(d)][n] = slot[Relayer(d)][n]
      BY <1>1, <2>3, OthersLine
    <3> QED BY <1>m, <2>1, <2>2, <3>1 DEF ReadOK, Pending, Filled, IsMined, Tx
  <2>4. CASE call[d].pc \notin InFn
    BY <2>1, <2>2, <2>4 DEF ReadOK, InFn, Steps, Approvals, Sends
  <2> QED BY <2>3, <2>4
<1>2. ASSUME c \notin stale'
      PROVE  ReadOK(c)'
  <2>0. ReadOK(c)
    BY <1>2, <1>s, ReadInvParts
  <2> DEFINE w == Relayer(c)
  <2> USE DEF Steps, Approvals, Sends, Ended, Moves, Sets
  <2>1. CASE Refuses(c) \/ Enters(c) \/ GivesUp(c) \/ LosesApproval(c) \/ Submits(c)
    BY <2>1 DEF Refuses, Enters, GivesUp, LosesApproval, Submits, ReadOK, InFn
  <2>2. CASE ReadsPayer(c)
    <3>1. /\ call[c].pc = "payerNonce" /\ call'[c].pc = "eoaNonce"
          /\ call'[c].pn = payerNonce[w] /\ Quiet
      BY <1>2, <1>s, <2>2 DEF ReadsPayer, LineInv, HasNonce
    <3>2. ASSUME NEW n \in Nonces, Pending(w, n), slot[w][n][2] \in Sends
          PROVE  FALSE
      <4>1. slot[w][n][1] # c
        BY <3>1, <3>2 DEF SplitInv, Pending
      <4> QED BY <1>2, <2>2, <3>2, <4>1 DEF ReadsPayer, OthersPending, Pending, Filled
    <3> QED BY <3>1, <3>2 DEF ReadOK, Quiet, Pending, Filled
  <2>3. CASE ReadsLine(c)
    <3>1. /\ call[c].pc = "eoaNonce" /\ call'[c].pc = "allowance"
          /\ call'[c].pn = call[c].pn /\ Quiet
      BY <2>3 DEF ReadsLine
    <3> QED BY <2>0, <3>1 DEF ReadOK, InFn, Quiet, Pending, Filled
  <2>4. CASE ChecksAllowance(c)
    <3>1. /\ call[c].pc = "allowance" /\ call'[c].pn = call[c].pn /\ Quiet
          /\ \/ call'[c].pc = "send" /\ (c \in Erc20 => allowance[w] >= Need)
             \/ call'[c].pc = "approve" /\ c \in Erc20
          /\ call'[c].waits = call[c].waits
      BY <2>4 DEF ChecksAllowance
    <3>2. ~call[c].waits
      BY <3>1 DEF PlaceInv
    <3>3. ASSUME c \in Erc20, NEW n \in Nonces, Pending(w, n)
          PROVE  FALSE
      <4>1. slot[w][n] \in CallTxs
        BY <3>3 DEF PlaceInv, Pending
      <4>2. slot[w][n][2] \in Steps
        BY <4>1, TxFields
      <4>3. slot[w][n][1] # c
        BY <3>1, <3>3 DEF PlaceInv, Pending
      <4> QED BY <1>2, <2>4, <3>3, <4>2, <4>3 DEF ChecksAllowance, OthersPending, Pending, Filled
    <3> QED BY <2>0, <3>1, <3>2, <3>3 DEF ReadOK, InFn, Quiet, Pending, Filled
  <2>5. CASE Resets(c) \/ Approves(c)
    <3>1. /\ call[c].pc \in Approvals /\ call'[c].pc \in Approvals
          /\ call'[c].nonce = call[c].nonce /\ call'[c].pn = call[c].pn
          /\ Quiet \/ Puts(c)
      BY <2>5 DEF Resets, Approves
    <3>2. call[c].pc \in InFn \ {"payerNonce"} /\ c \in Erc20
      BY <2>0, <3>1 DEF InFn, ReadOK
    <3>4. \A n \in Nonces : Pending(w, n)' =>
             slot'[w][n][2] \notin Sends /\ n = call[c].nonce
      <4>1. CASE Quiet
        BY <2>0, <3>1, <3>2, <4>1 DEF ReadOK, Quiet, Pending, Filled
      <4>2. CASE Puts(c)
        <5>1. Tx(c)[2] \notin Sends
          BY <3>1 DEF Tx
        <5> QED BY <2>0, <3>1, <3>2, <4>2, <5>1 DEF ReadOK, Puts, Pending, Filled
      <4> QED BY <3>1, <4>1, <4>2
    <3>5. call'[c].waits => ~IsMined(w, call[c].nonce, Tx(c))'
      BY <1>n, <1>m, <2>5, <3>1 DEF Resets, Approves, Puts, IsMined
    <3>6. call'[c].pn = payerNonce[w]
      BY <2>0, <3>1, <3>2 DEF ReadOK
    <3> QED BY <3>1, <3>2, <3>4, <3>5, <3>6 DEF ReadOK
  <2>6. CASE Confirms(c)
    <3>1. call[c].pc \in Approvals
      BY <2>6 DEF Confirms, PlaceInv
    <3>2. /\ call'[c].pc \in {"again", "send"} /\ ~call'[c].waits
          /\ call'[c].pc = "send" => call[c].pc \in {"approve", "again"}
          /\ call'[c].pn = call[c].pn /\ Quiet
          /\ call[c].waits /\ call[c].nonce < mined[w]
          /\ IsMined(w, call[c].nonce, Tx(c)) /\ Tx(c) \notin reverted
      BY <2>6, <3>1 DEF Confirms, IsMined
    <3>3. call[c].pc \in InFn \ {"payerNonce"} /\ c \in Erc20
      BY <2>0, <3>1 DEF InFn, ReadOK
    <3>4. call[c].nonce \in Nonces
      BY <1>n, <3>2 DEF Nonces, TypeOK, ChainTypeOK
    <3>5. \A n \in Nonces : ~Pending(w, n)
      BY <1>n, <2>0, <3>1, <3>2, <3>3 DEF ReadOK, Pending
    <3>6. call'[c].pc = "send" => allowance[w] >= Need
      BY <2>0, <3>2, <3>4 DEF ReadOK
    <3>7. call'[c].pn = payerNonce[w]
      BY <2>0, <3>2, <3>3 DEF ReadOK
    <3> QED BY <3>2, <3>3, <3>5, <3>6, <3>7 DEF ReadOK, Quiet, Pending, Filled
  <2>7. CASE TooLow(c)
    <3>1. call[c].nonce \in Nonces
      BY <1>n, <2>7 DEF TooLow, Nonces, TypeOK, ChainTypeOK
    <3>2. Filled(Relayer(c), call[c].nonce)
      BY <2>7, <3>1 DEF TooLow, FilledInv
    <3> QED BY <1>n, <1>2, <1>s, <2>7, <3>1, <3>2 DEF TooLow, LineInv, HasNonce
  <2>8. CASE Outdated(c)
    BY <2>0, <2>8 DEF Outdated, ReadOK, InFn
  <2> QED BY <2>1, <2>2, <2>3, <2>4, <2>5, <2>6, <2>7, <2>8 DEF Class
<1>3. \A d \in Calls \ stale' : ReadOK(d)'
  BY <1>1, <1>2
<1> QED BY <1>3 DEF ReadInv, ReadOK

LEMMA StepSent ==
    ASSUME TypeOK, PlaceInv, FilledInv, LockInv, LineInv, ReadInv, SentInv,
           lapsed = {}, NEW c \in Calls, Class(c),
           UNCHANGED <<allowance, payerNonce, lapsed, spoiled>>
    PROVE  SentInv'
<1>n. call[c].nonce \in Nat /\ mined[Relayer(c)] \in Nat
  BY TypeLocals DEF Locals, TypeOK, ChainTypeOK
<1>s. stale \subseteq stale'
  BY StaleGrows
<1>m. UNCHANGED <<mined, reverted>>
  BY SlotCases
<1> SUFFICES ASSUME NEW w \in Wallets, NEW n \in Nonces, Pending(w, n)',
                    slot'[w][n][2] \in Sends, slot'[w][n][1] \notin stale'
             PROVE  /\ slot'[w][n][3] = payerNonce[w]
                    /\ \A m \in Nonces : m < n /\ Pending(w, m)' =>
                                           slot'[w][m][2] \notin Sends
                    /\ slot'[w][n][1] \in Erc20 =>
                          n = mined[w] /\ allowance[w] >= Need
  BY <1>m DEF SentInv
<1>1. Filled(w, n)'
  BY DEF Pending
<1>2. CASE slot'[w][n] = slot[w][n] /\ Filled(w, n)
  <2>1. Pending(w, n)
    BY <1>m, <1>2 DEF Pending
  <2>2. /\ slot[w][n][3] = payerNonce[w]
        /\ \A m \in Nonces : m < n /\ Pending(w, m) => slot[w][m][2] \notin Sends
        /\ slot[w][n][1] \in Erc20 => n = mined[w] /\ allowance[w] >= Need
    BY <1>s, <1>2, <2>1 DEF SentInv
  <2>3. ASSUME NEW m \in Nonces, m < n, Pending(w, m)', slot'[w][m][2] \in Sends
        PROVE  FALSE
    <3>1. Filled(w, m)'
      BY <2>3 DEF Pending
    <3>2. CASE slot'[w][m] = slot[w][m] /\ Filled(w, m)
      BY <1>m, <2>2, <2>3, <3>2 DEF Pending
    <3>3. CASE Submits(c) /\ w = Relayer(c) /\ m = call[c].nonce
      <4>1. call[c].pc \in HasNonce
        BY <3>3 DEF Submits, HasNonce, Steps, Sends, Approvals
      <4>2. n > call[c].nonce
        BY <1>n, <2>3, <3>3 DEF Nonces
      <4> QED BY <1>2, <1>s, <3>3, <4>1, <4>2 DEF LineInv
    <3> QED BY <2>3, <3>1, <3>2, <3>3, SplitSlots
  <2> QED BY <1>2, <2>2, <2>3
<1>3. CASE /\ Submits(c) /\ slot'[w][n] = Tx(c) /\ Tx(c)[1] = c
           /\ w = Relayer(c) /\ n = call[c].nonce
  <2>1. call[c].pc = "send"
    BY <1>3, <1>s DEF Submits, LineInv, HasNonce, Steps, Sends
  <2>2. c \notin stale
    BY <1>3, <1>s
  <2>3. ReadOK(c)
    BY <2>2, ReadInvParts
  <2>4. call[c].pc \in InFn \ {"payerNonce"}
    BY <2>1 DEF InFn, Steps, Sends
  <2>5. /\ call[c].pn = payerNonce[w]
        /\ \A m \in Nonces : Pending(w, m) => slot[w][m][2] \notin Sends
        /\ c \in Erc20 => /\ \A m \in Nonces : Pending(w, m) => m = n
                          /\ allowance[w] >= Need
    BY <1>3, <2>1, <2>3, <2>4 DEF ReadOK
  <2>6. Puts(c)
    BY <1>3 DEF Submits
  <2>7. slot'[w][n][3] = payerNonce[w]
    BY <1>3, <2>5 DEF Tx
  <2>8. \A m \in Nonces : m < n => slot'[w][m] = slot[w][m]
    BY <1>3, <1>n, <2>6 DEF Puts, Nonces
  <2>9. \A m \in Nonces : m < n /\ Pending(w, m)' => slot'[w][m][2] \notin Sends
    BY <1>m, <2>5, <2>8 DEF Pending, Filled
  <2>10. c \in Erc20 => n = mined[w]
    <3> SUFFICES ASSUME c \in Erc20, n # mined[w]
                 PROVE  FALSE
      OBVIOUS
    <3>1. mined[w] \in Nonces /\ mined[w] < n
      BY <1>n, <1>3, <2>6 DEF Puts, Nonces
    <3>2. Filled(w, mined[w])
      <4>1. call[c].pc \in HasNonce
        BY <2>1 DEF HasNonce, Steps, Sends
      <4> QED BY <1>3, <2>1, <3>1, <4>1 DEF FilledInv
    <3>3. Pending(w, mined[w])
      BY <1>n, <1>3, <3>2 DEF Pending
    <3> QED BY <1>n, <2>5, <3>1, <3>3
  <2> QED BY <1>3, <2>5, <2>7, <2>9, <2>10
<1> QED BY <1>1, <1>2, <1>3, SplitSlots

LEMMA StepIndInv ==
    ASSUME IndInv, NEW c \in Calls, Step(c)
    PROVE  IndInv'
<1> USE DEF IndInv
<1>1. Class(c) /\ call' \in [Calls -> Locals] /\ UNCHANGED <<allowance, payerNonce, lapsed, spoiled>>
  BY StepClasses
<1>2. TypeOK' /\ PlaceInv' /\ FilledInv' /\ SplitInv' /\ LockInv'
  BY <1>1, StepType, StepPlace, StepFilled, StepSplit, StepLock
<1>3. ASSUME lapsed = {}
      PROVE  LineInv' /\ ReadInv' /\ SentInv' /\ NoBadRevert'
  <2>1. LineInv' /\ ReadInv' /\ SentInv'
    BY <1>1, <1>3, StepLine, StepRead, StepSent
  <2>2. NoBadRevert'
    BY <1>1, <1>3, SlotCases, StaleGrows DEF NoBadRevert
  <2> QED BY <2>1, <2>2
<1> QED BY <1>1, <1>2, <1>3

-----------------------------------------------------------------------------
\* The next block: what is filled stays, and what is pending can only shrink.
LEMMA BlockBase ==
    ASSUME IndInv, NEW w \in Wallets, NEW sound \in BOOLEAN, Block(w, sound)
    PROVE  (TypeOK /\ PlaceInv /\ FilledInv /\ SplitInv /\ LockInv)'
<1> USE DEF IndInv
<1>1. /\ BlockClass(w)
      /\ mined' \in [Wallets -> 0 .. MaxNonce + 1]
      /\ reverted' \subseteq Txs /\ spoiled' \subseteq reverted'
      /\ allowance' \in [Wallets -> 0 .. 2 * Need]
      /\ payerNonce' \in [Wallets -> Nat]
  BY Blocks
<1>2. /\ UNCHANGED <<slot, call, live, zombies, lapsed, stale, skipped>>
      /\ mined[w] \in Nonces /\ Filled(w, mined[w])
      /\ \A v \in Wallets : mined'[v] = IF v = w THEN mined[w] + 1 ELSE mined[v]
      /\ \A v \in Wallets : v # w => payerNonce'[v] = payerNonce[v]
      /\ payerNonce'[w] \in {payerNonce[w], payerNonce[w] + 1}
  BY <1>1 DEF BlockClass
<1>3. \A v \in Wallets : mined[v] \in Nat /\ payerNonce[v] \in Nat
  BY DEF TypeOK, ChainTypeOK
<1>4. TypeOK'
  BY <1>1, <1>2 DEF TypeOK, ChainTypeOK
<1>5. PlaceInv'
  <2>1. \A v \in Wallets : payerNonce'[v] <= mined'[v]
    BY <1>2, <1>3 DEF PlaceInv
  <2> QED BY <1>2, <2>1 DEF PlaceInv, Filled
<1>6. FilledInv'
  <2>1. NoHole'
    BY <1>2 DEF FilledInv, NoHole
  <2>2. ASSUME NEW v \in Wallets, NEW n \in Nonces, n < mined'[v]
        PROVE  Filled(v, n)'
    <3>1. n < mined[v] \/ (v = w /\ n = mined[w])
      BY <1>2, <1>3, <2>2 DEF Nonces
    <3>2. Filled(v, n)
      BY <1>2, <3>1 DEF FilledInv
    <3> QED BY <1>2, <3>2 DEF Filled
  <2>3. \A c \in Calls : call[c].pc \in HasNonce =>
           \A i \in Nonces : i < call[c].nonce =>
               \/ Filled(Relayer(c), i)'
               \/ i + 1 = call[c].nonce /\ call[c].pc = "resend" /\ c \in skipped
    BY <1>2 DEF FilledInv, Filled
  <2>4. \A c \in Calls : call[c].pc = "fresh" =>
           call[c].nonce < mined'[Relayer(c)] \/ c \in skipped
    <3>1. \A c \in Calls : call[c].nonce \in Nat
      BY TypeLocals DEF Locals
    <3> QED BY <1>2, <1>3, <3>1 DEF FilledInv
  <2> QED BY <1>2, <2>1, <2>2, <2>3, <2>4 DEF FilledInv
<1>7. SplitInv' /\ LockInv'
  BY <1>2 DEF SplitInv, LockInv, Filled
<1> QED BY <1>4, <1>5, <1>6, <1>7

\* ... and while no lease has run out, what calls have read stays true.
LEMMA BlockTurns ==
    ASSUME IndInv, lapsed = {}, NEW w \in Wallets, NEW sound \in BOOLEAN,
           Block(w, sound)
    PROVE  (LineInv /\ ReadInv /\ SentInv /\ NoBadRevert)'
<1> USE DEF IndInv
<1> DEFINE t == slot[w][mined[w]]
<1>1. BlockClass(w)
  BY Blocks
<1>2. /\ UNCHANGED <<slot, call, live, zombies, lapsed, stale, skipped>>
      /\ mined[w] \in Nonces /\ Filled(w, mined[w])
      /\ \A v \in Wallets : mined'[v] = IF v = w THEN mined[w] + 1 ELSE mined[v]
      /\ \A v \in Wallets : v # w => /\ payerNonce'[v] = payerNonce[v]
                                    /\ allowance'[v] = allowance[v]
      /\ t[2] \notin Sends => payerNonce'[w] = payerNonce[w]
      /\ \/ reverted' = reverted
         \/ (~Fits(t, w) \/ t \in spoiled') /\ reverted' = reverted \cup {t}
      /\ spoiled \subseteq spoiled'
      /\ t[2] \in {"approve", "again"} => allowance'[w] = Need \/ t \in reverted'
  BY <1>1 DEF BlockClass
<1>3. \A v \in Wallets : mined[v] \in Nat
  BY DEF TypeOK, ChainTypeOK
<1>4. Pending(w, mined[w]) /\ t \in CallTxs
  BY <1>2, <1>3 DEF Pending, PlaceInv
<1>5. t[1] \in Calls /\ t[2] \in Steps
  BY <1>4, TxFields
<1>6. \A v \in Wallets, n \in Nonces : Pending(v, n)' => Pending(v, n) /\ (v = w => n # mined[w])
  BY <1>2, <1>3 DEF Pending, Filled, Nonces
<1> HIDE DEF t
<1>7. LineInv'
  BY <1>2 DEF LineInv, Filled
<1>8. ReadInv'
  <2>1. ASSUME NEW c \in Calls, c \notin stale
        PROVE  ReadOK(c)'
    <3>1. ReadOK(c)
      BY <2>1, ReadInvParts
    <3>2. CASE Relayer(c) # w
      BY <1>2, <1>6, <3>1, <3>2 DEF ReadOK, IsMined, Tx
    <3>3. CASE Relayer(c) = w
      <4>n. call[c].nonce \in Nat
        BY TypeLocals DEF Locals
      <4>1. call[c].pc \in InFn \ {"payerNonce"} =>
               /\ call[c].pn = payerNonce'[w]
               /\ \A n \in Nonces : Pending(w, n)' => slot[w][n][2] \notin Sends
        BY <1>2, <1>4, <1>6, <3>1, <3>3 DEF ReadOK, t
      <4>2. c \in Erc20 /\ call[c].pc \in Approvals \cup {"send"} =>
               mined[w] = call[c].nonce
        BY <1>2, <1>4, <3>1, <3>3 DEF ReadOK
      <4>3. ~(c \in Erc20 /\ call[c].pc = "send")
        <5> SUFFICES ASSUME c \in Erc20, call[c].pc = "send"
                     PROVE  FALSE
          OBVIOUS
        <5>1. mined[w] = call[c].nonce
          BY <4>2
        <5>2. mined[w] >= call[c].nonce
          BY <1>3, <4>n, <5>1
        <5> QED BY <1>2, <2>1, <3>3, <5>2 DEF LineInv, HasNonce, Steps, Sends, Approvals
      <4>4. ASSUME call[c].pc \in {"approve", "again"},
                   IsMined(w, call[c].nonce, Tx(c))', Tx(c)' \notin reverted'
            PROVE  allowance'[w] >= Need
        <5>1. c \in Erc20
          BY <3>1, <4>4 DEF ReadOK, Approvals
        <5>2. mined[w] = call[c].nonce
          BY <4>2, <4>4, <5>1 DEF Approvals
        <5>3. t = Tx(c)'
          BY <1>2, <4>4, <5>2 DEF IsMined, t
        <5>4. t[2] = call[c].pc
          BY <1>2, <5>3 DEF Tx
        <5> QED BY <1>2, <4>4, <5>3, <5>4
      <4> QED BY <1>2, <1>6, <3>1, <3>3, <4>1, <4>3, <4>4 DEF ReadOK
    <3> QED BY <3>2, <3>3
  <2>2. \A c \in Calls \ stale' : ReadOK(c)'
    BY <1>2, <2>1
  <2> QED BY <2>2 DEF ReadInv, ReadOK
<1>9. SentInv'
  <2> SUFFICES ASSUME NEW v \in Wallets, NEW n \in Nonces, Pending(v, n)',
                      slot[v][n][2] \in Sends, slot[v][n][1] \notin stale
               PROVE  /\ slot[v][n][3] = payerNonce'[v]
                      /\ \A m \in Nonces : m < n /\ Pending(v, m)' =>
                                             slot[v][m][2] \notin Sends
                      /\ slot[v][n][1] \in Erc20 =>
                            n = mined'[v] /\ allowance'[v] >= Need
    BY <1>2 DEF SentInv
  <2>1. Pending(v, n) /\ (v = w => n # mined[w])
    BY <1>6
  <2>2. /\ slot[v][n][3] = payerNonce[v]
        /\ \A m \in Nonces : m < n /\ Pending(v, m) => slot[v][m][2] \notin Sends
        /\ slot[v][n][1] \in Erc20 => n = mined[v] /\ allowance[v] >= Need
    BY <2>1 DEF SentInv
  <2>3. CASE v # w
    BY <1>2, <1>6, <2>2, <2>3
  <2>4. CASE v = w
    <3>1. mined[w] < n
      BY <1>3, <2>1, <2>4 DEF Pending, Nonces
    <3>2. t[2] \notin Sends
      BY <1>2, <1>4, <2>2, <2>4, <3>1 DEF t
    <3> QED BY <1>2, <1>6, <2>1, <2>2, <2>4, <3>2
  <2> QED BY <2>3, <2>4
<1>10. NoBadRevert'
  <2>1. CASE t[2] \in Sends /\ t[1] \notin stale
    <3>1. t[3] = payerNonce[w] /\ (t[1] \in Erc20 => allowance[w] >= Need)
      BY <1>2, <1>4, <2>1 DEF SentInv, t
    <3>2. Fits(t, w)
      BY <2>1, <3>1 DEF Fits, Sends
    <3> QED BY <1>2, <3>2 DEF NoBadRevert
  <2>2. CASE ~(t[2] \in Sends /\ t[1] \notin stale)
    BY <1>2, <2>2 DEF NoBadRevert
  <2> QED BY <2>1, <2>2
<1> QED BY <1>7, <1>8, <1>9, <1>10

LEMMA LapseIndInv ==
    ASSUME IndInv, NEW c \in Calls, Lapse(c)
    PROVE  IndInv'
<1> USE DEF IndInv, Lapse, Lock!Lapse, chainVars, tokenVars
<1>1. TypeOK'
  BY DEF TypeOK, ChainTypeOK
<1>2. PlaceInv' /\ FilledInv' /\ SplitInv'
  BY DEF PlaceInv, FilledInv, NoHole, SplitInv, Filled
<1>3. LockInv'
  BY DEF LockInv
<1>4. lapsed' # {}
  OBVIOUS
<1> QED BY <1>1, <1>2, <1>3, <1>4

LEMMA StutterIndInv == IndInv /\ UNCHANGED vars => IndInv'
  BY DEF IndInv, vars, TypeOK, ChainTypeOK, PlaceInv, FilledInv, NoHole, SplitInv,
         LockInv, LineInv, ReadInv, SentInv, NoBadRevert, Filled, Pending,
         IsMined, Tx

LEMMA NextIndInv == IndInv /\ [Next]_vars => IndInv'
<1> SUFFICES ASSUME IndInv, [Next]_vars
             PROVE  IndInv'
  OBVIOUS
<1>1. ASSUME NEW c \in Calls, Step(c) \/ Lapse(c)
      PROVE  IndInv'
  BY <1>1, StepIndInv, LapseIndInv
<1>2. ASSUME NEW w \in Wallets, NEW sound \in BOOLEAN, Block(w, sound)
      PROVE  IndInv'
  <2>1. lapsed' = lapsed
    BY <1>2 DEF Block
  <2> QED BY <1>2, <2>1, BlockBase, BlockTurns DEF IndInv
<1> QED BY <1>1, <1>2, StutterIndInv DEF Next

LEMMA Invariant == Spec => []IndInv
  BY InitIndInv, NextIndInv, PTL DEF Spec

-----------------------------------------------------------------------------
\* The locals of Execute, the allowance and the router's nonce keep their
\* types, whatever the calls and the chain do.
THEOREM TypeCorrect == Spec => []TypeOK
<1>1. IndInv => TypeOK
  BY DEF IndInv
<1> QED BY <1>1, Invariant, PTL

\* A transaction of Execute is behind an empty nonce only as the second
\* attempt after EFS024, directly behind it and the last in line.
THEOREM NoHoleHolds == Spec => []NoHole
<1>1. IndInv => NoHole
  BY DEF IndInv, FilledInv
<1> QED BY <1>1, Invariant, PTL

\* No call of Execute pays twice, with or without the lock.
THEOREM PaysOnceHolds == Spec => []PaysOnce
<1>1. IndInv => PaysOnce
  <2> SUFFICES ASSUME IndInv, NEW c \in Calls, NEW p \in Paid(c), NEW q \in Paid(c)
               PROVE  p = q
    BY DEF PaysOnce
  <2>1. /\ p[1] \in Wallets /\ p[2] \in Nonces /\ p = <<p[1], p[2]>>
        /\ p[2] < mined[p[1]] /\ slot[p[1]][p[2]][1] = c
        /\ slot[p[1]][p[2]][2] \in Sends
    BY DEF Paid
  <2>2. /\ q[1] \in Wallets /\ q[2] \in Nonces /\ q = <<q[1], q[2]>>
        /\ q[2] < mined[q[1]] /\ slot[q[1]][q[2]][1] = c
        /\ slot[q[1]][q[2]][2] \in Sends
    BY DEF Paid
  <2>3. Filled(p[1], p[2]) /\ Filled(q[1], q[2])
    BY <2>1, <2>2 DEF IndInv, FilledInv
  <2>4. p[1] = q[1] /\ p[2] = q[2]
    BY <2>1, <2>2, <2>3 DEF IndInv, SplitInv
  <2> QED BY <2>1, <2>2, <2>4
<1> QED BY <1>1, Invariant, PTL

\* A split that was sent under the lock and on current reads does not revert.
THEOREM RevertsOnlyIfStaleHolds == Spec => []RevertsOnlyIfStale
<1>1. IndInv => RevertsOnlyIfStale
  BY DEF IndInv, NoBadRevert, RevertsOnlyIfStale
<1> QED BY <1>1, Invariant, PTL
=============================================================================
