-------------------------- MODULE WithdrawalProofs --------------------------
(***************************************************************************)
(* Proofs about withdrawals for every set of payments and accounts, every  *)
(* quote of the node and every setting of the environment.                 *)
(***************************************************************************)
EXTENDS Withdrawal, FeesProofs

Replies == {"OK", "VALIDATION", "CALL_EXCEPTION", "INSUFFICIENT_FUNDS", "retry"}

Locals == [pc    : {"idle", "lock", "read", "fee", "enqueue", "wait",
                    "ok", "err", "gone"},
           nonce : Nat,
           fee   : FeeFields,
           reply : Replies]

\* What TypeOK says of the requests, and that an op is enqueued with fees
\* that fit.
RequestInv ==
    /\ wd \in [Withdrawals -> Locals]
    /\ FeeFieldsFit

QueueOK ==
    /\ answer \in [Withdrawals -> {"none", "wait", "ok", "err", "cancelled"}]
    /\ out \subseteq Withdrawals /\ executed \subseteq Withdrawals
    /\ unsure \subseteq Withdrawals

LockOK == live \subseteq Withdrawals /\ zombies \subseteq Withdrawals

WorldOK ==
    /\ lost \subseteq Withdrawals /\ refused \subseteq Withdrawals
    /\ accNonce \in [Accounts -> Nat]
    /\ landed \in [Accounts -> Nat]
    /\ poor \subseteq Accounts
    /\ foreign \in [Accounts -> 0 .. MaxForeign]
    /\ lapsed \subseteq Withdrawals /\ taken \subseteq Withdrawals

BaseInv == RequestInv /\ QueueOK /\ LockOK /\ WorldOK

\* What the batcher and the chain do with the op of w, what others do with
\* account a, and what becomes of a connection or a lease.
WorldClass(w) ==
    \/ Disconnect(w) \/ Lapse(w) \/ EstimateReverts(w) \/ Execute(w)
    \/ Settle(w) \/ GiveUp(w)

AccountClass(a) == ForeignOp(a) \/ ForeignMined(a) \/ RunsDry(a)

LEMMA BaseInvMeaning == BaseInv => TypeOK /\ FeeFieldsFit
  BY DEF BaseInv, RequestInv, QueueOK, LockOK, WorldOK, TypeOK, Locals, Replies

-----------------------------------------------------------------------------
\* A withdrawal is of an account.
LEMMA AccountType ==
    ASSUME NEW w \in Withdrawals
    PROVE  Account(w) \in Accounts
<1>1. PICK p \in Payments : w \in {p} \X (1 .. Attempts[p])
  BY DEF Withdrawals
<1>2. w[1] = p
  BY <1>1
<1> QED BY <1>2, WithdrawalAssumption DEF Account

\* Normalize answers by a rule whose mark the error has, or with Unknown.
LEMMA NormalizeCases ==
    ASSUME NEW err
    PROVE  \/ Normalize(err) = Unknown
           \/ \E i \in 1 .. 6 : Rules[i].mark \in err /\ Normalize(err) = Rules[i]
<1> DEFINE hits == {i \in DOMAIN Rules : Rules[i].mark \in err}
           least == CHOOSE i \in hits : \A j \in hits : i <= j
<1>1. DOMAIN Rules = 1 .. 6
  BY DEF Rules
<1>2. CASE hits = {}
  BY <1>2 DEF Normalize
<1>3. CASE hits # {}
  <2>1. hits \subseteq 1 .. 6
    BY <1>1
  <2>2. least \in hits
    <3> HIDE DEF hits
    <3>1. PICK i : i \in hits
      BY <1>3
    <3>2. i \in 1 .. 6
      BY <2>1, <3>1
    <3>3. i = 1 \/ i = 2 \/ i = 3 \/ i = 4 \/ i = 5 \/ i = 6
      BY <3>2
    <3>4. \/ 1 \in hits \/ 2 \in hits \/ 3 \in hits
          \/ 4 \in hits \/ 5 \in hits \/ 6 \in hits
      BY <3>1, <3>3
    <3>5. \E j \in hits : \A k \in hits : j <= k
      BY <2>1, <3>4
    <3> QED BY <3>5
  <2>3. Normalize(err) = Rules[least]
    BY <1>3 DEF Normalize
  <2>4. Rules[least].mark \in err
    BY <2>2
  <2> HIDE DEF hits, least
  <2> QED BY <2>1, <2>2, <2>3, <2>4
<1> QED BY <1>2, <1>3

\* What Normalize answers, whatever the error: the rules that are not
\* retryable are those for a revert and for missing funds.
LEMMA VerdictType ==
    ASSUME NEW err
    PROVE  Verdict(Normalize(err)) \in Replies
<1>1. \A i \in 1 .. 6 : Verdict(Rules[i]) \in Replies
  BY DEF Rules, Rule, Verdict, Replies
<1>2. Verdict(Unknown) \in Replies
  BY DEF Unknown, Rule, Verdict, Replies
<1> QED BY <1>1, <1>2, NormalizeCases

\* A request that ends with an answer, or moves on to a point other than
\* Enqueue, keeps the invariant of the requests.
LEMMA ReplyStep ==
    ASSUME RequestInv, NEW w \in Withdrawals, NEW pc \in {"ok", "err"}, NEW n,
           Verdict(n) \in Replies, Reply(w, pc, n)
    PROVE  RequestInv'
<1>1. NoFee \in FeeFields
  BY DEF NoFee, FeeFields
<1>2. wd' \in [Withdrawals -> Locals]
  BY <1>1 DEF RequestInv, Reply, Locals
<1>3. FeeFieldsFit'
  BY DEF RequestInv, FeeFieldsFit, At, Reply, Locals
<1> QED BY <1>2, <1>3 DEF RequestInv

LEMMA GotoStep ==
    ASSUME RequestInv, NEW w \in Withdrawals,
           NEW pc \in {"lock", "read", "gone"}, Goto(w, pc)
    PROVE  RequestInv'
<1>1. wd' \in [Withdrawals -> Locals]
  BY DEF RequestInv, Goto, Locals
<1>2. FeeFieldsFit'
  BY DEF RequestInv, FeeFieldsFit, At, Goto, Locals
<1> QED BY <1>1, <1>2 DEF RequestInv

LEMMA SameRequests ==
    ASSUME RequestInv, UNCHANGED wd
    PROVE  RequestInv'
  BY DEF RequestInv, FeeFieldsFit, At

-----------------------------------------------------------------------------
LEMMA InitBaseInv == Init => BaseInv
<1> SUFFICES ASSUME Init
             PROVE  BaseInv
  OBVIOUS
<1>1. NoFee \in FeeFields
  BY DEF NoFee, FeeFields
<1>2. RequestInv
  BY <1>1 DEF Init, RequestInv, FeeFieldsFit, At, Locals, Replies
<1>3. QueueOK /\ LockOK /\ WorldOK
  BY WithdrawalAssumption
  DEF Init, Queue!Init, Lock!Init, QueueOK, LockOK, WorldOK
<1> QED BY <1>2, <1>3 DEF BaseInv

\* The steps of a request.
LEMMA RequestSteps ==
    ASSUME BaseInv, NEW w \in Withdrawals, Post(w) \/ Serve(w) \/ HangsUp(w)
    PROVE  RequestInv'
<1> USE DEF BaseInv
<1>1. CASE Post(w) \/ Enter(w) \/ HangsUp(w)
  BY <1>1, GotoStep DEF Post, Enter, HangsUp
<1>2. CASE Invalidate(w)
  <2>1. Verdict(Invalid) \in Replies
    BY DEF Verdict, Invalid, Rule, Replies
  <2> QED BY <1>2, <2>1, ReplyStep DEF Invalidate
<1>3. CASE Succeeds(w)
  <2>1. Verdict(Success) \in Replies
    BY DEF Verdict, Success, Rule, Replies
  <2> QED BY <1>3, <2>1, ReplyStep DEF Succeeds
<1>4. CASE NotLocked(w) \/ FailsEarly(w) \/ Fails(w)
  <2>1. PICK err : Reply(w, "err", Normalize(err))
    BY <1>4 DEF NotLocked, FailsEarly, Fails
  <2> QED BY <2>1, VerdictType, ReplyStep
<1>5. CASE ReadNonce(w)
  <2>1. accNonce[Account(w)] \in Nat
    BY AccountType DEF WorldOK
  <2>2. wd' \in [Withdrawals -> Locals]
    BY <1>5, <2>1 DEF RequestInv, ReadNonce, Locals
  <2>3. FeeFieldsFit'
    BY <1>5 DEF RequestInv, FeeFieldsFit, At, ReadNonce, Locals
  <2> QED BY <2>2, <2>3 DEF RequestInv
<1>6. CASE Quote(w)
  <2>1. PICK env \in Envs, m \in Markets, floored \in BOOLEAN :
           /\ UserOpMaxFeeFields(env, m, floored) # NoFee
           /\ wd' = [wd EXCEPT ![w].pc = "enqueue",
                               ![w].fee = UserOpMaxFeeFields(env, m, floored)]
    BY <1>6 DEF Quote
  <2> DEFINE fee == UserOpMaxFeeFields(env, m, floored)
  <2>2. fee \in FeeFields /\ Fit(fee)
    BY <2>1, WithdrawalAssumption, UserOpFeesFit
  <2>3. wd' = [wd EXCEPT ![w].pc = "enqueue", ![w].fee = fee]
    BY <2>1
  <2> HIDE DEF fee
  <2>4. wd' \in [Withdrawals -> Locals]
    BY <2>2, <2>3 DEF RequestInv, Locals
  <2>5. FeeFieldsFit'
    BY <2>2, <2>3 DEF RequestInv, FeeFieldsFit, At, Fit, Locals
  <2> QED BY <2>4, <2>5 DEF RequestInv
<1>7. CASE Enqueue(w)
  <2>1. NoFee \in FeeFields
    BY DEF NoFee, FeeFields
  <2>2. wd' \in [Withdrawals -> Locals]
    BY <1>7, <2>1 DEF RequestInv, Enqueue, Locals
  <2>3. FeeFieldsFit'
    BY <1>7 DEF RequestInv, FeeFieldsFit, At, Enqueue, Locals
  <2> QED BY <2>2, <2>3 DEF RequestInv
<1> QED BY <1>1, <1>2, <1>3, <1>4, <1>5, <1>6, <1>7 DEF Serve

\* What a step of a request does to the lock, the queue and the accounts.
LEMMA RequestSurroundings ==
    ASSUME BaseInv, NEW w \in Withdrawals, Post(w) \/ Serve(w) \/ HangsUp(w)
    PROVE  (QueueOK /\ LockOK /\ WorldOK)'
<1> USE DEF BaseInv
<1>1. WorldOK'
  <2>1. UNCHANGED worldVars \/ Enqueue(w)
    BY DEF Post, Serve, HangsUp, Invalidate, NotLocked, Enter, ReadNonce,
           Quote, FailsEarly, Succeeds, Fails
  <2> QED BY <2>1 DEF Enqueue, worldVars, chainVars, WorldOK
<1>2. LockOK'
  <2>1. \/ UNCHANGED lockVars \/ Lock!Acquire(w) \/ Lock!Leave({w})
    BY DEF Post, Serve, HangsUp, Invalidate, NotLocked, Enter, ReadNonce,
           Quote, FailsEarly, Enqueue, Succeeds, Fails
  <2> QED BY <2>1 DEF lockVars, LockOK, Lock!Acquire, Lock!Leave
<1>3. QueueOK'
  <2>1. \/ UNCHANGED queueVars \/ Queue!Take(w) \/ Queue!Succeed(w) \/ Queue!Fail(w) \/ Queue!Leave(w)
    BY DEF Post, Serve, HangsUp, Invalidate, NotLocked, Enter, ReadNonce,
           Quote, FailsEarly, Enqueue, Succeeds, Fails
  <2> QED
    BY <2>1 DEF queueVars, QueueOK, Queue!Take, Queue!Succeed,
                Queue!Fail, Queue!Leave, Queue!Reply
<1> QED BY <1>1, <1>2, <1>3

\* Expiry, the batcher and the chain leave the requests alone.
LEMMA WorldSteps ==
    ASSUME BaseInv,
           \/ \E w \in Withdrawals : WorldClass(w)
           \/ \E a \in Accounts : AccountClass(a)
    PROVE  BaseInv'
<1> USE DEF BaseInv, callVars, chainVars
<1>1. UNCHANGED wd
  BY DEF WorldClass, Disconnect, Lapse, EstimateReverts, Execute, Settle, GiveUp,
         AccountClass, ForeignOp, ForeignMined, RunsDry
<1>2. RequestInv'
  BY <1>1, SameRequests
<1>3. ASSUME NEW w \in Withdrawals, Disconnect(w) \/ Lapse(w)
      PROVE  (QueueOK /\ LockOK /\ WorldOK)'
  BY <1>3 DEF Disconnect, Lapse, Lock!Lapse, lockVars, queueVars, QueueOK,
              LockOK, WorldOK
<1>4. ASSUME NEW w \in Withdrawals, Execute(w)
      PROVE  (QueueOK /\ LockOK /\ WorldOK)'
  <2>1. Account(w) \in Accounts
    BY AccountType
  <2>2. WorldOK'
    BY <1>4, <2>1 DEF Execute, WorldOK
  <2>3. (QueueOK /\ LockOK)'
    BY <1>4 DEF Execute, Queue!Finish, lockVars, QueueOK, LockOK
  <2> QED BY <2>2, <2>3
<1>5. ASSUME NEW w \in Withdrawals, EstimateReverts(w) \/ Settle(w) \/ GiveUp(w)
      PROVE  (QueueOK /\ LockOK /\ WorldOK)'
  BY <1>5 DEF EstimateReverts, Settle, GiveUp, Queue!Finish, Queue!GiveUp,
              lockVars, queueVars, worldVars, QueueOK, LockOK, WorldOK
<1>6. ASSUME NEW a \in Accounts, AccountClass(a)
      PROVE  (QueueOK /\ LockOK /\ WorldOK)'
  BY <1>6, WithdrawalAssumption
  DEF AccountClass, ForeignOp, ForeignMined, RunsDry, lockVars, queueVars,
      QueueOK, LockOK, WorldOK
<1> QED BY <1>2, <1>3, <1>4, <1>5, <1>6 DEF WorldClass

LEMMA NextBaseInv == BaseInv /\ [Next]_vars => BaseInv'
<1> SUFFICES ASSUME BaseInv, [Next]_vars
             PROVE  BaseInv'
  OBVIOUS
<1>1. ASSUME NEW w \in Withdrawals, Post(w) \/ Serve(w) \/ HangsUp(w)
      PROVE  BaseInv'
  BY <1>1, RequestSteps, RequestSurroundings DEF BaseInv
<1>2. CASE UNCHANGED vars
  BY <1>2, SameRequests
  DEF vars, lockVars, queueVars, worldVars, chainVars, BaseInv, QueueOK, LockOK,
      WorldOK
<1> QED BY <1>1, <1>2, WorldSteps DEF Next, WorldClass, AccountClass

-----------------------------------------------------------------------------
(***************************************************************************)
(* The nonces.  A section of sendViaAccount lasts from "read" to the       *)
(* answer; it knows its nonce from "fee" on, its op is out from "wait" on. *)
(***************************************************************************)
InFn == {"read", "fee", "enqueue", "wait"}
HasNonce == {"fee", "enqueue", "wait"}
Sent == {"wait", "ok", "err", "gone"}

\* The requests under the lock are those in the section; a live one has not
\* lapsed and is alone on its account.
LockInv ==
    /\ \A w \in Withdrawals : w \in live \cup zombies <=> wd[w].pc \in InFn
    /\ live \cap lapsed = {}
    /\ zombies \subseteq lapsed
    /\ \A w \in lapsed : wd[w].pc \notin {"idle", "lock"}
    /\ \A v, w \in live : v # w => Account(v) # Account(w)

\* What the queue may still do with an op after its request has an answer,
\* and why a later attempt of a payment was made.
StageInv ==
    /\ out \cup executed \cup refused \subseteq taken
    /\ out \cap executed = {}
    /\ \A w \in taken : wd[w].pc \in Sent
    /\ \A w \in Withdrawals : wd[w].pc = "wait" => w \in taken
    /\ \A w \in Withdrawals : wd[w].pc = "ok" => w \notin out
    /\ \A w \in out \cup executed : wd[w].pc = "err" => w \in unsure
    /\ \A w \in Withdrawals : wd[w].reply # "OK" => wd[w].pc = "err"

AttemptInv ==
    \A w \in Withdrawals : wd[w].pc # "idle" =>
        \A k \in 1 .. w[2] - 1 :
            <<w[1], k>> \in lost \/ wd[<<w[1], k>>].pc = "err"

\* An executed op used up the nonce it was signed for, and an account without
\* foreign ops has used its nonces for withdrawals only.
NonceInv ==
    /\ \A w \in Withdrawals : wd[w].nonce <= accNonce[Account(w)]
    /\ \A w \in executed : wd[w].nonce < accNonce[Account(w)]
    /\ \A v, w \in executed :
          Account(v) = Account(w) /\ wd[v].nonce = wd[w].nonce => v = w
    /\ \A a \in Accounts : foreign[a] = 0 =>
          \A n \in Nat : n < accNonce[a] =>
             \E v \in executed : Account(v) = a /\ wd[v].nonce = n

\* The nonce a section has read stays its own until it ends, except for what
\* ops do that were left behind.
FreshInv ==
    \A w \in Withdrawals : wd[w].pc \in HasNonce /\ w \notin lapsed =>
        \A v \in executed :
            v # w /\ Account(v) = Account(w) /\ wd[v].nonce = wd[w].nonce
            => v \in Loose

\* What RevertIsDeserved says of a withdrawal, of every op the batcher turned
\* down for a revert.
Deserved(w) ==
    \/ Account(w) \in poor
    \/ foreign[Account(w)] > 0
    \/ w \in unsure
    \/ \E v \in taken \ {w} : /\ Account(v) = Account(w)
                              /\ wd[v].nonce = wd[w].nonce
                              /\ {v, w} \cap Loose # {}

RevertInv ==
    /\ \A w \in refused : Deserved(w)
    /\ \A w \in Withdrawals : wd[w].reply = "CALL_EXCEPTION" => w \in refused

IndInv ==
    /\ BaseInv
    /\ LockInv
    /\ StageInv
    /\ AttemptInv
    /\ NonceInv
    /\ FreshInv
    /\ RevertInv

(***************************************************************************)
(* The steps by what they change.                                          *)
(***************************************************************************)
\* Request w, and no other, moves to pc; its nonce stays.
Moves(w, pc) ==
    /\ \A v \in Withdrawals : v # w => wd'[v] = wd[v]
    /\ wd'[w].pc = pc
    /\ wd'[w].nonce = wd[w].nonce

Leaves(w) == live' = live \ {w} /\ zombies' = zombies \ {w}

Same == UNCHANGED <<lost, refused, accNonce, landed, poor, foreign, lapsed>>

Starts(w) ==
    /\ wd[w].pc = "idle" /\ Moves(w, "lock") /\ wd'[w].reply = wd[w].reply
    /\ \A k \in 1 .. w[2] - 1 :
          <<w[1], k>> \in lost \/ wd[<<w[1], k>>].pc = "err"
    /\ UNCHANGED <<live, zombies, out, executed, unsure, taken>> /\ Same

\* An error before the lock is held.
TurnedAway(w) ==
    /\ wd[w].pc = "lock" /\ Moves(w, "err")
    /\ wd'[w].reply # "CALL_EXCEPTION"
    /\ UNCHANGED <<live, zombies, out, executed, unsure, taken>> /\ Same

Enters(w) ==
    /\ wd[w].pc = "lock" /\ Moves(w, "read") /\ wd'[w].reply = wd[w].reply
    /\ \A v \in live : Account(v) # Account(w)
    /\ live' = live \cup {w}
    /\ UNCHANGED <<zombies, out, executed, unsure, taken>> /\ Same

Reads(w) ==
    /\ wd[w].pc = "read" /\ wd'[w].pc = "fee"
    /\ \A v \in Withdrawals : v # w => wd'[v] = wd[v]
    /\ wd'[w].nonce = accNonce[Account(w)] /\ wd'[w].reply = wd[w].reply
    /\ UNCHANGED <<live, zombies, out, executed, unsure, taken>> /\ Same

Prices(w) ==
    /\ wd[w].pc = "fee" /\ Moves(w, "enqueue") /\ wd'[w].reply = wd[w].reply
    /\ UNCHANGED <<live, zombies, out, executed, unsure, taken>> /\ Same

\* An error in the section before the op is in the queue.
Aborts(w) ==
    /\ wd[w].pc \in {"read", "fee", "enqueue"} /\ Moves(w, "err")
    /\ wd'[w].reply # "CALL_EXCEPTION"
    /\ Leaves(w) /\ UNCHANGED <<out, executed, unsure, taken>> /\ Same

Joins(w) ==
    /\ wd[w].pc = "enqueue" /\ Moves(w, "wait") /\ wd'[w].reply = wd[w].reply
    /\ out' = out \cup {w} /\ taken' = taken \cup {w}
    /\ UNCHANGED <<live, zombies, executed, unsure>> /\ Same

\* The request ends with pc; an error it may only be told if the op is done
\* with or given up, and a revert only if the batcher met one.
Ends(w, pc) ==
    /\ wd[w].pc = "wait" /\ Moves(w, pc)
    /\ pc = "ok" => w \notin out
    /\ pc = "err" /\ w \in out \cup executed => w \in unsure
    /\ pc # "err" => wd'[w].reply = "OK"
    /\ wd'[w].reply = "CALL_EXCEPTION" => w \in refused
    /\ Leaves(w) /\ UNCHANGED <<out, executed, unsure, taken>> /\ Same

RequestClass(w) ==
    \/ Starts(w) \/ TurnedAway(w) \/ Enters(w) \/ Reads(w) \/ Prices(w)
    \/ Aborts(w) \/ Joins(w)
    \/ \E pc \in {"ok", "err", "gone"} : Ends(w, pc)

\* Only an error with the mark of a revert is answered as a revert.
LEMMA VerdictRevert ==
    ASSUME NEW err, Verdict(Normalize(err)) = "CALL_EXCEPTION"
    PROVE  "revert" \in err
<1>1. \A i \in 1 .. 6 : Verdict(Rules[i]) = "CALL_EXCEPTION"
                           => Rules[i].mark = "revert"
  BY DEF Rules, Rule, Verdict
<1>2. Verdict(Unknown) # "CALL_EXCEPTION"
  BY DEF Unknown, Rule, Verdict
<1> QED BY <1>1, <1>2, NormalizeCases

\* What an assignment to the locals of one request does to it and the others.
LEMMA ReplyFacts ==
    ASSUME BaseInv, NEW w \in Withdrawals, NEW pc, NEW n, Reply(w, pc, n)
    PROVE  Moves(w, pc) /\ wd'[w].reply = Verdict(n)
  BY DEF BaseInv, RequestInv, Reply, Moves, Locals

LEMMA GotoFacts ==
    ASSUME BaseInv, NEW w \in Withdrawals, NEW pc, Goto(w, pc)
    PROVE  Moves(w, pc) /\ wd'[w].reply = wd[w].reply
  BY DEF BaseInv, RequestInv, Goto, Moves, Locals

LEMMA RequestClasses ==
    ASSUME IndInv, NEW w \in Withdrawals, Post(w) \/ Serve(w) \/ HangsUp(w)
    PROVE  RequestClass(w)
<1>0. BaseInv
  BY DEF IndInv
<1> USE DEF At, lockVars, queueVars, worldVars, chainVars, Same
<1>1. CASE Post(w)
  <2>1. Moves(w, "lock") /\ wd'[w].reply = wd[w].reply
    BY <1>0, <1>1, GotoFacts DEF Post
  <2> QED BY <1>1, <2>1 DEF Post, RequestClass, Starts
<1>2. CASE Invalidate(w) \/ NotLocked(w)
  <2>1. Moves(w, "err") /\ wd'[w].reply # "CALL_EXCEPTION"
    <3>1. CASE Invalidate(w)
      <4>1. Verdict(Invalid) # "CALL_EXCEPTION"
        BY DEF Verdict, Invalid, Rule
      <4> QED BY <1>0, <3>1, <4>1, ReplyFacts DEF Invalidate
    <3>2. CASE NotLocked(w)
      <4>1. PICK err \in {{"network"}, {"nonce"}, {}} :
               Reply(w, "err", Normalize(err))
        BY <3>2 DEF NotLocked
      <4> QED BY <1>0, <4>1, ReplyFacts, VerdictRevert
    <3> QED BY <1>2, <3>1, <3>2
  <2> QED BY <1>2, <2>1 DEF Invalidate, NotLocked, RequestClass, TurnedAway
<1>3. CASE Enter(w)
  <2>1. Moves(w, "read") /\ wd'[w].reply = wd[w].reply
    BY <1>0, <1>3, GotoFacts DEF Enter
  <2>2. live \subseteq Withdrawals
    BY <1>0 DEF BaseInv, LockOK
  <2>3. \A v \in live : Account(v) # Account(w)
    BY <1>3, <2>2 DEF Enter, Lock!Acquire
  <2> QED BY <1>3, <2>1, <2>3 DEF Enter, Lock!Acquire, RequestClass, Enters
<1>4. CASE ReadNonce(w)
  BY <1>0, <1>4 DEF ReadNonce, RequestClass, Reads, BaseInv, RequestInv, Locals
<1>5. CASE Quote(w)
  <2>1. PICK fee : wd' = [wd EXCEPT ![w].pc = "enqueue", ![w].fee = fee]
    BY <1>5 DEF Quote
  <2>2. Moves(w, "enqueue") /\ wd'[w].reply = wd[w].reply
    BY <1>0, <2>1 DEF Moves, BaseInv, RequestInv, Locals
  <2> QED BY <1>5, <2>2 DEF Quote, RequestClass, Prices
<1>6. CASE FailsEarly(w)
  <2>1. PICK err \in {{"network"}, {}} : Reply(w, "err", Normalize(err))
    BY <1>6 DEF FailsEarly
  <2>2. Moves(w, "err") /\ wd'[w].reply # "CALL_EXCEPTION"
    BY <1>0, <2>1, ReplyFacts, VerdictRevert
  <2> QED
    BY <1>6, <2>2 DEF FailsEarly, Lock!Leave, RequestClass, Aborts, Leaves
<1>7. CASE Enqueue(w)
  <2>1. Moves(w, "wait") /\ wd'[w].reply = wd[w].reply
    BY <1>0, <1>7 DEF Enqueue, Moves, BaseInv, RequestInv, Locals
  <2> QED BY <1>7, <2>1 DEF Enqueue, Queue!Take, RequestClass, Joins
<1>8. CASE Succeeds(w)
  <2>1. Moves(w, "ok") /\ wd'[w].reply = "OK"
    <3>1. Verdict(Success) = "OK"
      BY DEF Verdict, Success, Rule
    <3> QED BY <1>0, <1>8, <3>1, ReplyFacts DEF Succeeds
  <2>2. Ends(w, "ok")
    BY <1>8, <2>1 DEF Succeeds, Queue!Succeed, Lock!Leave, Ends, Leaves
  <2> QED BY <2>2 DEF RequestClass
<1>9. CASE Fails(w)
  <2>1. PICK err : /\ "revert" \in err => w \in refused
                   /\ Reply(w, "err", Normalize(err))
    BY <1>9 DEF Fails
  <2>2. Moves(w, "err") /\ wd'[w].reply = Verdict(Normalize(err))
    BY <1>0, <2>1, ReplyFacts
  <2>3. wd'[w].reply = "CALL_EXCEPTION" => w \in refused
    BY <2>1, <2>2, VerdictRevert
  <2>4. Ends(w, "err")
    BY <1>9, <2>2, <2>3 DEF Fails, Queue!Fail, Lock!Leave, Ends, Leaves
  <2> QED BY <2>4 DEF RequestClass
<1>10. CASE HangsUp(w)
  <2>1. Moves(w, "gone") /\ wd'[w].reply = wd[w].reply
    BY <1>0, <1>10, GotoFacts DEF HangsUp
  <2>2. wd[w].reply = "OK"
    BY <1>10 DEF HangsUp, IndInv, StageInv
  <2>3. Ends(w, "gone")
    BY <1>10, <2>1, <2>2 DEF HangsUp, Queue!Leave, Lock!Leave, Ends, Leaves
  <2> QED BY <2>3 DEF RequestClass
<1> QED BY <1>1, <1>2, <1>3, <1>4, <1>5, <1>6, <1>7, <1>8, <1>9, <1>10 DEF Serve

LEMMA StepClasses ==
    ASSUME IndInv, Next
    PROVE  \/ \E w \in Withdrawals : RequestClass(w) \/ WorldClass(w)
           \/ \E a \in Accounts : AccountClass(a)
  BY RequestClasses DEF Next, WorldClass, AccountClass

\* What only grows, whatever happens; an op in the queue keeps its nonce.
LEMMA WorldGrows ==
    ASSUME BaseInv,
           \/ \E w \in Withdrawals : WorldClass(w)
           \/ \E a \in Accounts : AccountClass(a)
    PROVE  /\ UNCHANGED <<wd, taken>>
           /\ executed \subseteq executed' /\ unsure \subseteq unsure'
           /\ lost \subseteq lost' /\ lapsed \subseteq lapsed'
           /\ poor \subseteq poor'
           /\ \A a \in Accounts : foreign[a] > 0 => foreign'[a] > 0
<1> USE DEF lockVars, queueVars, callVars, chainVars, worldVars
<1>1. ASSUME NEW w \in Withdrawals, WorldClass(w)
      PROVE  /\ UNCHANGED <<wd, taken, poor, foreign>>
             /\ executed \subseteq executed' /\ unsure \subseteq unsure'
             /\ lost \subseteq lost' /\ lapsed \subseteq lapsed'
  BY <1>1 DEF WorldClass, Disconnect, Lapse, EstimateReverts, Execute, Settle,
              GiveUp, Queue!Finish, Queue!GiveUp
<1>2. ASSUME NEW b \in Accounts, AccountClass(b)
      PROVE  /\ UNCHANGED <<wd, taken, executed, unsure, lost, lapsed>>
             /\ poor \subseteq poor'
             /\ \A a \in Accounts : foreign[a] > 0 => foreign'[a] > 0
  <2>1. foreign \in [Accounts -> Nat]
    BY WithdrawalAssumption DEF BaseInv, WorldOK
  <2> QED BY <1>2, <2>1 DEF AccountClass, ForeignOp, ForeignMined, RunsDry
<1> QED BY <1>1, <1>2

LEMMA Grows ==
    ASSUME IndInv, Next
    PROVE  /\ executed \subseteq executed' /\ unsure \subseteq unsure'
           /\ lost \subseteq lost' /\ lapsed \subseteq lapsed'
           /\ poor \subseteq poor' /\ taken \subseteq taken'
           /\ \A a \in Accounts : foreign[a] > 0 => foreign'[a] > 0
           /\ \A v \in taken : wd'[v].nonce = wd[v].nonce
<1>1. ASSUME NEW w \in Withdrawals, RequestClass(w)
      PROVE  /\ UNCHANGED <<executed, unsure, lost, lapsed, poor, foreign>>
             /\ taken \subseteq taken'
             /\ \A v \in taken : wd'[v].nonce = wd[v].nonce
  <2>1. taken \subseteq Withdrawals
    BY DEF IndInv, BaseInv, WorldOK
  <2> QED
    BY <1>1, <2>1 DEF RequestClass, Starts, TurnedAway, Enters, Reads, Prices,
       Aborts, Joins, Ends, Moves, Same, IndInv, StageInv, Sent
<1> QED BY <1>1, StepClasses, WorldGrows DEF IndInv

\* What was left behind stays so.
LEMMA LooseStays ==
    ASSUME IndInv, Next
    PROVE  Loose \subseteq Loose'
<1>1. ASSUME NEW w \in Withdrawals, RequestClass(w)
      PROVE  Loose \subseteq Loose'
  BY <1>1 DEF RequestClass, Starts, TurnedAway, Enters, Reads, Prices, Aborts,
              Joins, Ends, Moves, Same, Loose, At
<1>2. ASSUME UNCHANGED wd
      PROVE  Loose \subseteq Loose'
  BY <1>2, Grows DEF Loose, At
<1> QED BY <1>1, <1>2, StepClasses, WorldGrows DEF IndInv

LEMMA LockStep ==
    ASSUME IndInv, Next
    PROVE  LockInv'
<1> USE DEF IndInv, LockInv, InFn
<1>1. live \subseteq Withdrawals /\ zombies \subseteq Withdrawals
        /\ lapsed \subseteq Withdrawals
  BY DEF BaseInv, LockOK, WorldOK
<1>2. ASSUME NEW w \in Withdrawals, RequestClass(w)
      PROVE  LockInv'
  <2> USE <1>1 DEF Moves, Leaves, Same
  <2>1. CASE Starts(w)
    BY <2>1 DEF Starts
  <2>2. CASE TurnedAway(w)
    BY <2>2 DEF TurnedAway
  <2>3. CASE Enters(w)
    BY <2>3 DEF Enters
  <2>4. CASE Reads(w) \/ Prices(w) \/ Joins(w)
    BY <2>4 DEF Reads, Prices, Joins
  <2>5. CASE Aborts(w)
    BY <2>5 DEF Aborts
  <2>6. ASSUME NEW pc \in {"ok", "err", "gone"}, Ends(w, pc)
        PROVE  LockInv'
    BY <2>6 DEF Ends
  <2> QED BY <1>2, <2>1, <2>2, <2>3, <2>4, <2>5, <2>6 DEF RequestClass
<1>3. ASSUME NEW w \in Withdrawals, WorldClass(w)
      PROVE  LockInv'
  <2>1. CASE Lapse(w)
    BY <1>1, <2>1 DEF Lapse, Lock!Lapse, callVars
  <2>2. CASE ~Lapse(w)
    BY <1>1, <1>3, <2>2 DEF WorldClass, Disconnect, EstimateReverts, Execute,
       Settle, GiveUp, lockVars, callVars, worldVars
  <2> QED BY <2>1, <2>2
<1>4. ASSUME NEW a \in Accounts, AccountClass(a)
      PROVE  LockInv'
  BY <1>4 DEF AccountClass, ForeignOp, ForeignMined, RunsDry, lockVars, callVars
<1> QED BY <1>2, <1>3, <1>4, StepClasses

LEMMA StageStep ==
    ASSUME IndInv, Next
    PROVE  StageInv'
<1> USE DEF IndInv, StageInv, Sent
<1>1. taken \subseteq Withdrawals
  BY DEF BaseInv, WorldOK
<1>2. ASSUME NEW w \in Withdrawals, RequestClass(w)
      PROVE  StageInv'
  <2> USE <1>1 DEF Moves, Same
  <2>1. CASE Starts(w) \/ TurnedAway(w)
    BY <2>1 DEF Starts, TurnedAway
  <2>2. CASE Enters(w) \/ Reads(w) \/ Prices(w)
    BY <2>2 DEF Enters, Reads, Prices
  <2>3. CASE Aborts(w)
    BY <2>3 DEF Aborts
  <2>4. CASE Joins(w)
    BY <2>4 DEF Joins
  <2>5. ASSUME NEW pc \in {"ok", "err", "gone"}, Ends(w, pc)
        PROVE  StageInv'
    BY <2>5 DEF Ends
  <2> QED BY <1>2, <2>1, <2>2, <2>3, <2>4, <2>5 DEF RequestClass
<1>3. ASSUME NEW w \in Withdrawals, WorldClass(w)
      PROVE  StageInv'
  <2> USE <1>1 DEF lockVars, queueVars, callVars, chainVars, worldVars
  <2>1. CASE Disconnect(w) \/ Lapse(w)
    BY <2>1 DEF Disconnect, Lapse
  <2>2. CASE EstimateReverts(w)
    <3>1. w \in taken
      BY <2>2 DEF EstimateReverts, At
    <3> QED BY <2>2, <3>1 DEF EstimateReverts, Queue!Finish
  <2>3. CASE Execute(w)
    BY <2>3 DEF Execute, Queue!Finish
  <2>4. CASE Settle(w) \/ GiveUp(w)
    BY <2>4 DEF Settle, GiveUp, Queue!Finish, Queue!GiveUp
  <2> QED BY <1>3, <2>1, <2>2, <2>3, <2>4 DEF WorldClass
<1>4. ASSUME NEW a \in Accounts, AccountClass(a)
      PROVE  StageInv'
  BY <1>4 DEF AccountClass, ForeignOp, ForeignMined, RunsDry, queueVars, callVars
<1> QED BY <1>2, <1>3, <1>4, StepClasses

\* The attempts before an attempt of a payment are attempts.
LEMMA EarlierAttempts ==
    ASSUME NEW w \in Withdrawals
    PROVE  /\ w[2] \in Nat
           /\ \A k \in 1 .. w[2] - 1 : <<w[1], k>> \in Withdrawals /\ <<w[1], k>> # w
           /\ \A v \in Withdrawals : v[1] = w[1] /\ v[2] < w[2] =>
                 \E k \in 1 .. w[2] - 1 : v = <<w[1], k>>
<1>1. PICK p \in Payments : w \in {p} \X (1 .. Attempts[p])
  BY DEF Withdrawals
<1>2. w = <<p, w[2]>> /\ w[1] = p /\ w[2] \in 1 .. Attempts[p]
  BY <1>1
<1>3. Attempts[p] \in Nat
  BY WithdrawalAssumption
<1>4. w[2] \in Nat
  BY <1>2, <1>3
<1>5. ASSUME NEW k \in 1 .. w[2] - 1
      PROVE  <<w[1], k>> \in Withdrawals /\ <<w[1], k>> # w
  <2>1. k \in 1 .. Attempts[p] /\ k # w[2]
    BY <1>2, <1>3, <1>4
  <2>2. <<p, k>> \in {p} \X (1 .. Attempts[p])
    BY <2>1
  <2> QED BY <1>2, <2>1, <2>2 DEF Withdrawals
<1>6. ASSUME NEW v \in Withdrawals, v[1] = w[1], v[2] < w[2]
      PROVE  \E k \in 1 .. w[2] - 1 : v = <<w[1], k>>
  <2>1. PICK q \in Payments : v \in {q} \X (1 .. Attempts[q])
    BY DEF Withdrawals
  <2>2. v = <<q, v[2]>> /\ v[1] = q /\ v[2] \in 1 .. Attempts[q]
    BY <2>1
  <2>3. Attempts[q] \in Nat
    BY WithdrawalAssumption
  <2>4. v[2] \in 1 .. w[2] - 1
    BY <1>4, <1>6, <2>2, <2>3
  <2> QED BY <1>6, <2>2, <2>4
<1> QED BY <1>4, <1>5, <1>6

LEMMA AttemptStep ==
    ASSUME IndInv, Next
    PROVE  AttemptInv'
<1> SUFFICES ASSUME NEW w \in Withdrawals, wd'[w].pc # "idle",
                    NEW k \in 1 .. w[2] - 1
             PROVE  <<w[1], k>> \in lost' \/ wd'[<<w[1], k>>].pc = "err"
  BY DEF AttemptInv
<1> DEFINE v == <<w[1], k>>
<1>1. v \in Withdrawals /\ v # w
  BY EarlierAttempts
<1>2. wd[w].pc # "idle" => v \in lost \/ wd[v].pc = "err"
  BY DEF IndInv, AttemptInv
<1> HIDE DEF v
<1>3. ASSUME NEW u \in Withdrawals, RequestClass(u)
      PROVE  v \in lost' \/ wd'[v].pc = "err"
  <2>1. v \in lost \/ wd[v].pc = "err"
    <3>1. CASE wd[w].pc # "idle"
      BY <1>2, <3>1
    <3>2. CASE wd[w].pc = "idle"
      <4>1. u = w /\ Starts(w)
        BY <1>3, <3>2 DEF RequestClass, Starts, TurnedAway, Enters, Reads,
                          Prices, Aborts, Joins, Ends, Moves
      <4> QED BY <4>1 DEF Starts, v
    <3> QED BY <3>1, <3>2
  <2>2. lost' = lost
    BY <1>3 DEF RequestClass, Starts, TurnedAway, Enters, Reads, Prices, Aborts,
                Joins, Ends, Same
  <2>3. wd[v].pc = "err" => wd'[v] = wd[v]
    BY <1>1, <1>3 DEF RequestClass, Starts, TurnedAway, Enters, Reads,
                      Prices, Aborts, Joins, Ends, Moves
  <2> QED BY <2>1, <2>2, <2>3
<1>4. ASSUME UNCHANGED wd
      PROVE  v \in lost' \/ wd'[v].pc = "err"
  BY <1>2, <1>4, Grows
<1>5. v \in lost' \/ wd'[v].pc = "err"
  BY <1>3, <1>4, StepClasses, WorldGrows DEF IndInv
<1> QED BY <1>5 DEF v

LEMMA NonceStep ==
    ASSUME IndInv, Next
    PROVE  NonceInv'
<1> USE DEF IndInv, NonceInv
<1>1. /\ out \subseteq Withdrawals /\ executed \subseteq Withdrawals
      /\ \A v \in Withdrawals : Account(v) \in Accounts /\ wd[v].nonce \in Nat
      /\ accNonce \in [Accounts -> Nat]
      /\ foreign \in [Accounts -> 0 .. MaxForeign]
  BY AccountType DEF BaseInv, QueueOK, WorldOK, RequestInv, Locals
<1>2. ASSUME NEW w \in Withdrawals, RequestClass(w)
      PROVE  NonceInv'
  <2>1. executed' = executed /\ UNCHANGED <<accNonce, foreign>>
    BY <1>2 DEF RequestClass, Starts, TurnedAway, Enters, Reads, Prices, Aborts,
                Joins, Ends, Same
  <2>2. \A v \in executed : wd'[v].nonce = wd[v].nonce
    BY Grows DEF StageInv
  <2>3. \A v \in Withdrawals : \/ wd'[v].nonce = wd[v].nonce
                               \/ wd'[v].nonce = accNonce[Account(v)]
    BY <1>2 DEF RequestClass, Starts, TurnedAway, Enters, Reads, Prices,
                Aborts, Joins, Ends, Moves
  <2>4. \A v \in Withdrawals : wd'[v].nonce <= accNonce[Account(v)]
    BY <1>1, <2>3
  <2> QED BY <1>1, <2>1, <2>2, <2>4
<1>3. ASSUME NEW w \in Withdrawals, Execute(w)
      PROVE  NonceInv'
  <2> DEFINE a == Account(w)
  <2>1. /\ UNCHANGED <<wd, foreign>>
        /\ executed' = executed \cup {w}
        /\ wd[w].nonce = accNonce[a]
        /\ a \in Accounts
        /\ accNonce' = [accNonce EXCEPT ![a] = @ + 1]
    BY <1>1, <1>3 DEF Execute, Queue!Finish, Reverts, callVars
  <2> HIDE DEF a
  <2>2. /\ accNonce'[a] = accNonce[a] + 1
        /\ \A b \in Accounts : b # a => accNonce'[b] = accNonce[b]
    BY <1>1, <2>1
  <2>3. \A v \in Withdrawals : wd[v].nonce <= accNonce'[Account(v)]
    BY <1>1, <2>1, <2>2
  <2>4. \A v \in executed \cup {w} : wd[v].nonce < accNonce'[Account(v)]
    BY <1>1, <2>1, <2>2 DEF a
  <2>5. \A v \in executed : Account(v) = a => wd[v].nonce # wd[w].nonce
    BY <1>1, <2>1
  <2>6. ASSUME NEW b \in Accounts, foreign[b] = 0, NEW n \in Nat,
               n < accNonce'[b]
        PROVE  \E v \in executed \cup {w} : Account(v) = b /\ wd[v].nonce = n
    <3>1. CASE n < accNonce[b]
      BY <2>6, <3>1
    <3>2. CASE ~(n < accNonce[b])
      <4>1. b = a /\ n = accNonce[a]
        BY <1>1, <2>1, <2>2, <2>6, <3>2
      <4> QED BY <2>1, <4>1 DEF a
    <3> QED BY <3>1, <3>2
  <2> QED BY <1>1, <2>1, <2>3, <2>4, <2>5, <2>6 DEF a
<1>4. ASSUME NEW w \in Withdrawals, WorldClass(w), ~Execute(w)
      PROVE  NonceInv'
  <2>1. executed' = executed /\ UNCHANGED <<wd, accNonce, foreign>>
    BY <1>4 DEF WorldClass, Disconnect, Lapse, EstimateReverts, Settle, GiveUp,
       Queue!Finish, Queue!GiveUp, queueVars, callVars, chainVars, worldVars
  <2> QED BY <2>1
<1>5. ASSUME NEW a \in Accounts, AccountClass(a)
      PROVE  NonceInv'
  <2>1. executed' = executed /\ UNCHANGED wd
    BY <1>5 DEF AccountClass, ForeignOp, ForeignMined, RunsDry, queueVars, callVars
  <2>2. \A b \in Accounts : /\ accNonce[b] <= accNonce'[b] /\ accNonce'[b] \in Nat
                            /\ foreign'[b] = 0 => /\ foreign[b] = 0
                                                  /\ accNonce'[b] = accNonce[b]
    <3>1. landed \in [Accounts -> Nat]
      BY DEF BaseInv, WorldOK
    <3>2. CASE ForeignOp(a)
      BY <1>1, <3>2, WithdrawalAssumption DEF ForeignOp
    <3>3. CASE ForeignMined(a)
      BY <1>1, <3>1, <3>3, WithdrawalAssumption DEF ForeignMined
    <3>4. CASE RunsDry(a)
      BY <1>1, <3>4, WithdrawalAssumption DEF RunsDry
    <3> QED BY <1>5, <3>2, <3>3, <3>4 DEF AccountClass
  <2> QED BY <1>1, <2>1, <2>2
<1> QED BY <1>2, <1>3, <1>4, <1>5, StepClasses

\* Of two requests of an account at most one is out and not left behind.
LEMMA OneOut ==
    ASSUME IndInv, NEW v \in out, NEW w \in Withdrawals, v # w,
           Account(v) = Account(w), wd[w].pc \in InFn
    PROVE  v \in Loose \/ w \in lapsed
<1> SUFFICES ASSUME v \notin Loose, w \notin lapsed
             PROVE  FALSE
  OBVIOUS
<1>1. v \in Withdrawals
  BY DEF IndInv, BaseInv, QueueOK
<1>2. wd[v].pc = "wait" /\ v \notin lapsed
  BY <1>1 DEF IndInv, StageInv, Sent, Loose, At
<1>3. v \in live /\ w \in live
  BY <1>1, <1>2 DEF IndInv, LockInv, InFn
<1> QED BY <1>3 DEF IndInv, LockInv

LEMMA FreshStep ==
    ASSUME IndInv, Next
    PROVE  FreshInv'
<1> SUFFICES ASSUME NEW w \in Withdrawals, wd'[w].pc \in HasNonce,
                    w \notin lapsed', NEW v \in executed', v # w,
                    Account(v) = Account(w), wd'[v].nonce = wd'[w].nonce
             PROVE  v \in Loose'
  BY DEF FreshInv
<1> USE DEF HasNonce
<1>1. /\ out \subseteq Withdrawals /\ executed \subseteq Withdrawals
      /\ \A u \in Withdrawals : Account(u) \in Accounts /\ wd[u].nonce \in Nat
      /\ accNonce \in [Accounts -> Nat]
  BY AccountType DEF IndInv, BaseInv, QueueOK, WorldOK, RequestInv, Locals
<1>2. ASSUME wd[w].pc \in HasNonce, w \notin lapsed, v \in executed,
             wd[v].nonce = wd[w].nonce
      PROVE  v \in Loose'
  BY <1>2, LooseStays DEF IndInv, FreshInv
<1>3. ASSUME NEW u \in Withdrawals, RequestClass(u)
      PROVE  v \in Loose'
  <2>1. executed' = executed /\ lapsed' = lapsed
    BY <1>3 DEF RequestClass, Starts, TurnedAway, Enters, Reads, Prices, Aborts,
                Joins, Ends, Same
  <2>2. wd'[v].nonce = wd[v].nonce
    BY <2>1, Grows DEF IndInv, StageInv
  <2>3. CASE Reads(w)
    <3>1. wd'[w].nonce = accNonce[Account(w)]
      BY <2>3 DEF Reads
    <3>2. wd[v].nonce < accNonce[Account(v)]
      BY <2>1 DEF IndInv, NonceInv
    <3>3. wd[v].nonce \in Nat /\ accNonce[Account(w)] \in Nat
      BY <1>1, <2>1
    <3>4. wd[v].nonce # accNonce[Account(w)]
      BY <3>2, <3>3
    <3> QED BY <2>2, <3>1, <3>4
  <2>4. CASE ~Reads(w)
    <3>1. wd'[w].nonce = wd[w].nonce /\ wd[w].pc \in HasNonce
      BY <1>3, <2>4 DEF RequestClass, Starts, TurnedAway, Enters, Reads, Prices,
                        Aborts, Joins, Ends, Moves
    <3> QED BY <1>2, <2>1, <2>2, <3>1
  <2> QED BY <2>3, <2>4
<1>4. ASSUME NEW u \in Withdrawals, Execute(u)
      PROVE  v \in Loose'
  <2>1. UNCHANGED <<wd, lapsed>> /\ executed' = executed \cup {u} /\ u \in out
    BY <1>4 DEF Execute, Queue!Finish, callVars
  <2>2. CASE v = u
    <3>1. wd[w].pc \in InFn
      BY <2>1 DEF InFn
    <3>2. v \in Loose
      BY <2>1, <2>2, <3>1, OneOut
    <3> QED BY <3>2, LooseStays
  <2> QED BY <1>2, <2>1, <2>2
<1>5. CASE \/ \E u \in Withdrawals : WorldClass(u) /\ ~Execute(u)
           \/ \E a \in Accounts : AccountClass(a)
  <2>1. executed' = executed
    BY <1>5 DEF WorldClass, Disconnect, Lapse, EstimateReverts, Settle, GiveUp,
       AccountClass, ForeignOp, ForeignMined, RunsDry, Queue!Finish,
       Queue!GiveUp, queueVars
  <2>2. UNCHANGED wd /\ lapsed \subseteq lapsed'
    BY <1>5, WorldGrows DEF IndInv
  <2> QED BY <1>2, <2>1, <2>2
<1> QED BY <1>3, <1>4, <1>5, StepClasses

\* What the invariant says of two ops of an account with the same nonce.
LEMMA IndInvShares == IndInv => NonceNotShared
<1> SUFFICES ASSUME IndInv, NEW v \in out \cup executed, NEW w \in out \cup executed,
                    v # w, Account(v) = Account(w), wd[v].nonce = wd[w].nonce,
                    v \notin Loose, w \notin Loose
             PROVE  FALSE
  BY DEF NonceNotShared
<1>1. v \in Withdrawals /\ w \in Withdrawals
  BY DEF IndInv, BaseInv, QueueOK
<1>2. \A u \in out : u \notin Loose => wd[u].pc = "wait" /\ u \notin lapsed
  BY DEF IndInv, BaseInv, QueueOK, StageInv, Sent, Loose, At
<1>3. ~(v \in executed /\ w \in executed)
  BY DEF IndInv, NonceInv
<1>4. ~(v \in out /\ w \in out)
  BY <1>1, <1>2, OneOut DEF InFn
<1>5. ~(v \in out /\ w \in executed) /\ ~(w \in out /\ v \in executed)
  BY <1>1, <1>2 DEF IndInv, FreshInv, HasNonce
<1> QED BY <1>3, <1>4, <1>5

\* An op whose nonce is used up, with no op from outside, has lost it to the
\* op of another withdrawal, and one of the two was left behind.
LEMMA LostNonce ==
    ASSUME IndInv, NEW w \in out, wd[w].pc = "wait",
           wd[w].nonce # accNonce[Account(w)], ~(foreign[Account(w)] > 0)
    PROVE  \E v \in taken \ {w} : /\ Account(v) = Account(w)
                                  /\ wd[v].nonce = wd[w].nonce
                                  /\ {v, w} \cap Loose # {}
<1>0. w \in Withdrawals
  BY DEF IndInv, BaseInv, QueueOK
<1>1. /\ Account(w) \in Accounts /\ wd[w].nonce \in Nat
      /\ accNonce[Account(w)] \in Nat
      /\ foreign[Account(w)] \in Nat
  <2>1. Account(w) \in Accounts
    BY <1>0, AccountType
  <2> QED BY <1>0, <2>1, WithdrawalAssumption
          DEF IndInv, BaseInv, RequestInv, Locals, WorldOK
<1>2. wd[w].nonce < accNonce[Account(w)] /\ foreign[Account(w)] = 0
  BY <1>0, <1>1 DEF IndInv, NonceInv
<1>3. PICK v \in executed : Account(v) = Account(w) /\ wd[v].nonce = wd[w].nonce
  BY <1>1, <1>2 DEF IndInv, NonceInv
<1>4. v \in taken /\ v # w
  BY DEF IndInv, StageInv
<1>5. CASE w \in lapsed
  BY <1>0, <1>3, <1>4, <1>5 DEF Loose
<1>6. CASE w \notin lapsed
  BY <1>0, <1>3, <1>4, <1>6 DEF IndInv, FreshInv, HasNonce
<1> QED BY <1>5, <1>6

\* The batcher has a reason to turn an op down.
LEMMA RefusedDeserves ==
    ASSUME IndInv, NEW w \in Withdrawals, EstimateReverts(w)
    PROVE  Deserved(w)
<1> SUFFICES ASSUME Account(w) \notin poor, ~(foreign[Account(w)] > 0), w \notin unsure
             PROVE  \E v \in taken \ {w} : /\ Account(v) = Account(w)
                                           /\ wd[v].nonce = wd[w].nonce
                                           /\ {v, w} \cap Loose # {}
  BY DEF Deserved
<1>1. w \in out /\ wd[w].pc = "wait"
  BY DEF EstimateReverts, At
<1>2. ~(landed[Account(w)] < foreign[Account(w)])
  <2>1. landed[Account(w)] \in Nat /\ foreign[Account(w)] \in Nat
    BY AccountType, WithdrawalAssumption DEF IndInv, BaseInv, WorldOK
  <2> QED BY <2>1
<1>3. CASE wd[w].nonce # accNonce[Account(w)]
  BY <1>1, <1>3, LostNonce
<1>4. CASE wd[w].nonce = accNonce[Account(w)]
  <2>1. PICK v \in out : /\ Account(v) = Account(w) /\ wd[v].nonce = wd[w].nonce
                         /\ v # w
    BY <1>2, <1>4 DEF EstimateReverts, Reverts, Clashes
  <2>2. {v, w} \cap Loose # {}
    BY <1>1, <2>1, IndInvShares DEF NonceNotShared
  <2>3. v \in taken
    BY DEF IndInv, StageInv
  <2> QED BY <2>1, <2>2, <2>3
<1> QED BY <1>3, <1>4

\* A reason stays a reason.
LEMMA DeservedStays ==
    ASSUME IndInv, Next, NEW w \in taken, Deserved(w)
    PROVE  Deserved(w)'
<1>1. Account(w) \in Accounts
  BY AccountType DEF IndInv, BaseInv, WorldOK
<1>2. CASE Account(w) \in poor \/ foreign[Account(w)] > 0 \/ w \in unsure
  BY <1>1, <1>2, Grows DEF Deserved
<1>3. CASE \E v \in taken \ {w} : /\ Account(v) = Account(w)
                                  /\ wd[v].nonce = wd[w].nonce
                                  /\ {v, w} \cap Loose # {}
  BY <1>3, Grows, LooseStays DEF Deserved
<1> QED BY <1>2, <1>3 DEF Deserved

LEMMA RevertStep ==
    ASSUME IndInv, Next
    PROVE  RevertInv'
<1>0. refused \subseteq taken /\ refused \subseteq Withdrawals
  BY DEF IndInv, StageInv, BaseInv, WorldOK
<1>1. \A w \in refused : Deserved(w)'
  BY <1>0, DeservedStays DEF IndInv, RevertInv
<1>2. ASSUME NEW w \in Withdrawals, EstimateReverts(w)
      PROVE  RevertInv'
  <2>1. w \in taken
    BY <1>2 DEF EstimateReverts, At, IndInv, StageInv
  <2>2. Deserved(w)'
    BY <1>2, <2>1, RefusedDeserves, DeservedStays
  <2> QED BY <1>1, <1>2, <2>2 DEF EstimateReverts, IndInv, RevertInv
<1>3. ASSUME NEW w \in Withdrawals, RequestClass(w)
      PROVE  RevertInv'
  <2>1. refused' = refused
    BY <1>3 DEF RequestClass, Starts, TurnedAway, Enters, Reads, Prices, Aborts,
                Joins, Ends, Same
  <2>2. \A v \in Withdrawals : wd'[v].reply = "CALL_EXCEPTION" => v \in refused
    BY <1>3 DEF RequestClass, Starts, TurnedAway, Enters, Reads, Prices, Aborts,
                Joins, Ends, Moves, IndInv, RevertInv
  <2> QED BY <1>1, <2>1, <2>2 DEF RevertInv
<1>4. ASSUME UNCHANGED <<wd, refused>>
      PROVE  RevertInv'
  BY <1>1, <1>4 DEF IndInv, RevertInv
<1>5. ASSUME \/ \E w \in Withdrawals : WorldClass(w) /\ ~EstimateReverts(w)
             \/ \E a \in Accounts : AccountClass(a)
      PROVE  UNCHANGED <<wd, refused>>
  BY <1>5 DEF WorldClass, Disconnect, Lapse, Execute, Settle, GiveUp, callVars,
     worldVars, AccountClass, ForeignOp, ForeignMined, RunsDry
<1> QED BY <1>2, <1>3, <1>4, <1>5, StepClasses

-----------------------------------------------------------------------------
LEMMA InitIndInv == Init => IndInv
<1> SUFFICES ASSUME Init
             PROVE  IndInv
  OBVIOUS
<1>1. /\ \A w \in Withdrawals : /\ wd[w].pc = "idle" /\ wd[w].nonce = 0
                                /\ wd[w].reply = "OK"
      /\ live = {} /\ zombies = {} /\ lapsed = {} /\ out = {} /\ executed = {}
      /\ refused = {} /\ taken = {}
      /\ \A a \in Accounts : accNonce[a] = 0
  BY DEF Init, Lock!Init, Queue!Init
<1>2. LockInv /\ StageInv /\ AttemptInv
  BY <1>1 DEF LockInv, InFn, StageInv, AttemptInv
<1>3. NonceInv /\ FreshInv /\ RevertInv
  BY <1>1, AccountType DEF NonceInv, FreshInv, RevertInv
<1> QED BY <1>2, <1>3, InitBaseInv DEF IndInv

LEMMA NextIndInv == IndInv /\ [Next]_vars => IndInv'
<1> SUFFICES ASSUME IndInv, [Next]_vars
             PROVE  IndInv'
  OBVIOUS
<1>1. BaseInv'
  BY NextBaseInv DEF IndInv
<1>2. CASE Next
  BY <1>1, <1>2, LockStep, StageStep, AttemptStep, NonceStep, FreshStep,
     RevertStep DEF IndInv
<1>3. CASE UNCHANGED vars
  <2>1. UNCHANGED <<live, zombies, out, executed, unsure, wd, lost, refused,
                    accNonce, landed, poor, foreign, lapsed, taken>>
    BY <1>3 DEF vars, lockVars, queueVars, worldVars, chainVars
  <2>2. (LockInv /\ StageInv /\ AttemptInv /\ NonceInv)'
    BY <2>1 DEF IndInv, LockInv, StageInv, AttemptInv, NonceInv
  <2>3. (FreshInv /\ RevertInv)'
    BY <2>1 DEF IndInv, FreshInv, RevertInv, Deserved, Loose, At
  <2> QED BY <1>1, <2>2, <2>3 DEF IndInv
<1> QED BY <1>2, <1>3

LEMMA IndInvPays == IndInv => PaidOnce
<1> SUFFICES ASSUME IndInv, NEW v \in executed, NEW w \in executed,
                    v[1] = w[1], v[2] < w[2]
             PROVE  v \in lost \cup unsure
  BY DEF PaidOnce
<1>1. v \in Withdrawals /\ w \in Withdrawals
  BY DEF IndInv, BaseInv, QueueOK
<1>2. PICK k \in 1 .. w[2] - 1 : v = <<w[1], k>>
  BY <1>1, EarlierAttempts
<1>3. wd[w].pc # "idle"
  BY DEF IndInv, StageInv, Sent
<1>4. v \in lost \/ wd[v].pc = "err"
  BY <1>1, <1>2, <1>3 DEF IndInv, AttemptInv
<1> QED BY <1>1, <1>4 DEF IndInv, StageInv

LEMMA IndInvHolds == Spec => []IndInv
  BY InitIndInv, NextIndInv, PTL DEF Spec

\* Two withdrawals of an account use the same account nonce only if one of
\* them was left behind (the comment of sendViaAccount, with its limits).
THEOREM NonceNotSharedHolds == Spec => []NonceNotShared
  BY IndInvHolds, IndInvShares, PTL

\* A payment is made twice only if the adapter got no answer to the earlier
\* attempt or the batcher gave up on a transaction that holds its op.
THEOREM PaidOnceHolds == Spec => []PaidOnce
  BY IndInvHolds, IndInvPays, PTL

\* A withdrawal is answered as reverted only if the account cannot pay, an op
\* from outside was sent for it, or its op met one that was left behind.
THEOREM RevertIsDeservedHolds == Spec => []RevertIsDeserved
<1>1. IndInv => RevertIsDeserved
  BY DEF IndInv, RevertInv, Deserved, RevertIsDeserved
<1> QED BY <1>1, IndInvHolds, PTL

LEMMA BaseInvHolds == Spec => []BaseInv
  BY InitBaseInv, NextBaseInv, PTL DEF Spec

\* The requests, the lock, the queue and the accounts keep their types, and
\* every answer is one of the error contract.
THEOREM TypeCorrect == Spec => []TypeOK
  BY BaseInvHolds, BaseInvMeaning, PTL

\* Every op that sendViaAccount enqueues has a positive priority fee within
\* its cap, whatever the node quotes and the environment says.
THEOREM FeeFieldsFitHolds == Spec => []FeeFieldsFit
  BY BaseInvHolds, BaseInvMeaning, PTL
=============================================================================
