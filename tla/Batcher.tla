------------------------------ MODULE Batcher ------------------------------
(***************************************************************************)
(* internal/userop/batcher.go for one chain: requests put their UserOps    *)
(* into the chain's channel, one dispatcher gathers batches and starts at  *)
(* most one flush per wallet of the pool, a flush submits its batch as one *)
(* handleOps transaction and, if that fails, op by op.                     *)
(*                                                                         *)
(* A member of Ops is one call of Enqueue with its op; ops are distinct.   *)
(* A flush is named by the first op of its batch, a submission by <<f, i>>: *)
(* i = 0 is the whole batch of f, i > 0 its i-th op alone.                 *)
(***************************************************************************)
EXTENDS Naturals, Sequences, FiniteSets, Functions

CONSTANTS
    Ops,        \* the calls of Enqueue
    Wallets,    \* the pool
    MaxBatch,   \* maxBatchSize
    ChanCap,    \* the channel's capacity, 2 * maxBatchSize
    NoOp        \* nobody holds Batcher.mu

ASSUME BatcherAssumption ==
    /\ IsFiniteSet(Ops)
    /\ NoOp \notin Ops
    /\ IsFiniteSet(Wallets)
    /\ MaxBatch \in Nat \ {0}
    /\ ChanCap \in Nat \ {0}

VARIABLES
    req,        \* req[o]: where Enqueue is
    mu,         \* the request that holds Batcher.mu while it loads the pool
    started,    \* whether the chain has its queue and dispatcher
    ch,         \* chainQueue.ch
    disp,       \* the dispatcher: [pc, batch]
    flush,      \* flush[f]: the flush whose batch starts with op f
    res,        \* res[o]: the buffer of queuedOp.res, of capacity 1
    line,       \* line[w]: the pending transactions of wallet w, by nonce
    mined,      \* the transactions in blocks
    executed,   \* the ops a successful handleOps executed
    bad,        \* the ops that no longer validate (balance, account nonce)
    sends,      \* history, sends[o]: transactions holding o the node took
    unsure,     \* history: ops in a transaction taken but answered by an error
    faulted     \* history: ops whose submission alone met an outage

requestVars == <<req, mu, started>>
chainVars == <<line, mined, executed, bad>>
history == <<sends, unsure, faulted>>
vars == <<req, mu, started, ch, disp, flush, res,
          line, mined, executed, bad, sends, unsure, faulted>>

Answers == {"ok", "err"}
Running == {"lock", "submit", "wait", "answer"}

\* The ops of submission <<f, i>>.
OpsOf(f, i) == IF i = 0 THEN Range(flush[f].ops) ELSE {flush[f].ops[i]}

CurrentOps(f) == OpsOf(f, flush[f].i)

Idle == [pc |-> "none", ops |-> <<>>, wallet |-> NoOp, i |-> 0,
         whole |-> FALSE, out |-> "err"]

InFlight == {f \in Ops : flush[f].pc \in Running}

-----------------------------------------------------------------------------
Init ==
    /\ req = [o \in Ops |-> "idle"]
    /\ mu = NoOp
    /\ started = FALSE
    /\ ch = <<>>
    /\ disp = [pc |-> "recv", batch |-> <<>>]
    /\ flush = [o \in Ops |-> Idle]
    /\ res = [o \in Ops |-> <<>>]
    /\ line = [w \in Wallets |-> <<>>]
    /\ mined = {}
    /\ executed = {}
    /\ bad = {}
    /\ sends = [o \in Ops |-> 0]
    /\ unsure = {}
    /\ faulted = {}

(***************************************************************************)
(* Enqueue                                                                 *)
(***************************************************************************)
Goto(o, from, to) ==
    /\ req[o] = from
    /\ req' = [req EXCEPT ![o] = to]

\* queueFor finds the queue, or starts to load the pool holding Batcher.mu.
QueueFor(o) ==
    /\ mu = NoOp
    /\ Goto(o, "idle", IF started THEN "offer" ELSE "load")
    /\ mu' = IF started THEN NoOp ELSE o
    /\ UNCHANGED <<started, ch, disp, flush, res, chainVars, history>>

PoolLoaded(o) ==
    /\ Goto(o, "load", "offer")
    /\ started' = TRUE
    /\ mu' = NoOp
    /\ UNCHANGED <<ch, disp, flush, res, chainVars, history>>

PoolFails(o) ==
    /\ Goto(o, "load", "refused")
    /\ mu' = NoOp
    /\ UNCHANGED <<started, ch, disp, flush, res, chainVars, history>>

\* cq.ch <- q
Offer(o) ==
    /\ Len(ch) < ChanCap
    /\ Goto(o, "offer", "wait")
    /\ ch' = Append(ch, o)
    /\ UNCHANGED <<mu, started, disp, flush, res, chainVars, history>>

\* r := <-q.res
Receive(o) ==
    /\ res[o] # <<>>
    /\ Goto(o, "wait", Head(res[o]))
    /\ res' = [res EXCEPT ![o] = Tail(@)]
    /\ UNCHANGED <<mu, started, ch, disp, flush, chainVars, history>>

\* ctx.Done() while offering or waiting; an op in the channel stays there.
Cancel(o) ==
    /\ Goto(o, "offer", "cancelled") \/ Goto(o, "wait", "cancelled")
    /\ UNCHANGED <<mu, started, ch, disp, flush, res, chainVars, history>>

(***************************************************************************)
(* dispatch                                                                *)
(***************************************************************************)
First ==
    /\ started
    /\ disp.pc = "recv"
    /\ ch # <<>>
    /\ disp' = [pc |-> "drain", batch |-> <<Head(ch)>>]
    /\ ch' = Tail(ch)
    /\ UNCHANGED <<requestVars, flush, res, chainVars, history>>

\* A mutant: the batch size is looked at after the receive.
DrainLosesOp ==
    /\ disp.pc = "drain"
    /\ ch # <<>>
    /\ disp' = [disp EXCEPT !.batch = IF Len(@) < MaxBatch
                                      THEN Append(@, Head(ch)) ELSE @]
    /\ ch' = Tail(ch)
    /\ UNCHANGED <<requestVars, flush, res, chainVars, history>>

\* A mutant: the batch may grow to one more than maxBatchSize.
DrainOneMore ==
    /\ disp.pc = "drain"
    /\ Len(disp.batch) <= MaxBatch
    /\ ch # <<>>
    /\ disp' = [disp EXCEPT !.batch = Append(@, Head(ch))]
    /\ ch' = Tail(ch)
    /\ UNCHANGED <<requestVars, flush, res, chainVars, history>>

Drain ==
    /\ disp.pc = "drain"
    /\ Len(disp.batch) < MaxBatch
    /\ ch # <<>>
    /\ disp' = [disp EXCEPT !.batch = Append(@, Head(ch))]
    /\ ch' = Tail(ch)
    /\ UNCHANGED <<requestVars, flush, res, chainVars, history>>

Drained ==
    /\ disp.pc = "drain"
    /\ Len(disp.batch) >= MaxBatch \/ ch = <<>>
    /\ disp' = [disp EXCEPT !.pc = "sem"]
    /\ UNCHANGED <<requestVars, ch, flush, res, chainVars, history>>

\* cq.sem <- struct{}{} and go flush.  The cursor is shared with the other
\* processes and falls back to wallet 0, so any wallet may come up.
StartFlush(w) ==
    /\ disp.pc = "sem"
    /\ Cardinality(InFlight) < Cardinality(Wallets)
    /\ flush' = [flush EXCEPT ![Head(disp.batch)] =
                    [Idle EXCEPT !.pc = "lock", !.ops = disp.batch,
                                 !.wallet = w]]
    /\ disp' = [pc |-> "recv", batch |-> <<>>]
    /\ UNCHANGED <<requestVars, ch, res, chainVars, history>>

(***************************************************************************)
(* flush                                                                   *)
(***************************************************************************)
\* The process-local mutex of the wallet, which is waited for without limit.
MutexFree(w) ==
    \A g \in Ops : flush[g].wallet = w => flush[g].pc \notin {"submit", "wait"}

\* WithNonceLock runs the callback.
Locked(f) ==
    /\ flush[f].pc = "lock"
    /\ MutexFree(flush[f].wallet)
    /\ flush' = [flush EXCEPT ![f].pc = "submit"]
    /\ UNCHANGED <<requestVars, ch, disp, res, chainVars, history>>

\* A mutant: a failed batch is answered as it is.
SettleAll(f, r) ==
    flush' = [flush EXCEPT ![f].pc = "answer", ![f].out = r,
                           ![f].whole = (@ \/ flush[f].i = 0),
                           ![f].i = IF @ = 0 THEN 1 ELSE @]

\* A mutant: every batch of several ops is sent op by op afterwards.
SettleResends(f, r) ==
    LET F == flush[f] IN
    flush' = [flush EXCEPT ![f] =
        IF F.i = 0 /\ Len(F.ops) > 1
        THEN [F EXCEPT !.pc = "lock", !.i = 1]
        ELSE [F EXCEPT !.pc = "answer", !.out = r, !.whole = (F.i = 0),
                       !.i = IF @ = 0 THEN 1 ELSE @]]

\* A mutant: the individual retries answer the batch's error (err for e).
SettleShadowed(f, r) ==
    LET F == flush[f] IN
    flush' = [flush EXCEPT ![f] =
        IF F.i = 0 /\ r = "err" /\ Len(F.ops) > 1
        THEN [F EXCEPT !.pc = "lock", !.i = 1]
        ELSE [F EXCEPT !.pc = "answer", !.whole = (F.i = 0),
                       !.out = IF F.i = 0 THEN r ELSE "err",
                       !.i = IF @ = 0 THEN 1 ELSE @]]

\* sendUnderLock returns r: a failed batch of several ops is sent again op
\* by op, anything else is answered.
Settle(f, r) ==
    LET F == flush[f] IN
    flush' = [flush EXCEPT ![f] =
        IF F.i = 0 /\ r = "err" /\ Len(F.ops) > 1
        THEN [F EXCEPT !.pc = "lock", !.i = 1]
        ELSE [F EXCEPT !.pc = "answer", !.out = r, !.whole = (F.i = 0),
                       !.i = IF @ = 0 THEN 1 ELSE @]]

Alone(f) == IF Cardinality(CurrentOps(f)) = 1 THEN CurrentOps(f) ELSE {}

\* The Redis lock is not obtained, or the node is out of reach before it has
\* the transaction.
Outage(f) ==
    /\ \/ flush[f].pc = "lock" /\ MutexFree(flush[f].wallet)
       \/ flush[f].pc = "submit"
    /\ Settle(f, "err")
    /\ faulted' = faulted \cup Alone(f)
    /\ UNCHANGED <<requestVars, ch, disp, res, chainVars, sends, unsure>>

Pending == UNION {UNION {OpsOf(t[1], t[2]) : t \in Range(line[w])} :
                     w \in Wallets}

\* Gas estimation in Transact runs handleOps: it reverts as a whole if one
\* op does not validate, on the latest state or on the pending one.
EstimateReverts(f) ==
    /\ flush[f].pc = "submit"
    /\ CurrentOps(f) \cap (bad \cup executed \cup Pending) # {}
    /\ Settle(f, "err")
    /\ UNCHANGED <<requestVars, ch, disp, res, chainVars, history>>

Sent(f) ==
    /\ flush[f].pc = "submit"
    /\ CurrentOps(f) \cap (bad \cup executed) = {}
    /\ line' = [line EXCEPT ![flush[f].wallet] =
                    Append(@, <<f, flush[f].i>>)]
    /\ sends' = [o \in Ops |-> IF o \in CurrentOps(f) THEN sends[o] + 1
                                                      ELSE sends[o]]

\* The node takes the transaction.
Broadcast(f) ==
    /\ Sent(f)
    /\ flush' = [flush EXCEPT ![f].pc = "wait"]
    /\ UNCHANGED <<requestVars, ch, disp, res, mined, executed, bad,
                   unsure, faulted>>

\* The node takes the transaction but Transact returns an error.
BroadcastLostReply(f) ==
    /\ Sent(f)
    /\ Settle(f, "err")
    /\ unsure' = unsure \cup CurrentOps(f)
    /\ faulted' = faulted \cup Alone(f)
    /\ UNCHANGED <<requestVars, ch, disp, res, mined, executed, bad>>

\* WaitMined finds the receipt, whatever its status.
WaitMined(f) ==
    /\ flush[f].pc = "wait"
    /\ <<f, flush[f].i>> \in mined
    /\ Settle(f, "ok")
    /\ UNCHANGED <<requestVars, ch, disp, res, chainVars, history>>

\* txWaitTimeout passes, or the node fails: the transaction stays pending.
WaitTimeout(f) ==
    /\ flush[f].pc = "wait"
    /\ Settle(f, "err")
    /\ unsure' = unsure \cup CurrentOps(f)
    /\ faulted' = faulted \cup Alone(f)
    /\ UNCHANGED <<requestVars, ch, disp, res, chainVars, sends>>

\* A mutant: after the individual retries all ops are answered once more with
\* the error of the batch.
AnswerTwice(f) ==
    LET F == flush[f]
        o == F.ops[F.i]
    IN
    /\ F.pc = "answer"
    /\ res[o] = <<>>
    /\ res' = [res EXCEPT ![o] = Append(@, F.out)]
    /\ flush' = [flush EXCEPT ![f] =
            IF F.i < Len(F.ops)
            THEN [F EXCEPT !.i = @ + 1,
                           !.pc = IF F.whole THEN "answer" ELSE "lock"]
            ELSE IF F.whole THEN [F EXCEPT !.pc = "done"]
            ELSE [F EXCEPT !.i = 1, !.whole = TRUE, !.out = "err"]]
    /\ UNCHANGED <<requestVars, ch, disp, chainVars, history>>

\* A mutant: queuedOp.res has no buffer.
AnswerUnbuffered(f) ==
    LET F == flush[f]
        o == F.ops[F.i]
    IN
    /\ F.pc = "answer"
    /\ req[o] = "wait"
    /\ res' = [res EXCEPT ![o] = Append(@, F.out)]
    /\ flush' = [flush EXCEPT ![f] =
            IF F.i = Len(F.ops) THEN [F EXCEPT !.pc = "done"]
            ELSE [F EXCEPT !.i = @ + 1,
                           !.pc = IF F.whole THEN "answer" ELSE "lock"]]
    /\ UNCHANGED <<requestVars, ch, disp, chainVars, history>>

\* q.res <- opResult for one op; after the last one the flush returns and
\* its slot of the semaphore is free.
Answer(f) ==
    LET F == flush[f]
        o == F.ops[F.i]
    IN
    /\ F.pc = "answer"
    /\ res[o] = <<>>
    /\ res' = [res EXCEPT ![o] = Append(@, F.out)]
    /\ flush' = [flush EXCEPT ![f] =
            IF F.i = Len(F.ops) THEN [F EXCEPT !.pc = "done"]
            ELSE [F EXCEPT !.i = @ + 1,
                           !.pc = IF F.whole THEN "answer" ELSE "lock"]]
    /\ UNCHANGED <<requestVars, ch, disp, chainVars, history>>

(***************************************************************************)
(* The chain (external)                                                    *)
(***************************************************************************)
\* The next transaction of a wallet is mined.  handleOps reverts as a whole
\* if one of its ops does not validate any more.
Mine(w) ==
    LET t == Head(line[w])
        S == OpsOf(t[1], t[2])
    IN
    /\ line[w] # <<>>
    /\ line' = [line EXCEPT ![w] = Tail(@)]
    /\ mined' = mined \cup {t}
    /\ executed' = IF S \cap (bad \cup executed) = {} THEN executed \cup S
                                                      ELSE executed
    /\ UNCHANGED <<requestVars, ch, disp, flush, res, bad, history>>

\* Something else on the chain makes the op invalid.
Spoil(o) ==
    /\ o \notin bad \cup executed
    /\ bad' = bad \cup {o}
    /\ UNCHANGED <<requestVars, ch, disp, flush, res, line, mined, executed,
                   history>>

-----------------------------------------------------------------------------
Request(o) ==
    QueueFor(o) \/ PoolLoaded(o) \/ PoolFails(o) \/ Offer(o) \/ Receive(o)

Dispatch == First \/ Drain \/ Drained \/ (\E w \in Wallets : StartFlush(w))

Flush(f) ==
    \/ Locked(f) \/ Outage(f) \/ EstimateReverts(f) \/ Broadcast(f)
    \/ BroadcastLostReply(f) \/ WaitMined(f) \/ WaitTimeout(f) \/ Answer(f)

Next ==
    \/ \E o \in Ops : Request(o) \/ Cancel(o)
    \/ Dispatch
    \/ \E f \in Ops : Flush(f)
    \/ \E w \in Wallets : Mine(w)
    \/ \E o \in Ops : Spoil(o)

\* Goroutines run when they can; every wait of a flush has a deadline.  No
\* fairness for the chain, for cancellation or for making a request.
Fairness ==
    /\ \A o \in Ops : WF_vars(req[o] # "idle" /\ Request(o))
    /\ WF_vars(Dispatch)
    /\ \A f \in Ops : WF_vars(Flush(f))

Spec == Init /\ [][Next]_vars

FairSpec == Spec /\ Fairness

-----------------------------------------------------------------------------
\* Requests, dispatcher, flushes and the chain have their types; the channel,
\* a batch and a result channel never hold more than they have room for.
TypeOK ==
    /\ req \in [Ops -> {"idle", "load", "offer", "wait", "cancelled",
                        "refused"} \cup Answers]
    /\ mu \in Ops \cup {NoOp}
    /\ started \in BOOLEAN
    /\ ch \in Seq(Ops) /\ Len(ch) <= ChanCap
    /\ disp \in [pc : {"recv", "drain", "sem"}, batch : Seq(Ops)]
    /\ Len(disp.batch) <= MaxBatch
    /\ flush \in [Ops -> [pc : {"none", "done"} \cup Running,
                          ops : Seq(Ops), wallet : Wallets \cup {NoOp},
                          i : 0 .. MaxBatch, whole : BOOLEAN, out : Answers]]
    /\ res \in [Ops -> Seq(Answers)] /\ \A o \in Ops : Len(res[o]) <= 1
    /\ line \in [Wallets -> Seq(Ops \X (0 .. MaxBatch))]
    /\ mined \subseteq Ops \X (0 .. MaxBatch)
    /\ executed \subseteq Ops /\ bad \subseteq Ops
    /\ sends \in [Ops -> Nat]
    /\ unsure \subseteq Ops /\ faulted \subseteq Ops

\* The ops of a flush that have no answer yet.
Unanswered(f) ==
    LET F == flush[f] IN
    IF f \notin InFlight THEN {}
    ELSE {F.ops[j] : j \in (IF F.i = 0 THEN 1 ELSE F.i) .. Len(F.ops)}

\* How often op o waits somewhere in the batcher.
Places(o) ==
    Cardinality({j \in DOMAIN ch : ch[j] = o})
    + Cardinality({j \in DOMAIN disp.batch : disp.batch[j] = o})
    + Cardinality({f \in Ops : o \in Unanswered(f)})

\* An op that was queued is in exactly one place, the channel, the gathered
\* batch or one flush, until it is answered, and then in none: no op is lost
\* or handled twice, whatever fails and whoever cancels.
OpInOnePlace ==
    \A o \in Ops :
        /\ Places(o) <= 1
        /\ req[o] = "wait" => Places(o) + Len(res[o]) = 1
        /\ req[o] \in {"idle", "load", "offer"} => Places(o) + Len(res[o]) = 0

\* A flush never blocks on the result channel of a request that has gone:
\* the one place in its buffer is free when the flush writes.
AnswerNeverBlocks ==
    \A f \in Ops :
        flush[f].pc = "answer" => res[flush[f].ops[flush[f].i]] = <<>>

\* The request of op o is answered r, read or not.
Answered(o, r) == r \in Range(res[o]) \/ req[o] = r

\* One op that does not validate fails alone: a request is answered with an
\* error only for its own op, for an outage while its op was sent alone, or
\* because a transaction with its op is out that was given up.
FailureIsIsolated ==
    \A o \in Ops : Answered(o, "err") => o \in bad \cup faulted \cup unsure

\* An op goes into a second transaction only if the first one was taken but
\* not answered in time, and never into a third.
ResentOnlyIfUnsure ==
    \A o \in Ops : sends[o] > 1 => o \in unsure /\ sends[o] = 2

\* The ops of flush f that it may still send: the batch until it is settled,
\* then the ops that have their turn alone.
ToSend(f) ==
    LET F == flush[f]
        from == IF F.i = 0 THEN 1
                ELSE IF F.pc \in {"lock", "submit"} THEN F.i ELSE F.i + 1
    IN  IF f \notin InFlight \/ (F.pc = "answer" /\ F.whole) THEN {}
        ELSE {F.ops[j] : j \in from .. Len(F.ops)}

Outstanding ==
    (Range(ch) \cup Range(disp.batch) \cup Pending
        \cup UNION {ToSend(f) : f \in Ops}) \ executed

\* What Enqueue has returned, as its caller sees it.
Returned(o) ==
    CASE req[o] \in {"idle", "load", "offer"} -> "none"
      [] req[o] = "refused" -> "err"
      [] OTHER -> req[o]

Queue == INSTANCE OpQueue WITH
    answer <- [o \in Ops |-> Returned(o)], out <- Outstanding

\* The batcher implements the promise its callers build on: whatever fails,
\* an op is out, executed or settled, and answers come as OpQueue says.
Refinement == Queue!Spec

\* An error is final, the op will not be executed, unless its transaction
\* was given up while it was pending.
ErrorIsFinal ==
    \A o \in Ops : Answered(o, "err") /\ o \notin unsure
                        => o \notin executed \cup Pending

\* Every request that offers its op to the channel, full or not, gets it in and
\* is answered, unless it is cancelled, even if nothing is ever mined.
EveryOpAnswered ==
    \A o \in Ops : req[o] \in {"offer", "wait"}
                        ~> req[o] \notin {"offer", "wait"}

\* Every queued op is submitted and settled, the ops of cancelled requests
\* too: a requester that has gone holds up neither its flush nor the queue.
EveryOpSettled ==
    \A o \in Ops : Places(o) = 1 ~> Places(o) = 0
=============================================================================
