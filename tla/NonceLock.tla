----------------------------- MODULE NonceLock -----------------------------
(***************************************************************************)
(* The nonce lock of internal/platform/redis/redis.go: WithNonceLock runs  *)
(* a callback under a keyed mutex of the process and, when Redis is        *)
(* configured, under a SET NX PX lease shared by all processes.            *)
(*                                                                         *)
(* A member of Calls is one invocation of WithNonceLock.  The random token *)
(* of an invocation is unique to it, so the call stands for its own token  *)
(* and lease[k] is the token stored under "lock:"+k.  Time appears only    *)
(* where it decides something: the lease of a running callback can expire  *)
(* iff LockTTL does not exceed FnBound, the longest time from the SET to   *)
(* the end of the callback.                                                *)
(***************************************************************************)
EXTENDS Naturals

CONSTANTS
    Calls,          \* the invocations of WithNonceLock
    Procs,          \* the bundler processes
    Keys,           \* the lock keys, nonce:{chainId}:{address}
    ProcOf,         \* ProcOf[c]: the process in which c runs
    KeyOf,          \* KeyOf[c]: the key c locks
    UseRedis,       \* whether Locker.rdb is non-nil
    RetryCount,     \* retryCount, the number of SET NX attempts
    LockTTL,        \* NONCE_LOCK_TTL_MS, in seconds
    FnBound,        \* the longest a callback holds the lease, in seconds
    NoCall          \* no token stored, no owner of a mutex

ASSUME CallsAssumption ==
    /\ ProcOf \in [Calls -> Procs]
    /\ KeyOf \in [Calls -> Keys]
    /\ NoCall \notin Calls

ASSUME BoundsAssumption ==
    /\ RetryCount \in Nat \ {0}
    /\ LockTTL \in Nat \ {0}
    /\ FnBound \in Nat

\* Without Redis the service is deployed as a single instance.
ASSUME DeploymentAssumption ==
    /\ UseRedis \in BOOLEAN
    /\ UseRedis \/ \A c, d \in Calls : ProcOf[c] = ProcOf[d]

VARIABLES
    pc,         \* pc[c]: where invocation c is
    attempts,   \* attempts[c]: the loop counter i of withRedisLock
    mutex,      \* mutex[p][k]: the call holding process p's mutex of key k
    lease,      \* lease[k]: the token stored in Redis for key k
    lapsed      \* history: the calls whose lease expired during the callback

vars == <<pc, attempts, mutex, lease, lapsed>>

(***************************************************************************)
(* "idle"     not yet called               "fn"       in the callback      *)
(* "mutex"    in m.Lock()                  "release"  in the deferred      *)
(* "acquire"  about to issue SET NX                   release script       *)
(* "backoff"  in the select of the loop    "unlock"   in the deferred      *)
(* "done"     returned                                m.Unlock()           *)
(* "crashed"  its process died                                             *)
(***************************************************************************)
InMutex == {"acquire", "backoff", "fn", "release", "unlock"}
Ended == {"done", "crashed"}
PCs == {"idle", "mutex"} \cup InMutex \cup Ended

\* The lease of a callback that is still running can run out.
MayLapse == UseRedis /\ LockTTL <= FnBound

Goto(c, from, to) ==
    /\ pc[c] = from
    /\ pc' = [pc EXCEPT ![c] = to]

-----------------------------------------------------------------------------
Init ==
    /\ pc = [c \in Calls |-> "idle"]
    /\ attempts = [c \in Calls |-> 0]
    /\ mutex = [p \in Procs |-> [k \in Keys |-> NoCall]]
    /\ lease = [k \in Keys |-> NoCall]
    /\ lapsed = {}

Call(c) ==
    /\ Goto(c, "idle", "mutex")
    /\ UNCHANGED <<attempts, mutex, lease, lapsed>>

\* A mutant: lockLocal hands out a fresh mutex each time.
LockLocalFresh(c) ==
    /\ Goto(c, "mutex", IF UseRedis THEN "acquire" ELSE "fn")
    /\ mutex' = [mutex EXCEPT ![ProcOf[c]][KeyOf[c]] = c]
    /\ UNCHANGED <<attempts, lease, lapsed>>

\* m.Lock() returns; without Redis the callback starts at once.
LockLocal(c) ==
    /\ mutex[ProcOf[c]][KeyOf[c]] = NoCall
    /\ Goto(c, "mutex", IF UseRedis THEN "acquire" ELSE "fn")
    /\ mutex' = [mutex EXCEPT ![ProcOf[c]][KeyOf[c]] = c]
    /\ UNCHANGED <<attempts, lease, lapsed>>

\* randomToken fails: nothing was stored, only the mutex is given back.
TokenFails(c) ==
    /\ attempts[c] = 0
    /\ Goto(c, "acquire", "unlock")
    /\ UNCHANGED <<attempts, mutex, lease, lapsed>>

\* A mutant: SET without NX.
SetWithoutNX(c) ==
    /\ Goto(c, "acquire", "fn")
    /\ lease' = [lease EXCEPT ![KeyOf[c]] = c]
    /\ UNCHANGED <<attempts, mutex, lapsed>>

\* SET NX stores the token and the reply arrives.
SetNX(c) ==
    /\ lease[KeyOf[c]] = NoCall
    /\ Goto(c, "acquire", "fn")
    /\ lease' = [lease EXCEPT ![KeyOf[c]] = c]
    /\ UNCHANGED <<attempts, mutex, lapsed>>

\* The key is taken, possibly by this very token (SetNXLostReply).
SetNXTaken(c) ==
    /\ lease[KeyOf[c]] # NoCall
    /\ Goto(c, "acquire", "backoff")
    /\ UNCHANGED <<attempts, mutex, lease, lapsed>>

\* SET NX stores the token, its reply is lost and the Redis client's own
\* second try finds the key taken.
SetNXLostReply(c) ==
    /\ lease[KeyOf[c]] = NoCall
    /\ Goto(c, "acquire", "backoff")
    /\ lease' = [lease EXCEPT ![KeyOf[c]] = c]
    /\ UNCHANGED <<attempts, mutex, lapsed>>

\* The client reports an error.  The command may still have been executed;
\* WithNonceLock returns before the release is deferred.
SetNXError(c) ==
    /\ Goto(c, "acquire", "unlock")
    /\ lease' \in { lease,
                    [lease EXCEPT ![KeyOf[c]] = IF @ = NoCall THEN c ELSE @] }
    /\ UNCHANGED <<attempts, mutex, lapsed>>

\* A mutant: one attempt too many.
RetryOnceMore(c) ==
    /\ attempts' = [attempts EXCEPT ![c] = @ + 1]
    /\ Goto(c, "backoff", IF attempts'[c] <= RetryCount THEN "acquire"
                                                        ELSE "unlock")
    /\ UNCHANGED <<mutex, lease, lapsed>>

\* A mutant: the loop has no bound.
RetryForever(c) ==
    /\ Goto(c, "backoff", "acquire")
    /\ UNCHANGED <<attempts, mutex, lease, lapsed>>

\* time.After(retryDelay) fires: next attempt, or "failed to acquire".
RetryTimer(c) ==
    /\ attempts' = [attempts EXCEPT ![c] = @ + 1]
    /\ Goto(c, "backoff", IF attempts'[c] < RetryCount THEN "acquire"
                                                       ELSE "unlock")
    /\ UNCHANGED <<mutex, lease, lapsed>>

\* ctx.Done() is ready before the timer.
CtxDone(c) ==
    /\ Goto(c, "backoff", "unlock")
    /\ UNCHANGED <<attempts, mutex, lease, lapsed>>

FnReturns(c) ==
    /\ Goto(c, "fn", IF UseRedis THEN "release" ELSE "unlock")
    /\ UNCHANGED <<attempts, mutex, lease, lapsed>>

\* A mutant: plain DEL instead of the release script.
ReleaseUnchecked(c) ==
    /\ Goto(c, "release", "unlock")
    /\ lease' = [lease EXCEPT ![KeyOf[c]] = NoCall]
    /\ UNCHANGED <<attempts, mutex, lapsed>>

\* The release script deletes the key only if it still holds c's token.
Release(c) ==
    /\ Goto(c, "release", "unlock")
    /\ lease' = [lease EXCEPT ![KeyOf[c]] = IF @ = c THEN NoCall ELSE @]
    /\ UNCHANGED <<attempts, mutex, lapsed>>

\* The script does not reach Redis within 2 s; its error is dropped.
ReleaseFails(c) ==
    /\ Goto(c, "release", "unlock")
    /\ UNCHANGED <<attempts, mutex, lease, lapsed>>

\* The deferred m.Unlock(); WithNonceLock returns.
Unlock(c) ==
    /\ Goto(c, "unlock", "done")
    /\ mutex' = [mutex EXCEPT ![ProcOf[c]][KeyOf[c]] = NoCall]
    /\ UNCHANGED <<attempts, lease, lapsed>>

\* A mutant: the lease is stored without an expiry.
ExpireNever(k) == FALSE /\ UNCHANGED vars

\* Redis drops the key of a lease whose TTL is over.
Expire(k) ==
    LET h == lease[k] IN
    /\ h # NoCall
    /\ pc[h] = "fn" => MayLapse
    /\ lease' = [lease EXCEPT ![k] = NoCall]
    /\ lapsed' = IF pc[h] = "fn" THEN lapsed \cup {h} ELSE lapsed
    /\ UNCHANGED <<pc, attempts, mutex>>

\* Process p dies with its mutexes and restarts; Redis keeps its leases.
Crash(p) ==
    LET hit == {c \in Calls : ProcOf[c] = p /\ pc[c] \notin {"idle"} \cup Ended}
    IN
    /\ hit # {}
    /\ pc' = [c \in Calls |-> IF c \in hit THEN "crashed" ELSE pc[c]]
    /\ mutex' = [mutex EXCEPT ![p] = [k \in Keys |-> NoCall]]
    /\ UNCHANGED <<attempts, lease, lapsed>>

-----------------------------------------------------------------------------
\* The steps by which invocation c moves on once it was made.
Acquisition(c) ==
    \/ TokenFails(c) \/ SetNX(c) \/ SetNXTaken(c)
    \/ SetNXLostReply(c) \/ SetNXError(c)

Waiting(c) == RetryTimer(c) \/ CtxDone(c)

Releasing(c) == Release(c) \/ ReleaseFails(c)

Step(c) ==
    \/ LockLocal(c) \/ Acquisition(c) \/ Waiting(c)
    \/ FnReturns(c) \/ Releasing(c) \/ Unlock(c)

Next ==
    \/ \E c \in Calls : Call(c) \/ Step(c)
    \/ \E k \in Keys : Expire(k)
    \/ \E p \in Procs : Crash(p)

\* Go runs every runnable goroutine, the callbacks end (their waits have
\* deadlines) and Redis expires every lease; nothing makes a call be issued.
Fairness ==
    /\ \A c \in Calls : WF_vars(Step(c))
    /\ \A k \in Keys : WF_vars(Expire(k))

Spec == Init /\ [][Next]_vars

FairSpec == Spec /\ Fairness

-----------------------------------------------------------------------------
\* Every call is at a step of WithNonceLock, mutexes and leases name calls, and
\* the loop makes at most RetryCount attempts.
TypeOK ==
    /\ pc \in [Calls -> PCs]
    /\ attempts \in [Calls -> 0 .. RetryCount]
    /\ mutex \in [Procs -> [Keys -> Calls \cup {NoCall}]]
    /\ lease \in [Keys -> Calls \cup {NoCall}]
    /\ lapsed \subseteq Calls

InFn == {c \in Calls : pc[c] = "fn"}

\* No two callbacks on one key at a time, across all processes: what
\* redis.go, batcher.go and tx.go rely on for the nonce line of a wallet.
MutualExclusion ==
    \A c, d \in InFn : c # d => KeyOf[c] # KeyOf[d]

\* Two callbacks on one key overlap only if the lease of one expired under
\* it: neither a late release, a lost reply, a dropped release error nor a
\* crash may let a second callback in.
ExclusionUnlessLapsed ==
    \A c, d \in InFn \ lapsed : c # d => KeyOf[c] # KeyOf[d]

\* Inside one process the keyed mutex excludes even after a lease lapsed.
LocalExclusion ==
    \A c, d \in InFn :
        c # d => <<ProcOf[c], KeyOf[c]>> # <<ProcOf[d], KeyOf[d]>>

\* Every call returns (or dies with its process): neither the mutex queue
\* nor the bounded SET NX loop can hold a request for ever.
EveryCallReturns ==
    \A c \in Calls : pc[c] # "idle" ~> pc[c] \in Ended

\* A key never stays locked: leases left behind by a crash, a lost reply or
\* a failed release run out.
LeaseRecovers ==
    \A k \in Keys : lease[k] # NoCall ~> lease[k] = NoCall

\* The locker gives its callers what LeaseLock promises.
Promise == INSTANCE LeaseLock WITH
    live <- InFn \ lapsed,
    zombies <- InFn \cap lapsed

Refinement == Promise!Spec
=============================================================================
