-------------------------- MODULE NonceLockProofs --------------------------
(***************************************************************************)
(* Proofs about the nonce lock for every number of calls, processes and    *)
(* keys and for every retry count, lease time and callback time.           *)
(***************************************************************************)
EXTENDS NonceLock, TLAPS

\* A call past lockLocal owns the mutex of its process and key.
MutexHeld ==
    \A c \in Calls : pc[c] \in InMutex => mutex[ProcOf[c]][KeyOf[c]] = c

\* A callback that runs under Redis has the lease, unless it lapsed.
LeaseHeld ==
    UseRedis => \A c \in InFn : c \in lapsed \/ lease[KeyOf[c]] = c

\* The loop of withRedisLock is entered only with attempts left.
AttemptsLeft ==
    \A c \in Calls : pc[c] \in {"idle", "mutex", "acquire", "backoff"}
                        => attempts[c] < RetryCount

\* withRedisLock runs only when there is a Redis client.
RedisOnly ==
    \A c \in Calls : pc[c] \in {"acquire", "backoff", "release"} => UseRedis

\* Leases lapse only under a callback that started, and only if they can.
LapsedStarted ==
    \A c \in lapsed :
        /\ MayLapse
        /\ pc[c] \in {"fn", "release", "unlock"} \cup Ended

IndInv ==
    /\ TypeOK
    /\ MutexHeld
    /\ LeaseHeld
    /\ AttemptsLeft
    /\ RedisOnly
    /\ LapsedStarted

USE CallsAssumption, BoundsAssumption, DeploymentAssumption

-----------------------------------------------------------------------------
LEMMA InitIndInv == Init => IndInv
  BY DEF Init, IndInv, TypeOK, MutexHeld, LeaseHeld, AttemptsLeft, RedisOnly,
         LapsedStarted, PCs, InMutex, Ended, InFn

\* Types are preserved; the loop counter needs AttemptsLeft.
LEMMA TypeStep ==
  ASSUME IndInv, [Next]_vars
  PROVE  TypeOK'
<1> USE DEF IndInv, TypeOK, PCs, InMutex, Ended
<1>1. ASSUME NEW c \in Calls, Call(c) \/ FnReturns(c)
      PROVE  TypeOK'
  BY <1>1 DEF Call, FnReturns, Goto
<1>2. ASSUME NEW c \in Calls, LockLocal(c) \/ Unlock(c)
      PROVE  TypeOK'
  <2>1. pc' \in [Calls -> PCs]
    BY <1>2 DEF LockLocal, Unlock, Goto
  <2>2. mutex' \in [Procs -> [Keys -> Calls \cup {NoCall}]]
    <3> DEFINE row == mutex[ProcOf[c]]
    <3>1. PICK v \in Calls \cup {NoCall} :
             mutex' = [mutex EXCEPT ![ProcOf[c]] = [row EXCEPT ![KeyOf[c]] = v]]
      BY <1>2 DEF LockLocal, Unlock
    <3>2. [row EXCEPT ![KeyOf[c]] = v] \in [Keys -> Calls \cup {NoCall}]
      OBVIOUS
    <3> QED
      BY <3>1, <3>2
  <2> QED
    BY <1>2, <2>1, <2>2 DEF LockLocal, Unlock
<1>3. ASSUME NEW c \in Calls, Acquisition(c)
      PROVE  TypeOK'
  <2>1. pc' \in [Calls -> PCs] /\ UNCHANGED <<attempts, mutex, lapsed>>
    BY <1>3 DEF Acquisition, TokenFails, SetNX, SetNXTaken, SetNXLostReply,
                SetNXError, Goto
  <2>2. lease' \in { lease, [lease EXCEPT ![KeyOf[c]] = c] }
    BY <1>3 DEF Acquisition, TokenFails, SetNX, SetNXTaken, SetNXLostReply,
                SetNXError
  <2>3. lease' \in [Keys -> Calls \cup {NoCall}]
    BY <2>2
  <2> QED
    BY <2>1, <2>3
<1>4. ASSUME NEW c \in Calls, Waiting(c)
      PROVE  TypeOK'
  BY <1>4 DEF Waiting, RetryTimer, CtxDone, Goto, AttemptsLeft
<1>5. ASSUME NEW c \in Calls, Releasing(c)
      PROVE  TypeOK'
  <2>1. pc' \in [Calls -> PCs] /\ UNCHANGED <<attempts, mutex, lapsed>>
    BY <1>5 DEF Releasing, Release, ReleaseFails, Goto
  <2>2. lease' \in { lease, [lease EXCEPT ![KeyOf[c]] = NoCall] }
    BY <1>5 DEF Releasing, Release, ReleaseFails
  <2>3. lease' \in [Keys -> Calls \cup {NoCall}]
    BY <2>2
  <2> QED
    BY <2>1, <2>3
<1>6. ASSUME NEW k \in Keys, Expire(k)
      PROVE  TypeOK'
  BY <1>6 DEF Expire
<1>7. ASSUME NEW p \in Procs, Crash(p)
      PROVE  TypeOK'
  BY <1>7 DEF Crash
<1>8. CASE UNCHANGED vars
  BY <1>8 DEF vars
<1> QED
  BY <1>1, <1>2, <1>3, <1>4, <1>5, <1>6, <1>7, <1>8 DEF Next, Step

\* One call at a time owns a mutex, and a crash clears only its own process.
LEMMA MutexStep ==
  ASSUME IndInv, [Next]_vars
  PROVE  MutexHeld'
<1> USE DEF IndInv, TypeOK, PCs, InMutex, Ended, MutexHeld
<1>1. ASSUME NEW c \in Calls, Call(c) \/ LockLocal(c) \/ FnReturns(c)
      PROVE  MutexHeld'
  BY <1>1 DEF Call, LockLocal, FnReturns, Goto
<1>2. ASSUME NEW c \in Calls, Unlock(c)
      PROVE  MutexHeld'
  BY <1>2 DEF Unlock, Goto
<1>3. ASSUME NEW c \in Calls, Acquisition(c) \/ Waiting(c) \/ Releasing(c)
      PROVE  MutexHeld'
  BY <1>3 DEF Acquisition, TokenFails, SetNX, SetNXTaken, SetNXLostReply,
              SetNXError, Waiting, RetryTimer, CtxDone, Releasing, Release,
              ReleaseFails, Goto
<1>4. ASSUME NEW k \in Keys, Expire(k)
      PROVE  MutexHeld'
  BY <1>4 DEF Expire
<1>5. ASSUME NEW p \in Procs, Crash(p)
      PROVE  MutexHeld'
  BY <1>5 DEF Crash
<1>6. CASE UNCHANGED vars
  BY <1>6 DEF vars
<1> QED
  BY <1>1, <1>2, <1>3, <1>4, <1>5, <1>6 DEF Next, Step

\* A stored token changes only by SET NX on a free key, by the release of
\* its own call, or by expiry, which is recorded in lapsed.
LEMMA LeaseStep ==
  ASSUME IndInv, [Next]_vars
  PROVE  LeaseHeld'
<1> USE DEF IndInv, TypeOK, PCs, InMutex, Ended, LeaseHeld, InFn
<1>1. ASSUME NEW c \in Calls, Call(c) \/ LockLocal(c) \/ FnReturns(c) \/ Unlock(c)
      PROVE  LeaseHeld'
  BY <1>1 DEF Call, LockLocal, FnReturns, Unlock, Goto
<1>2. ASSUME NEW c \in Calls, Acquisition(c)
      PROVE  LeaseHeld'
  BY <1>2 DEF Acquisition, TokenFails, SetNX, SetNXTaken, SetNXLostReply,
              SetNXError, Goto
<1>3. ASSUME NEW c \in Calls, Waiting(c) \/ Releasing(c)
      PROVE  LeaseHeld'
  BY <1>3 DEF Waiting, RetryTimer, CtxDone, Releasing, Release, ReleaseFails,
              Goto
<1>4. ASSUME NEW k \in Keys, Expire(k)
      PROVE  LeaseHeld'
  BY <1>4 DEF Expire
<1>5. ASSUME NEW p \in Procs, Crash(p)
      PROVE  LeaseHeld'
  BY <1>5 DEF Crash
<1>6. CASE UNCHANGED vars
  BY <1>6 DEF vars
<1> QED
  BY <1>1, <1>2, <1>3, <1>4, <1>5, <1>6 DEF Next, Step

LEMMA ControlStep ==
  ASSUME IndInv, [Next]_vars
  PROVE  AttemptsLeft' /\ RedisOnly' /\ LapsedStarted'
<1> USE DEF IndInv, TypeOK, PCs, InMutex, Ended, AttemptsLeft, RedisOnly,
            LapsedStarted
<1> DEFINE Control == AttemptsLeft /\ RedisOnly /\ LapsedStarted
<1>1. ASSUME NEW c \in Calls, Call(c) \/ LockLocal(c) \/ FnReturns(c) \/ Unlock(c)
      PROVE  Control'
  BY <1>1 DEF Call, LockLocal, FnReturns, Unlock, Goto
<1>2. ASSUME NEW c \in Calls, Acquisition(c)
      PROVE  Control'
  BY <1>2 DEF Acquisition, TokenFails, SetNX, SetNXTaken, SetNXLostReply,
              SetNXError, Goto
<1>3. ASSUME NEW c \in Calls, Waiting(c) \/ Releasing(c)
      PROVE  Control'
  BY <1>3 DEF Waiting, RetryTimer, CtxDone, Releasing, Release, ReleaseFails,
              Goto
<1>4. ASSUME NEW k \in Keys, Expire(k)
      PROVE  Control'
  BY <1>4 DEF Expire
<1>5. ASSUME NEW p \in Procs, Crash(p)
      PROVE  Control'
  BY <1>5 DEF Crash
<1>6. CASE UNCHANGED vars
  BY <1>6 DEF vars
<1> QED
  BY <1>1, <1>2, <1>3, <1>4, <1>5, <1>6 DEF Next, Step

THEOREM IndInvHolds == Spec => []IndInv
<1>1. IndInv /\ [Next]_vars => IndInv'
  BY TypeStep, MutexStep, LeaseStep, ControlStep DEF IndInv
<1> QED
  BY InitIndInv, <1>1, PTL DEF Spec

-----------------------------------------------------------------------------
\* The state of the lock is always of its type; in particular the loop of
\* withRedisLock never exceeds retryCount.
THEOREM TypeCorrect == Spec => []TypeOK
<1>1. IndInv => TypeOK
  BY DEF IndInv
<1> QED
  BY IndInvHolds, <1>1, PTL

\* Inside one process the keyed mutex always excludes.
THEOREM LocalExclusionHolds == Spec => []LocalExclusion
<1>1. IndInv => LocalExclusion
  BY DEF IndInv, LocalExclusion, MutexHeld, InFn, InMutex
<1> QED
  BY IndInvHolds, <1>1, PTL

\* Two callbacks on one key overlap only if a lease ran out under one.
LEMMA NoOverlap == IndInv => ExclusionUnlessLapsed
<1> SUFFICES ASSUME IndInv,
                    NEW c \in InFn \ lapsed, NEW d \in InFn \ lapsed,
                    KeyOf[c] = KeyOf[d]
             PROVE  c = d
  BY DEF ExclusionUnlessLapsed
<1>1. CASE UseRedis
  BY <1>1 DEF IndInv, LeaseHeld
<1>2. CASE ~UseRedis
  <2>1. ProcOf[c] = ProcOf[d]
    BY <1>2 DEF InFn
  <2> QED
    BY <2>1 DEF IndInv, MutexHeld, InFn, InMutex
<1> QED
  BY <1>1, <1>2

THEOREM ExclusionUnlessLapsedHolds == Spec => []ExclusionUnlessLapsed
  BY IndInvHolds, NoOverlap, PTL

\* With a lease time above the longest callback, and also without Redis,
\* the lock excludes across all processes.
THEOREM MutualExclusionHolds == ~MayLapse => (Spec => []MutualExclusion)
<1> SUFFICES ASSUME ~MayLapse
             PROVE  Spec => []MutualExclusion
  OBVIOUS
<1>1. IndInv => MutualExclusion
  <2> SUFFICES ASSUME IndInv
               PROVE  MutualExclusion
    OBVIOUS
  <2>1. lapsed = {}
    BY DEF IndInv, LapsedStarted
  <2> QED
    BY <2>1, NoOverlap DEF ExclusionUnlessLapsed, MutualExclusion
<1> QED
  BY IndInvHolds, <1>1, PTL

-----------------------------------------------------------------------------
(***************************************************************************)
(* The locker implements LeaseLock: every step is a step of the promise or *)
(* leaves the live callbacks and the zombies as they are.                  *)
(***************************************************************************)
Live == InFn \ lapsed
Zombies == InFn \cap lapsed

\* A callback starts only on a key without a live callback.
LEMMA AcquireStep ==
  ASSUME IndInv, NEW c \in Calls, SetNX(c) \/ (~UseRedis /\ LockLocal(c))
  PROVE  Promise!Acquire(c)
<1>1. pc' = [pc EXCEPT ![c] = "fn"] /\ pc[c] \in {"acquire", "mutex"}
  BY DEF SetNX, LockLocal, Goto
<1>2. c \notin InFn /\ c \notin lapsed
  BY <1>1 DEF IndInv, LapsedStarted, InFn, Ended
<1>3. InFn' = InFn \cup {c} /\ lapsed' = lapsed
  BY <1>1 DEF IndInv, TypeOK, InFn, SetNX, LockLocal
<1>4. ASSUME NEW d \in Live
      PROVE  KeyOf[d] # KeyOf[c]
  <2>1. CASE SetNX(c)
    <3>1. UseRedis
      BY <2>1 DEF SetNX, Goto, IndInv, RedisOnly
    <3>2. lease[KeyOf[c]] = NoCall /\ lease[KeyOf[d]] = d
      BY <2>1, <3>1, <1>4 DEF SetNX, IndInv, LeaseHeld, Live
    <3> QED
      BY <3>2, <1>4 DEF Live, InFn
  <2>2. CASE ~UseRedis /\ LockLocal(c)
    <3>1. ProcOf[d] = ProcOf[c] /\ mutex[ProcOf[c]][KeyOf[c]] = NoCall
      BY <2>2, <1>4 DEF LockLocal, Live, InFn
    <3>2. mutex[ProcOf[d]][KeyOf[d]] = d
      BY <1>4 DEF IndInv, MutexHeld, Live, InFn, InMutex
    <3> QED
      BY <3>1, <3>2, <1>4 DEF Live, InFn
  <2> QED
    BY <2>1, <2>2
<1> QED
  BY <1>2, <1>3, <1>4 DEF Promise!Acquire, Live

\* Callbacks end by returning or with their process.
LEMMA LeaveStep ==
  ASSUME IndInv, NEW S \in SUBSET Calls, S \subseteq InFn, S # {},
         InFn' = InFn \ S, lapsed' = lapsed
  PROVE  Promise!Leave(S)
  BY DEF Promise!Leave

THEOREM RefinementHolds == Spec => Refinement
<1>1. Init => Promise!Init
  BY DEF Init, Promise!Init, InFn
<1>2. ASSUME IndInv, [Next]_vars
      PROVE  [Promise!Next]_(Promise!vars)
  <2> USE <1>2 DEF IndInv, TypeOK
  <2> DEFINE Stutter == UNCHANGED <<InFn, lapsed>>
  <2>1. Stutter => UNCHANGED Promise!vars
    BY DEF Promise!vars
  <2>2. ASSUME NEW c \in Calls, SetNX(c) \/ (~UseRedis /\ LockLocal(c))
        PROVE  Promise!Next
    BY <2>2, AcquireStep DEF Promise!Next
  <2>3. ASSUME NEW c \in Calls, FnReturns(c)
        PROVE  Promise!Next
    <3>1. {c} \subseteq InFn /\ InFn' = InFn \ {c} /\ lapsed' = lapsed
      BY <2>3 DEF FnReturns, Goto, InFn
    <3>2. Promise!Leave({c})
      BY <3>1, LeaveStep
    <3> QED
      BY <3>2 DEF Promise!Next
  <2>4. ASSUME NEW c \in Calls,
               \/ Call(c) \/ (UseRedis /\ LockLocal(c)) \/ TokenFails(c)
               \/ SetNXTaken(c) \/ SetNXLostReply(c) \/ SetNXError(c)
               \/ Waiting(c) \/ Releasing(c) \/ Unlock(c)
        PROVE  Stutter
    BY <2>4 DEF Call, LockLocal, TokenFails, SetNXTaken, SetNXLostReply,
                SetNXError, Waiting, RetryTimer, CtxDone, Releasing, Release,
                ReleaseFails, Unlock, Goto, InFn
  <2>5. ASSUME NEW k \in Keys, Expire(k)
        PROVE  Promise!Next \/ Stutter
    <3> DEFINE h == lease[k]
    <3>1. h \in Calls /\ InFn' = InFn
      BY <2>5 DEF Expire, InFn
    <3>2. CASE h \in Live
      <4>1. MayLapse /\ lapsed' = lapsed \cup {h}
        BY <2>5, <3>2 DEF Expire, Live, InFn
      <4>2. Promise!Lapse(h)
        BY <3>1, <3>2, <4>1 DEF Promise!Lapse, Live
      <4> QED
        BY <3>1, <4>2 DEF Promise!Next
    <3>3. CASE h \notin Live
      BY <2>5, <3>1, <3>3 DEF Expire, Live, InFn
    <3> QED
      BY <3>2, <3>3
  <2>6. ASSUME NEW p \in Procs, Crash(p)
        PROVE  Promise!Next \/ Stutter
    <3> DEFINE S == {c \in InFn : ProcOf[c] = p}
    <3>1. InFn' = InFn \ S /\ lapsed' = lapsed
      BY <2>6 DEF Crash, InFn, Ended
    <3>2. S \subseteq InFn /\ S \in SUBSET Calls
      BY DEF InFn
    <3>3. CASE S = {}
      BY <3>1, <3>3
    <3>4. CASE S # {}
      <4>1. Promise!Leave(S)
        BY <3>1, <3>2, <3>4, LeaveStep
      <4> QED
        BY <3>2, <4>1 DEF Promise!Next
    <3> QED
      BY <3>3, <3>4
  <2>7. UNCHANGED vars => Stutter
    BY DEF vars, InFn
  <2> QED
    BY <2>1, <2>2, <2>3, <2>4, <2>5, <2>6, <2>7 DEF Next, Step, Acquisition
<1> QED
  BY <1>1, <1>2, IndInvHolds, PTL DEF Spec, Refinement, Promise!Spec
=============================================================================
