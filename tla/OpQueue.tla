------------------------------ MODULE OpQueue ------------------------------
(***************************************************************************)
(* What a caller of Batcher.Enqueue may rely on, and no more.  An op that  *)
(* was taken is out, it may be executed at any time, until it is executed  *)
(* or settled.  A request is answered with a hash when its op is no longer *)
(* out, and with an error when it is neither out nor executed, or when the *)
(* batcher gave up on a transaction that holds the op.  A request that     *)
(* leaves takes nothing back.                                              *)
(***************************************************************************)
CONSTANT Ops    \* the calls of Enqueue

VARIABLES
    answer,     \* answer[o]: "none", "wait", or how Enqueue returned
    out,        \* the ops that may still be executed
    executed,   \* the ops that were executed
    unsure      \* the ops in a transaction the batcher gave up on

vars == <<answer, out, executed, unsure>>

Init ==
    /\ answer = [o \in Ops |-> "none"]
    /\ out = {}
    /\ executed = {}
    /\ unsure = {}

Reply(o, from, to) ==
    /\ answer[o] = from
    /\ answer' = [answer EXCEPT ![o] = to]

\* The op is in the queue.
Take(o) ==
    /\ Reply(o, "none", "wait")
    /\ out' = out \cup {o}
    /\ UNCHANGED <<executed, unsure>>

\* No pool, or the request leaves before its op is in the queue.
TurnDown(o) ==
    /\ \E a \in {"err", "cancelled"} : Reply(o, "none", a)
    /\ UNCHANGED <<out, executed, unsure>>

Succeed(o) ==
    /\ o \notin out
    /\ Reply(o, "wait", "ok")
    /\ UNCHANGED <<out, executed, unsure>>

Fail(o) ==
    /\ o \in out \cup executed => o \in unsure
    /\ Reply(o, "wait", "err")
    /\ UNCHANGED <<out, executed, unsure>>

Leave(o) ==
    /\ Reply(o, "wait", "cancelled")
    /\ UNCHANGED <<out, executed, unsure>>

\* A transaction is mined, or a submission is settled: the ops S are no
\* longer out, E of them because they were executed.
Finish(S, E) ==
    /\ E \subseteq S /\ S \subseteq out
    /\ out' = out \ S
    /\ executed' = executed \cup E
    /\ UNCHANGED <<answer, unsure>>

\* The wait for a transaction ends without an answer: its ops U may be
\* executed all the same, except those it is too late for, S.
GiveUp(U, S) ==
    /\ S \subseteq U
    /\ \A o \in U : answer[o] # "none"
    /\ unsure' = unsure \cup U
    /\ out' = out \ S
    /\ UNCHANGED <<answer, executed>>

Next ==
    \/ \E o \in Ops : Take(o) \/ TurnDown(o) \/ Succeed(o) \/ Fail(o) \/ Leave(o)
    \/ Finish(out \ out', executed' \ executed)
    \/ GiveUp(unsure', out \ out')

Spec == Init /\ [][Next]_vars
=============================================================================
