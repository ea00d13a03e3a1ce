----------------------------- MODULE LeaseLock -----------------------------
(***************************************************************************)
(* What a caller of redis.Locker.WithNonceLock may rely on, and no more:   *)
(* at any time at most one call per key is live, that is, runs its         *)
(* callback while the key is still reserved for it.  If the reservation    *)
(* can lapse before the callback is over, the callback keeps running as a  *)
(* zombie, unprotected, beside the next live call.                         *)
(***************************************************************************)

CONSTANTS
    Calls,      \* the calls of WithNonceLock
    KeyOf,      \* KeyOf[c]: the lock key call c asks for
    MayLapse    \* whether a reservation can end before its callback does

VARIABLES
    live,       \* the calls whose callback runs under a valid reservation
    zombies     \* the calls whose callback outlived its reservation

vars == <<live, zombies>>

Init ==
    /\ live = {}
    /\ zombies = {}

\* The call obtains the key and its callback starts.
Acquire(c) ==
    /\ c \notin live \cup zombies
    /\ \A d \in live : KeyOf[d] # KeyOf[c]
    /\ live' = live \cup {c}
    /\ UNCHANGED zombies

\* The reservation of a running callback ends by itself.
Lapse(c) ==
    /\ MayLapse
    /\ c \in live
    /\ live' = live \ {c}
    /\ zombies' = zombies \cup {c}

\* Callbacks end: one returns, or all those of a process die with it.
Leave(S) ==
    /\ S # {}
    /\ S \subseteq live \cup zombies
    /\ live' = live \ S
    /\ zombies' = zombies \ S

Next ==
    \/ \E c \in Calls : Acquire(c) \/ Lapse(c)
    \/ \E S \in SUBSET Calls : Leave(S)

Spec == Init /\ [][Next]_vars
=============================================================================
