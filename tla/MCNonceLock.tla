---------------------------- MODULE MCNonceLock ----------------------------
(***************************************************************************)
(* Instances of NonceLock for TLC.  Calls 1 and 2 share a process and a    *)
(* key, call 3 competes for that key from the other process.               *)
(***************************************************************************)
EXTENDS NonceLock

MCProcOf == [c \in Calls |-> IF c = 3 THEN "p2" ELSE "p1"]
MCKeyOf == [c \in Calls |-> "k1"]
=============================================================================
