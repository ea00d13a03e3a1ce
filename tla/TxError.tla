------------------------------ MODULE TxError ------------------------------
(***************************************************************************)
(* internal/platform/txerror: how a failed call is answered.  An error is  *)
(* the set of marks Normalize finds in it: a revert code, reason or        *)
(* message, "insufficient funds", "nonce" or "replacement transaction      *)
(* underpriced", a timeout, a lost connection, a server code of the node.  *)
(***************************************************************************)
EXTENDS Naturals, Sequences

Marks == {"revert", "funds", "nonce", "timeout", "network", "server"}

Rule(mark, code, status, retryable) ==
    [mark |-> mark, code |-> code, status |-> status, retryable |-> retryable]

\* The tests of Normalize in their order; what fits none is unknown.
Rules == <<
    Rule("revert",  "CALL_EXCEPTION",         422, FALSE),
    Rule("funds",   "INSUFFICIENT_FUNDS",     422, FALSE),
    Rule("nonce",   "BUNDLER_NONCE_CONFLICT", 409, TRUE),
    Rule("timeout", "RPC_TIMEOUT",            503, TRUE),
    Rule("network", "RPC_NETWORK_ERROR",      503, TRUE),
    Rule("server",  "RPC_SERVER_ERROR",       503, TRUE) >>

Unknown == Rule("unknown", "BUNDLER_SEND_FAILED", 500, TRUE)

Normalize(err) ==
    LET hits == {i \in DOMAIN Rules : Rules[i].mark \in err}
    IN  IF hits = {} THEN Unknown
        ELSE Rules[CHOOSE i \in hits : \A j \in hits : i <= j]

\* WriteValidationError, and a request that succeeded.
Invalid == Rule("invalid", "VALIDATION", 400, FALSE)

Success == Rule("ok", "OK", 200, FALSE)
=============================================================================
