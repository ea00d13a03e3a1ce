---------------------------- MODULE MCWithdrawal ----------------------------
(* An instance of Withdrawal for TLC: the adapter may ask for a
   payment twice.  An attempt whose answer is lost before it has the
   lock competes with its repetition. *)
EXTENDS Withdrawal

MCAccountOf == [p \in Payments |-> "a1"]

MCAttempts == [p \in Payments |-> 2]

\* No setting, half a setting, one that fits, the limit and one
\* that contradicts itself; quotes below and above the floors of 500 and 50.
MCEnvs == {[max |-> 0, pri |-> 0], [max |-> 7, pri |-> 0], [max |-> 7, pri |-> 3],
           [max |-> 3, pri |-> 3], [max |-> 3, pri |-> 5]}

MCMarkets == [tip : {0, 1, 600}, base : {0, 1, 600}, price : {0, 20, 600}]
=============================================================================
