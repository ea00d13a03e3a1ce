-------------------------------- MODULE Fees --------------------------------
(***************************************************************************)
(* internal/evm/gas.go and internal/transfer/gas.go: the fee fields of     *)
(* transactions and UserOps, in wei.  A market is what the node answers:   *)
(* the suggested tip, the base fee and the gas price, 0 for one that is    *)
(* missing or failed.  An env is USEROP_MAX_FEE_PER_GAS_GWEI and           *)
(* USEROP_MAX_PRIORITY_FEE_PER_GAS_GWEI, 0 for one that is not set.        *)
(***************************************************************************)
EXTENDS Naturals

CONSTANT Gwei   \* the wei of a gwei

ASSUME GweiAssumption == Gwei \in Nat \ {0}

FeeFields == [max : Nat, pri : Nat]

Quotes == [tip : Nat, base : Nat, price : Nat]

AtLeast(x, min) == IF x < min THEN min ELSE x

Bump180(x) == (x * 180) \div 100

\* The cap of a transaction: twice the base fee and the tip, 180 per cent of
\* it, and not less than two rises of the base fee with the priority fee.
MaxFee(base, tip, pri) ==
    LET max == Bump180(base * 2 + tip)
        min == ((base * 125) \div 100) * 2 + pri
    IN  IF max < min THEN (min * 110) \div 100 ELSE max

\* Fees: an EIP-1559 pair, or a gas price.
FeeFromProvider(m) ==
    IF m.tip > 0 /\ m.base > 0
    THEN LET pri == AtLeast(Bump180(m.tip), 2 * Gwei)
         IN  [max |-> MaxFee(m.base, m.tip, pri), pri |-> pri, price |-> 0]
    ELSE IF m.price > 0
    THEN [max |-> 0, pri |-> 0, price |-> Bump180(m.price)]
    ELSE [max |-> 150 * Gwei, pri |-> 5 * Gwei, price |-> 0]

Half(f) == IF f.pri > f.max THEN [f EXCEPT !.pri = f.max \div 2] ELSE f

\* applySepoliaFujiKcpFloor, on the chains that have a floor.
Floor(floored, f) ==
    IF ~floored THEN f
    ELSE LET g == [f EXCEPT !.max = AtLeast(@, 500 * Gwei),
                            !.pri = AtLeast(@, 50 * Gwei)]
         IN  IF g.pri > g.max /\ g.max \div 2 = 0
             THEN [g EXCEPT !.pri = 50 * Gwei]
             ELSE Half(g)

NoFee == [max |-> 0, pri |-> 0]

\* A mutant: the settings are not compared.
FromEnvUnchecked(env) == env

\* Both settings decide, unless they contradict each other.
FromEnv(env) == IF env.pri > env.max THEN NoFee ELSE env

\* The fee fields of a UserOp; NoFee if the environment contradicts itself.
UserOpMaxFeeFields(env, m, floored) ==
    LET o == FeeFromProvider(m) IN
    IF env.max > 0 /\ env.pri > 0
    THEN FromEnv(env)
    ELSE IF o.max > 0 /\ o.pri > 0
    THEN Floor(floored, Half([max |-> o.max, pri |-> o.pri]))
    ELSE IF o.price > 0
    THEN Floor(floored, [max |-> 2 * o.price, pri |-> o.price])
    ELSE IF floored THEN [max |-> 2000 * Gwei, pri |-> 100 * Gwei]
    ELSE [max |-> 150 * Gwei, pri |-> 5 * Gwei]
=============================================================================
