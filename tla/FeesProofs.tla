----------------------------- MODULE FeesProofs -----------------------------
(***************************************************************************)
(* The fee fields of a UserOp fit for every quote of the node, every       *)
(* setting of the environment and every chain.                             *)
(***************************************************************************)
EXTENDS Fees, TLAPS

\* A pair a node accepts: the priority fee is positive and within the cap.
Fit(f) == 0 < f.pri /\ f.pri <= f.max

\* Raising by 180 per cent gives no less (bump180).
LEMMA Bump180Raises ==
    ASSUME NEW x \in Nat
    PROVE  Bump180(x) \in Nat /\ x <= Bump180(x)
  BY DEF Bump180

\* The cap of FeeFromProvider is never below the priority fee.
LEMMA MaxFeeCovers ==
    ASSUME NEW base \in Nat, NEW tip \in Nat, NEW pri \in Nat
    PROVE  MaxFee(base, tip, pri) \in Nat /\ pri <= MaxFee(base, tip, pri)
<1> DEFINE max == Bump180(base * 2 + tip)
           min == ((base * 125) \div 100) * 2 + pri
<1>1. max \in Nat
  BY Bump180Raises
<1>2. min \in Nat /\ pri <= min
  OBVIOUS
<1>3. (min * 110) \div 100 \in Nat /\ min <= (min * 110) \div 100
  <2> HIDE DEF min
  <2> QED BY <1>2
<1>4. MaxFee(base, tip, pri) = IF max < min THEN (min * 110) \div 100 ELSE max
  BY DEF MaxFee
<1> HIDE DEF max, min
<1> QED BY <1>1, <1>2, <1>3, <1>4

\* FeeFromProvider answers a pair that fits, or a gas price and no pair.
LEMMA ProviderFeesFit ==
    ASSUME NEW m \in Quotes
    PROVE  LET o == FeeFromProvider(m) IN
           /\ o \in [max : Nat, pri : Nat, price : Nat]
           /\ \/ Fit(o)
              \/ o.max = 0 /\ o.pri = 0 /\ 0 < o.price
<1> DEFINE p == AtLeast(Bump180(m.tip), 2 * Gwei)
<1> USE GweiAssumption
<1>1. m.tip \in Nat /\ m.base \in Nat /\ m.price \in Nat
  BY DEF Quotes
<1>2. p \in Nat /\ 0 < p
  BY <1>1, Bump180Raises DEF AtLeast
<1>3. MaxFee(m.base, m.tip, p) \in Nat /\ p <= MaxFee(m.base, m.tip, p)
  <2> HIDE DEF p
  <2> QED BY <1>1, <1>2, MaxFeeCovers
<1>4. CASE m.tip > 0 /\ m.base > 0
  <2>1. FeeFromProvider(m)
           = [max |-> MaxFee(m.base, m.tip, p), pri |-> p, price |-> 0]
    BY <1>4 DEF FeeFromProvider
  <2> HIDE DEF p
  <2> QED BY <2>1, <1>2, <1>3 DEF Fit
<1>5. CASE ~(m.tip > 0 /\ m.base > 0) /\ m.price > 0
  <2>1. FeeFromProvider(m) = [max |-> 0, pri |-> 0, price |-> Bump180(m.price)]
    BY <1>5 DEF FeeFromProvider
  <2>2. Bump180(m.price) \in Nat /\ m.price <= Bump180(m.price)
    BY <1>1, Bump180Raises
  <2> QED BY <2>1, <2>2, <1>1, <1>5
<1>6. CASE ~(m.tip > 0 /\ m.base > 0) /\ ~(m.price > 0)
  <2>1. FeeFromProvider(m) = [max |-> 150 * Gwei, pri |-> 5 * Gwei, price |-> 0]
    BY <1>6 DEF FeeFromProvider
  <2> QED BY <2>1 DEF Fit
<1> QED BY <1>4, <1>5, <1>6

\* The floors of some chains keep a fitting pair fitting: what is halved is at
\* least 500 gwei (applySepoliaFujiKcpFloor).
LEMMA FloorFits ==
    ASSUME NEW floored \in BOOLEAN, NEW f \in FeeFields, Fit(f)
    PROVE  Floor(floored, f) \in FeeFields /\ Fit(Floor(floored, f))
<1> USE GweiAssumption
<1> DEFINE g == [f EXCEPT !.max = AtLeast(@, 500 * Gwei),
                          !.pri = AtLeast(@, 50 * Gwei)]
<1> DEFINE a == AtLeast(f.max, 500 * Gwei)
           b == AtLeast(f.pri, 50 * Gwei)
<1>1. g \in FeeFields /\ 500 * Gwei <= g.max /\ 0 < g.pri
  <2>1. f.max \in Nat /\ f.pri \in Nat
    BY DEF FeeFields
  <2>2. a \in Nat /\ b \in Nat /\ 500 * Gwei <= a /\ 0 < b
    BY <2>1 DEF AtLeast
  <2>3. g = [f EXCEPT !.max = a, !.pri = b]
    OBVIOUS
  <2> HIDE DEF a, b, g
  <2> QED BY <2>2, <2>3 DEF FeeFields
<1>2. g.max \div 2 \in Nat /\ 0 < g.max \div 2 /\ g.max \div 2 <= g.max
  <2> HIDE DEF g
  <2> QED BY <1>1 DEF FeeFields
<1>3. Half(g) \in FeeFields /\ Fit(Half(g))
  <2> HIDE DEF g
  <2> QED BY <1>1, <1>2 DEF FeeFields, Half, Fit
<1>4. floored => Floor(floored, f) = Half(g)
  <2>1. floored => Floor(floored, f)
           = IF g.pri > g.max /\ g.max \div 2 = 0
             THEN [g EXCEPT !.pri = 50 * Gwei] ELSE Half(g)
    BY DEF Floor
  <2>2. ~(g.max \div 2 = 0)
    <3> HIDE DEF g
    <3> QED BY <1>2
  <2> HIDE DEF g
  <2> QED BY <2>1, <2>2, Zenon
<1>5. ~floored => Floor(floored, f) = f
  BY DEF Floor
<1> QED BY <1>3, <1>4, <1>5

\* userOpMaxFeeFields refuses a setting that contradicts itself or answers a
\* positive priority fee within the cap.
THEOREM UserOpFeesFit ==
    ASSUME NEW env \in FeeFields, NEW m \in Quotes, NEW floored \in BOOLEAN
    PROVE  LET fee == UserOpMaxFeeFields(env, m, floored) IN
           fee = NoFee \/ (fee \in FeeFields /\ Fit(fee))
<1> USE GweiAssumption
<1> DEFINE o == FeeFromProvider(m)
<1>1. /\ o \in [max : Nat, pri : Nat, price : Nat]
      /\ Fit(o) \/ (o.max = 0 /\ o.pri = 0 /\ 0 < o.price)
  BY ProviderFeesFit
<1>2. CASE env.max > 0 /\ env.pri > 0
  BY <1>2 DEF UserOpMaxFeeFields, FromEnv, FeeFields, Fit
<1>3. CASE ~(env.max > 0 /\ env.pri > 0) /\ Fit(o)
  <2> DEFINE f == [max |-> o.max, pri |-> o.pri]
  <2>1. o.max > 0 /\ o.pri > 0 /\ f \in FeeFields /\ Fit(f)
    <3> HIDE DEF o
    <3> QED BY <1>1, <1>3 DEF FeeFields, Fit
  <2>2. Half(f) = f
    <3> HIDE DEF o
    <3> QED BY <1>1, <1>3 DEF Half, Fit
  <2>3. UserOpMaxFeeFields(env, m, floored) = Floor(floored, Half(f))
    BY <1>3, <2>1 DEF UserOpMaxFeeFields
  <2> HIDE DEF f
  <2> QED BY <2>1, <2>2, <2>3, FloorFits
<1>4. CASE /\ ~(env.max > 0 /\ env.pri > 0)
           /\ o.max = 0 /\ o.pri = 0 /\ 0 < o.price
  <2> DEFINE f == [max |-> 2 * o.price, pri |-> o.price]
  <2>1. f \in FeeFields /\ Fit(f) /\ ~(o.max > 0 /\ o.pri > 0) /\ o.price > 0
    <3> HIDE DEF o
    <3> QED BY <1>1, <1>4 DEF FeeFields, Fit
  <2>2. UserOpMaxFeeFields(env, m, floored) = Floor(floored, f)
    BY <1>4, <2>1 DEF UserOpMaxFeeFields
  <2> HIDE DEF f
  <2> QED BY <2>1, <2>2, FloorFits
<1> HIDE DEF o
<1> QED BY <1>1, <1>2, <1>3, <1>4
=============================================================================
