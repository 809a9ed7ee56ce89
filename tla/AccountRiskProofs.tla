------------------------- MODULE AccountRiskProofs -------------------------
(***************************************************************************)
(* Theorems of AccountRisk, for any markets, prices, factors and amounts.  *)
(* The stored values keep their types, so no call repays more than is owed *)
(* or takes more than is held; no liquidation seizes more than it pays     *)
(* for; and the totals over the markets the account has entered, of which  *)
(* any number may fail to be read, bound what it can borrow, redeem and be *)
(* liquidated for.                                                         *)
(***************************************************************************)
EXTENDS AccountRisk, Arithmetic

-----------------------------------------------------------------------------
(* Arithmetic *)

\* A fraction of n, rounded down, is at most n.
LEMMA PartOf ==
    ASSUME NEW n \in Nat, NEW f \in Nat, NEW s \in Nat \ {0}, f <= s
    PROVE  (n * f) \div s \in Nat /\ (n * f) \div s <= n
<1> DEFINE q == (n * f) \div s
<1>1. n * f \in Nat /\ q \in Nat /\ q * s <= n * f
  BY DivNat, ProductNat
<1>2. n * f <= n * s
  BY ProductMonotone
<1>3. q * s <= n * s
  BY <1>1, <1>2, ProductNat
<1>4. q <= n
  BY <1>1, <1>3, CancelFactor
<1> QED BY <1>1, <1>4

\* Scaling a repayment down to what can be seized keeps, rounded up, its proportion.
LEMMA ScaledKeepsProportion ==
    ASSUME NEW repay \in Nat, NEW entitled \in Nat, NEW cap \in Nat
    PROVE  /\ Scaled(repay, entitled, cap) \in Nat
           /\ Scaled(repay, entitled, cap) <= repay
           /\ Clamped(entitled, cap) \in Nat
           /\ Clamped(entitled, cap) <= cap
           /\ Clamped(entitled, cap) * repay <= Scaled(repay, entitled, cap) * entitled
<1>1. CASE entitled <= cap
  BY <1>1 DEF Scaled, Clamped, Least
<1>2. CASE ~(entitled <= cap)
  <2>1. entitled \in Nat \ {0} /\ cap <= entitled /\ Clamped(entitled, cap) = cap
    BY <1>2 DEF Clamped, Least
  <2>2. CASE repay * cap = 0
    <3>1. Scaled(repay, entitled, cap) = 0
      BY <1>2, <2>2 DEF Scaled
    <3>2. cap * repay = 0
      BY <2>2
    <3> QED BY <2>1, <3>1, <3>2
  <2>3. CASE repay * cap # 0
    <3> DEFINE x == repay * cap
               q == (x - 1) \div entitled
    <3>1. x \in Nat /\ x - 1 \in Nat
      BY <2>3, ProductNat
    <3>2. q \in Nat /\ q * entitled <= x - 1 /\ x - 1 < q * entitled + entitled
      BY <2>1, <3>1, DivNat
    <3>3. Scaled(repay, entitled, cap) = q + 1
      BY <1>2, <2>3 DEF Scaled
    <3>4. cap * repay <= (q + 1) * entitled
      <4>1. (q + 1) * entitled = q * entitled + entitled
        BY <2>1, <3>2
      <4>2. cap * repay = x
        OBVIOUS
      <4>3. q * entitled \in Nat
        BY <2>1, <3>2, ProductNat
      <4> HIDE DEF q, x
      <4> QED BY <2>1, <3>1, <3>2, <4>1, <4>2, <4>3
    <3>5. q + 1 <= repay
      <4>1. x <= repay * entitled
        <5>1. cap * repay <= entitled * repay
          BY <2>1, ProductMonotone
        <5> QED BY <5>1
      <4>2. q * entitled < repay * entitled
        <5>1. q * entitled \in Nat /\ repay * entitled \in Nat
          BY <2>1, <3>2, ProductNat
        <5> HIDE DEF q, x
        <5> QED BY <3>1, <3>2, <4>1, <5>1
      <4>3. ~(repay <= q)
        <5>1. SUFFICES ASSUME repay <= q PROVE FALSE
          OBVIOUS
        <5>2. repay * entitled <= q * entitled
          BY <2>1, <3>2, <5>1, ProductMonotone
        <5>3. q * entitled \in Nat /\ repay * entitled \in Nat
          BY <2>1, <3>2, ProductNat
        <5> HIDE DEF q, x
        <5> QED BY <4>2, <5>2, <5>3
      <4> HIDE DEF q
      <4> QED BY <3>2, <4>3
    <3> HIDE DEF q
    <3> QED BY <2>1, <3>2, <3>3, <3>4, <3>5
  <2> QED BY <2>2, <2>3
<1> QED BY <1>1, <1>2

-----------------------------------------------------------------------------
(* The account *)

Positions == [ptokens : Nat, debt : Nat, rate : Nat \ {0}]

LEMMA AccruedIn ==
    ASSUME TypeOK, NEW ms \in SUBSET Markets, NEW m \in ms
    PROVE  /\ Accrued(ms)[m] \in Positions
           /\ Accrued(ms)[m].ptokens = position[m].ptokens
           /\ Accrued(ms)[m].debt >= position[m].debt
           /\ due[m] = 0 => Accrued(ms)[m].debt = position[m].debt
<1> DEFINE p == position[m]
           debt == IF p.debt > 0 THEN p.debt + due[m] ELSE 0
<1>1. p \in Positions /\ due[m] \in Nat
  BY DEF TypeOK, Positions
<1>2. Accrued(ms)[m] = [p EXCEPT !.debt = debt, !.rate = p.rate + due[m]]
  BY DEF Accrued
<1>3. Accrued(ms)[m] = [ptokens |-> p.ptokens, debt |-> debt, rate |-> p.rate + due[m]]
  BY <1>1, <1>2 DEF Positions
<1>4. p.ptokens \in Nat /\ p.debt \in Nat /\ p.rate \in Nat \ {0}
  BY <1>1 DEF Positions
<1>5. debt \in Nat /\ debt >= p.debt /\ (due[m] = 0 => debt = p.debt) /\ p.rate + due[m] \in Nat \ {0}
  BY <1>1, <1>4
<1> HIDE DEF p, debt
<1> QED BY <1>3, <1>4, <1>5 DEF Positions, p

LEMMA AccruedType ==
    ASSUME TypeOK, NEW ms \in SUBSET Markets
    PROVE  /\ Accrued(ms) \in [Markets -> Positions]
           /\ DueAfter(ms) \in [Markets -> Nat]
           /\ \A m \in Markets : /\ Accrued(ms)[m].ptokens = position[m].ptokens
                                 /\ Accrued(ms)[m].debt >= position[m].debt
                                 /\ m \notin ms => Accrued(ms)[m] = position[m]
<1>1. \A m \in Markets \ ms : /\ Accrued(ms)[m] = position[m]
                             /\ position[m] \in Positions
                             /\ position[m].debt \in Nat
  BY DEF Accrued, TypeOK, Positions
<1>2. \A m \in Markets : Accrued(ms)[m] \in Positions
  BY <1>1, AccruedIn
<1>3. Accrued(ms) = [m \in Markets |-> Accrued(ms)[m]]
  BY DEF Accrued
<1>4. Accrued(ms) \in [Markets -> Positions]
  BY <1>2, <1>3
<1>5. DueAfter(ms) \in [Markets -> Nat]
  BY DEF TypeOK, DueAfter
<1>6. ASSUME NEW m \in Markets
      PROVE  /\ Accrued(ms)[m].ptokens = position[m].ptokens
             /\ Accrued(ms)[m].debt >= position[m].debt
             /\ m \notin ms => Accrued(ms)[m] = position[m]
  BY <1>1, AccruedIn
<1> QED BY <1>4, <1>5, <1>6

\* What is paid is what the debts lose beyond the interest that was booked.
LEMMA PaidFromAccrued ==
    ASSUME TypeOK, NEW ms \in SUBSET Markets, NEW r \in Markets, due' = DueAfter(ms)
    PROVE  Paid(r) = Accrued(ms)[r].debt - position'[r].debt
<1>1. CASE r \in ms
  <2>1. due'[r] = 0
    BY <1>1 DEF DueAfter
  <2>2. Accrued({r})[r] = Accrued(ms)[r]
    BY <1>1 DEF Accrued
  <2> QED BY <2>1, <2>2 DEF Paid
<1>2. CASE r \notin ms
  <2>1. due'[r] = due[r]
    BY <1>2 DEF DueAfter
  <2>2. Accrued(ms)[r] = position[r] /\ Accrued({})[r] = position[r]
    BY <1>2 DEF Accrued
  <2>3. due[r] = 0 => Accrued({r})[r].debt = position[r].debt
    BY AccruedIn
  <2> QED BY <2>1, <2>2, <2>3 DEF Paid
<1> QED BY <1>1, <1>2

LEMMA UsdNat ==
    ASSUME TypeOK, NEW amount \in Nat, NEW m \in Markets
    PROVE  Usd(amount, m) \in Nat /\ Usd(amount, m) * PriceScale <= amount * price[m]
<1>1. price[m] \in Nat /\ amount * price[m] \in Nat
  BY ProductNat DEF TypeOK
<1> QED BY <1>1, DivNat, RiskAssumption DEF Usd

\* A repayment entitles to pTokens worth at most the repayment and the incentive.
LEMMA EntitlementWorth ==
    ASSUME TypeOK, NEW r \in Markets, NEW c \in Markets, NEW repay \in Nat
    PROVE  /\ Entitlement(r, c, repay) \in Nat
           /\ Entitlement(r, c, repay) * position[c].rate * price[c]
                 <= repay * price[r] * Incentive
<1> DEFINE U == Usd(repay, r)
           W == (U * Incentive) \div Scale
           X == (W * PriceScale) \div price[c]
           Y == (X * Scale) \div position[c].rate
<1>1. /\ position[c].rate \in Nat \ {0} /\ price[c] \in Nat \ {0} /\ price[r] \in Nat
      /\ Scale \in Nat \ {0} /\ PriceScale \in Nat \ {0} /\ Incentive \in Nat
  BY RiskAssumption DEF TypeOK
<1>2. U \in Nat /\ U * PriceScale <= repay * price[r]
  BY UsdNat
<1> HIDE DEF U
<1>3. W \in Nat /\ W * Scale <= U * Incentive
  BY <1>1, <1>2, ProductNat, DivNat
<1> HIDE DEF W
<1>4. X \in Nat /\ X * price[c] <= W * PriceScale
  BY <1>1, <1>3, ProductNat, DivNat
<1> HIDE DEF X
<1>5. Y \in Nat /\ Y * position[c].rate <= X * Scale
  BY <1>1, <1>4, ProductNat, DivNat
<1>6. Entitlement(r, c, repay) = Y
  BY DEF Entitlement, U, W, X
<1> HIDE DEF Y
<1> DEFINE rate == position[c].rate
           pc == price[c]
           pr == price[r]
<1>7. rate \in Nat /\ pc \in Nat /\ pr \in Nat
  BY <1>1
<1> HIDE DEF rate, pc, pr
<1>8. (Y * rate) * pc <= (X * Scale) * pc
  BY <1>1, <1>4, <1>5, <1>7, ProductNat, ProductMonotone DEF rate
<1>9. (X * pc) * Scale <= (W * PriceScale) * Scale
  BY <1>1, <1>3, <1>4, <1>7, ProductNat, ProductMonotone DEF pc
<1>10. (W * Scale) * PriceScale <= (U * Incentive) * PriceScale
  BY <1>1, <1>2, <1>3, ProductNat, ProductMonotone
<1>11. (U * PriceScale) * Incentive <= (repay * pr) * Incentive
  BY <1>1, <1>2, <1>7, ProductNat, ProductMonotone DEF pr
<1>12. /\ (X * Scale) * pc = (X * pc) * Scale
       /\ (W * PriceScale) * Scale = (W * Scale) * PriceScale
       /\ (U * Incentive) * PriceScale = (U * PriceScale) * Incentive
  BY <1>1, <1>2, <1>3, <1>4, <1>7
<1>13. /\ (Y * rate) * pc \in Nat /\ (X * pc) * Scale \in Nat
       /\ (W * Scale) * PriceScale \in Nat /\ (U * PriceScale) * Incentive \in Nat
       /\ (repay * pr) * Incentive \in Nat
  BY <1>1, <1>2, <1>3, <1>4, <1>5, <1>7, ProductNat
<1>14. (Y * rate) * pc <= (repay * pr) * Incentive
  BY <1>8, <1>9, <1>10, <1>11, <1>12, <1>13
<1> QED BY <1>5, <1>6, <1>14 DEF rate, pc, pr

-----------------------------------------------------------------------------
(* Steps *)

LEMMA FeeWithin ==
    ASSUME NEW seized \in Nat
    PROVE  Fee(seized) \in Nat /\ Fee(seized) <= seized
  BY RiskAssumption, PartOf DEF Fee

LEMMA MaxRepayWithin ==
    ASSUME TypeOK, NEW r \in Markets
    PROVE  MaxRepay(r) \in Nat /\ MaxRepay(r) <= position[r].debt
<1>1. position[r].debt \in Nat
  BY DEF TypeOK
<1> QED BY <1>1, RiskAssumption, PartOf DEF MaxRepay

\* What a settlement does, whoever asks for it: the debt in r falls by what is paid, the
\* collateral in c by at most what is seized, and both stay above zero.
LiquidationStep(r, c) ==
    \E paid \in Nat, lost \in Nat :
        /\ position' = [Accrued({r}) EXCEPT ![r].debt = @ - paid, ![c].ptokens = @ - lost]
        /\ due' = DueAfter({r}) /\ UNCHANGED world
        /\ r # c
        /\ 0 < paid /\ paid <= position[r].debt /\ lost <= position[c].ptokens
        /\ lost * position[c].rate * price[c] <= paid * price[r] * Incentive

LEMMA SettleEffect ==
    ASSUME TypeOK, NEW r \in Markets, NEW c \in Markets, NEW amount \in Nat, NEW cap \in Nat,
           NEW own \in BOOLEAN, cap <= position[c].ptokens, Settle(r, c, amount, cap, own)
    PROVE  LiquidationStep(r, c)
<1> DEFINE repay    == Least(amount, MaxRepay(r))
           entitled == Entitlement(r, c, repay)
           paid     == Scaled(repay, entitled, cap)
           seized   == Clamped(entitled, cap)
           lost     == IF own THEN Fee(seized) ELSE seized
           rate     == position[c].rate
           pc       == price[c]
           pr       == price[r]
<1>1. repay \in Nat /\ repay <= position[r].debt /\ repay > 0
  BY MaxRepayWithin DEF Least, Settle, TypeOK
<1>2. entitled \in Nat /\ entitled * rate * pc <= repay * pr * Incentive
  BY <1>1, EntitlementWorth
<1>3. /\ paid \in Nat /\ paid <= repay /\ seized \in Nat /\ seized <= cap
      /\ seized * repay <= paid * entitled
  BY <1>1, <1>2, ScaledKeepsProportion
<1>4. lost \in Nat /\ lost <= seized
  BY <1>3, FeeWithin
<1>5. /\ position' = [Accrued({r}) EXCEPT ![r].debt = @ - paid, ![c].ptokens = @ - lost]
      /\ due' = DueAfter({r}) /\ UNCHANGED world /\ r # c /\ 0 < paid
  BY DEF Settle
<1>6. rate \in Nat /\ pc \in Nat /\ pr \in Nat /\ Incentive \in Nat
      /\ position[c].ptokens \in Nat /\ position[r].debt \in Nat
  BY RiskAssumption DEF TypeOK
<1>7. paid <= position[r].debt /\ lost <= position[c].ptokens
  <2> HIDE DEF repay, paid, seized, lost
  <2> QED BY <1>1, <1>3, <1>4, <1>6
<1> HIDE DEF repay, entitled, paid, seized, lost, rate, pc, pr
<1>8. lost * rate * pc <= paid * pr * Incentive
  <2> DEFINE unit == rate * pc
             gain == pr * Incentive
  <2>1. unit \in Nat /\ gain \in Nat
    BY <1>6, ProductNat
  <2>2. entitled * unit <= repay * gain
    BY <1>1, <1>2, <1>6
  <2> HIDE DEF unit, gain
  <2>3. (seized * repay) * unit <= (paid * entitled) * unit
    BY <1>1, <1>2, <1>3, <2>1, ProductNat, ProductMonotone
  <2>4. (entitled * unit) * paid <= (repay * gain) * paid
    BY <1>1, <1>2, <1>3, <2>1, <2>2, ProductNat, ProductMonotone
  <2>5. /\ (seized * repay) * unit = (seized * unit) * repay
        /\ (paid * entitled) * unit = (entitled * unit) * paid
        /\ (repay * gain) * paid = (paid * gain) * repay
    BY <1>1, <1>2, <1>3, <2>1
  <2>6. seized * unit \in Nat /\ paid * gain \in Nat /\ entitled * unit \in Nat
    BY <1>2, <1>3, <2>1, ProductNat
  <2>7. (seized * unit) * repay <= (paid * gain) * repay
    <3>1. /\ (seized * unit) * repay \in Nat /\ (entitled * unit) * paid \in Nat
          /\ (paid * gain) * repay \in Nat
      BY <1>1, <1>3, <2>6, ProductNat
    <3> QED BY <2>3, <2>4, <2>5, <3>1
  <2>8. seized * unit <= paid * gain
    BY <1>1, <2>6, <2>7, CancelFactor
  <2>9. lost * unit <= seized * unit
    BY <1>3, <1>4, <2>1, ProductMonotone
  <2>10. lost * unit \in Nat
    BY <1>4, <2>1, ProductNat
  <2>11. lost * unit <= paid * gain
    BY <2>6, <2>8, <2>9, <2>10
  <2> QED BY <1>3, <1>4, <1>6, <2>11 DEF unit, gain
<1> QED BY <1>3, <1>4, <1>5, <1>7, <1>8 DEF LiquidationStep, rate, pc, pr

\* The markets ms are accrued and then one of them is given the position p.
Revised(ms, m, p) ==
    /\ position' = [Accrued(ms) EXCEPT ![m] = p]
    /\ due' = DueAfter(ms) /\ UNCHANGED world

\* The ways in which a step can change the account, with what it leaves alone.
OwnStep(m) ==
    \E ms \in SUBSET Markets, p \in Positions :
        /\ m \in ms
        /\ Revised(ms, m, p)
        /\ \/ p.debt = Accrued(ms)[m].debt
           \/ p.ptokens = position[m].ptokens

OutsideStep ==
    /\ UNCHANGED position
    /\ due' \in [Markets -> Nat]
    /\ price' \in [Markets -> Nat \ {0}]
    /\ quoted' \subseteq Markets
    /\ fault' \in [Markets -> FaultKinds \cup {"none"}]

\* A position with other pTokens, or another debt.
Holding(p, n) == [p EXCEPT !.ptokens = n]
Owing(p, n) == [p EXCEPT !.debt = n]

\* Their fields.
LEMMA RevisedFields ==
    ASSUME TypeOK, NEW ms \in SUBSET Markets, NEW m \in ms, NEW n \in Nat
    PROVE  /\ Holding(Accrued(ms)[m], n) \in Positions
           /\ Holding(Accrued(ms)[m], n).ptokens = n
           /\ Holding(Accrued(ms)[m], n).debt = Accrued(ms)[m].debt
           /\ Holding(Accrued(ms)[m], n).rate = Accrued(ms)[m].rate
           /\ Owing(Accrued(ms)[m], n) \in Positions
           /\ Owing(Accrued(ms)[m], n).ptokens = position[m].ptokens
           /\ Owing(Accrued(ms)[m], n).debt = n
           /\ Owing(Accrued(ms)[m], n).rate = Accrued(ms)[m].rate
<1>1. Accrued(ms)[m] \in Positions /\ Accrued(ms)[m].ptokens = position[m].ptokens
  BY AccruedIn
<1> QED BY <1>1 DEF Positions, Holding, Owing

LEMMA RevisedKind ==
    ASSUME TypeOK, NEW ms \in SUBSET Markets, NEW m \in ms, NEW n \in Nat,
           \/ Revised(ms, m, Holding(Accrued(ms)[m], n))
           \/ Revised(ms, m, Owing(Accrued(ms)[m], n))
    PROVE  OwnStep(m)
<1>1. CASE Revised(ms, m, Holding(Accrued(ms)[m], n))
  <2> DEFINE p == Holding(Accrued(ms)[m], n)
  <2>1. p \in Positions /\ p.debt = Accrued(ms)[m].debt
    BY RevisedFields
  <2> HIDE DEF p
  <2> QED BY <1>1, <2>1 DEF OwnStep, p
<1>2. CASE Revised(ms, m, Owing(Accrued(ms)[m], n))
  <2> DEFINE p == Owing(Accrued(ms)[m], n)
  <2>1. p \in Positions /\ p.ptokens = position[m].ptokens
    BY RevisedFields
  <2> HIDE DEF p
  <2> QED BY <1>2, <2>1 DEF OwnStep, p
<1> QED BY <1>1, <1>2

LEMMA BoundsNat ==
    /\ \A n \in PTokenAmounts : n \in Nat
    /\ \A a \in Amounts : a \in Nat
    /\ \A cap \in MarginCaps : cap \in Nat
  BY RiskAssumption

LEMMA DepositEffect ==
    ASSUME TypeOK, NEW m \in Markets, NEW n \in PTokenAmounts, Deposit(m, n)
    PROVE  /\ position[m].ptokens + n \in Nat
           /\ Revised({m}, m, Holding(Accrued({m})[m], position[m].ptokens + n))
<1>1. position[m].ptokens + n \in Nat /\ Accrued({m})[m].ptokens = position[m].ptokens
  BY BoundsNat, AccruedIn DEF TypeOK
<1>2. position' = [Accrued({m}) EXCEPT ![m].ptokens = position[m].ptokens + n]
  BY <1>1, AccruedType DEF Deposit
<1>3. position' = [Accrued({m}) EXCEPT ![m] = Holding(Accrued({m})[m], position[m].ptokens + n)]
  BY <1>2 DEF Holding, Owing
<1> QED BY <1>1, <1>3 DEF Deposit, Revised

LEMMA RedeemEffect ==
    ASSUME TypeOK, NEW m \in Markets, NEW n \in PTokenAmounts, Redeem(m, n)
    PROVE  LET ms == RedeemTouches(m)
           IN  /\ ms \in SUBSET Markets /\ m \in ms
               /\ position[m].ptokens - n \in Nat
               /\ Revised(ms, m, Holding(Accrued(ms)[m], position[m].ptokens - n))
<1> DEFINE ms == RedeemTouches(m)
<1>1. ms \in SUBSET Markets /\ m \in ms
  BY DEF RedeemTouches
<1>2. Accrued(ms)[m].ptokens = position[m].ptokens /\ position[m].ptokens \in Nat
  BY <1>1, AccruedIn DEF TypeOK
<1>3. position[m].ptokens - n \in Nat
  BY <1>2 DEF Redeem
<1>4. position' = [Accrued(ms) EXCEPT ![m].ptokens = position[m].ptokens - n] /\ due' = DueAfter(ms)
      /\ UNCHANGED world
  BY <1>1, <1>2, AccruedType DEF Redeem
<1> DEFINE k == position[m].ptokens - n
<1> HIDE DEF ms, k
<1>5. position' = [Accrued(ms) EXCEPT ![m] = Holding(Accrued(ms)[m], k)]
  BY <1>4 DEF Holding, k
<1> QED BY <1>1, <1>3, <1>4, <1>5 DEF Revised, ms, k

LEMMA BorrowEffect ==
    ASSUME TypeOK, NEW m \in Markets, NEW a \in Amounts, Borrow(m, a)
    PROVE  LET ms == BorrowTouches(m)
           IN  /\ ms \in SUBSET Markets /\ m \in ms
               /\ Accrued(ms)[m].debt + a \in Nat
               /\ Revised(ms, m, Owing(Accrued(ms)[m], Accrued(ms)[m].debt + a))
<1> DEFINE ms == BorrowTouches(m)
<1>1. ms \in SUBSET Markets /\ m \in ms
  BY DEF BorrowTouches
<1>2. Accrued(ms)[m].debt + a \in Nat
  BY <1>1, AccruedIn, BoundsNat DEF Positions
<1>3. position' = [Accrued(ms) EXCEPT ![m].debt = Accrued(ms)[m].debt + a] /\ due' = DueAfter(ms)
      /\ UNCHANGED world
  BY <1>1, AccruedType DEF Borrow
<1> DEFINE k == Accrued(ms)[m].debt + a
<1> HIDE DEF ms, k
<1>4. position' = [Accrued(ms) EXCEPT ![m] = Owing(Accrued(ms)[m], k)]
  BY <1>3 DEF Owing, k
<1> QED BY <1>1, <1>2, <1>3, <1>4 DEF Revised, ms, k

LEMMA PayEffect ==
    ASSUME TypeOK, NEW m \in Markets, NEW a \in Nat, PayDebt(m, a)
    PROVE  \E debt \in Nat : /\ debt <= Accrued({m})[m].debt
                             /\ Revised({m}, m, Owing(Accrued({m})[m], debt))
<1> DEFINE debt == Accrued({m})[m].debt - Least(a, position[m].debt)
<1>1. debt \in Nat /\ debt <= Accrued({m})[m].debt
  <2>1. Accrued({m})[m].debt \in Nat /\ position[m].debt \in Nat
        /\ Accrued({m})[m].debt >= position[m].debt
    BY AccruedIn DEF Positions, TypeOK
  <2> QED BY <2>1 DEF Least
<1>2. position' = [Accrued({m}) EXCEPT ![m].debt = debt] /\ due' = DueAfter({m}) /\ UNCHANGED world
  BY AccruedType DEF PayDebt
<1> HIDE DEF debt
<1>3. position' = [Accrued({m}) EXCEPT ![m] = Owing(Accrued({m})[m], debt)]
  BY <1>2 DEF Holding, Owing
<1> QED BY <1>1, <1>2, <1>3 DEF Revised

LEMMA PayKind ==
    ASSUME TypeOK, NEW m \in Markets, NEW a \in Nat, PayDebt(m, a)
    PROVE  OwnStep(m)
<1>1. PICK debt \in Nat : Revised({m}, m, Owing(Accrued({m})[m], debt))
  BY PayEffect
<1> QED BY <1>1, RevisedKind

LEMMA AccountStepKind ==
    ASSUME TypeOK, NEW m \in Markets, AccountStep(m)
    PROVE  OwnStep(m)
<1>1. ASSUME NEW n \in PTokenAmounts, Deposit(m, n) PROVE OwnStep(m)
  <2> DEFINE k == position[m].ptokens + n
  <2>1. k \in Nat /\ Revised({m}, m, Holding(Accrued({m})[m], k))
    BY <1>1, DepositEffect
  <2> HIDE DEF k
  <2> QED BY <2>1, RevisedKind
<1>2. ASSUME NEW n \in PTokenAmounts, Redeem(m, n) PROVE OwnStep(m)
  <2> DEFINE ms == RedeemTouches(m)
             k  == position[m].ptokens - n
  <2>1. /\ ms \in SUBSET Markets /\ m \in ms /\ k \in Nat
        /\ Revised(ms, m, Holding(Accrued(ms)[m], k))
    BY <1>2, RedeemEffect
  <2> HIDE DEF ms, k
  <2> QED BY <2>1, RevisedKind
<1>3. ASSUME NEW a \in Amounts, Borrow(m, a) PROVE OwnStep(m)
  <2> DEFINE ms == BorrowTouches(m)
             k  == Accrued(ms)[m].debt + a
  <2>1. /\ ms \in SUBSET Markets /\ m \in ms /\ k \in Nat
        /\ Revised(ms, m, Owing(Accrued(ms)[m], k))
    BY <1>3, BorrowEffect
  <2> HIDE DEF ms, k
  <2> QED BY <2>1, RevisedKind
<1> QED BY <1>1, <1>2, <1>3, PayKind, BoundsNat DEF AccountStep, Repay

LEMMA LiquidatorStepKind ==
    ASSUME TypeOK, NEW m \in Markets, LiquidatorStep(m)
    PROVE  (\E a \in Nat : PayDebt(m, a)) \/ \E c \in Markets : LiquidationStep(m, c)
<1>1. ASSUME NEW a \in Amounts, RepayOnBehalfForLiquidator(m, a) PROVE \E b \in Nat : PayDebt(m, b)
  <2>1. Least(a, MaxRepay(m)) \in Nat
    BY BoundsNat, MaxRepayWithin DEF Least
  <2> QED BY <1>1, <2>1 DEF RepayOnBehalfForLiquidator
<1>2. ASSUME NEW a \in Amounts, NEW c \in Markets, NEW own \in BOOLEAN, Liquidate(m, c, a, own)
      PROVE  LiquidationStep(m, c)
  <2>1. a \in Nat /\ position[c].ptokens \in Nat /\ position[c].ptokens <= position[c].ptokens
    BY BoundsNat DEF TypeOK
  <2>2. Settle(m, c, a, position[c].ptokens, own)
    BY <1>2 DEF Liquidate
  <2>3. QED
    BY <2>1, <2>2, SettleEffect
<1>3. ASSUME NEW a \in Amounts, NEW c \in Markets, NEW cap \in MarginCaps, LiquidateForMargin(m, c, a, cap)
      PROVE  LiquidationStep(m, c)
  <2>1. Least(cap, position[c].ptokens) \in Nat /\ Least(cap, position[c].ptokens) <= position[c].ptokens
    BY BoundsNat DEF TypeOK, Least
  <2>2. a \in Nat /\ Settle(m, c, a, Least(cap, position[c].ptokens), FALSE)
    BY <1>3, BoundsNat DEF LiquidateForMargin
  <2> QED BY <2>1, <2>2, SettleEffect
<1> QED BY <1>1, <1>2, <1>3 DEF LiquidatorStep

LEMMA WorldStepKind ==
    ASSUME TypeOK, NEW m \in Markets, WorldStep(m)
    PROVE  OutsideStep
<1>1. CASE InterestFallsDue(m)
  BY <1>1 DEF InterestFallsDue, TypeOK, OutsideStep, world
<1>2. CASE PriceMoves(m)
  <2>1. PICK p \in Prices[m] : price' = [price EXCEPT ![m] = p]
    BY <1>2 DEF PriceMoves
  <2>2. p \in Nat \ {0}
    BY RiskAssumption
  <2> QED BY <1>2, <2>1, <2>2 DEF PriceMoves, TypeOK, OutsideStep
<1>3. CASE QuoteChanges(m)
  BY <1>3 DEF QuoteChanges, TypeOK, OutsideStep
<1>4. CASE FaultChanges(m)
  <2>1. PICK f \in Faults[m] \cup {"none"} : fault' = [fault EXCEPT ![m] = f]
    BY <1>4 DEF FaultChanges
  <2>2. f \in FaultKinds \cup {"none"}
    BY RiskAssumption
  <2> QED BY <1>4, <2>1, <2>2 DEF FaultChanges, TypeOK, OutsideStep
<1> QED BY <1>1, <1>2, <1>3, <1>4 DEF WorldStep

LEMMA StepKinds ==
    ASSUME TypeOK, Next
    PROVE  \/ \E m \in Markets : OwnStep(m)
           \/ \E r, c \in Markets : LiquidationStep(r, c)
           \/ OutsideStep
  BY AccountStepKind, LiquidatorStepKind, PayKind, WorldStepKind DEF Next

-----------------------------------------------------------------------------
(* The theorems *)

LEMMA LiquidationEffect ==
    ASSUME TypeOK, NEW r \in Markets, NEW c \in Markets, LiquidationStep(r, c)
    PROVE  \E paid \in Nat, lost \in Nat :
              /\ 0 < paid
              /\ position'[r] = [Accrued({r})[r] EXCEPT !.debt = @ - paid]
              /\ position'[c] = [position[c] EXCEPT !.ptokens = @ - lost]
              /\ \A m \in Markets \ {r, c} : position'[m] = position[m]
              /\ position' \in [Markets -> Positions]
              /\ lost * position[c].rate * price[c] <= paid * price[r] * Incentive
<1>1. PICK paid \in Nat, lost \in Nat :
        /\ position' = [Accrued({r}) EXCEPT ![r].debt = @ - paid, ![c].ptokens = @ - lost]
        /\ r # c
        /\ 0 < paid /\ paid <= position[r].debt /\ lost <= position[c].ptokens
        /\ lost * position[c].rate * price[c] <= paid * price[r] * Incentive
  BY DEF LiquidationStep
<1> DEFINE a == Accrued({r})
<1>2. /\ a \in [Markets -> Positions]
      /\ \A m \in Markets : m # r => a[m] = position[m]
      /\ a[r].debt >= position[r].debt
  BY AccruedType
<1>3. position[r].debt \in Nat /\ position[c].ptokens \in Nat
  BY DEF TypeOK
<1> HIDE DEF a
<1>4. position' = [a EXCEPT ![r].debt = @ - paid, ![c].ptokens = @ - lost]
  BY <1>1 DEF a
<1>5. /\ position'[r] = [a[r] EXCEPT !.debt = @ - paid]
      /\ position'[c] = [a[c] EXCEPT !.ptokens = @ - lost]
      /\ \A m \in Markets \ {r, c} : position'[m] = a[m]
      /\ position' = [m \in Markets |-> position'[m]]
  BY <1>1, <1>2, <1>4
<1>6. position'[r] \in Positions
  <2>1. a[r] \in Positions /\ a[r].debt \in Nat /\ a[r].debt - paid \in Nat
    BY <1>1, <1>2, <1>3 DEF Positions
  <2> QED BY <1>5, <2>1 DEF Positions
<1>7. position'[c] \in Positions
  <2>1. a[c] \in Positions /\ a[c] = position[c] /\ a[c].ptokens - lost \in Nat
    BY <1>1, <1>2, <1>3
  <2> QED BY <1>5, <2>1 DEF Positions
<1>8. position' \in [Markets -> Positions]
  BY <1>2, <1>5, <1>6, <1>7
<1> QED BY <1>1, <1>2, <1>5, <1>8 DEF a

LEMMA TypeStep == ASSUME TypeOK, [Next]_vars PROVE TypeOK'
<1>1. CASE UNCHANGED vars
  BY <1>1 DEF vars, world, TypeOK
<1>2. ASSUME NEW m \in Markets, OwnStep(m) PROVE TypeOK'
  <2>1. PICK ms \in SUBSET Markets, p \in Positions :
          /\ position' = [Accrued(ms) EXCEPT ![m] = p]
          /\ due' = DueAfter(ms) /\ UNCHANGED world
    BY <1>2 DEF OwnStep, Revised
  <2>2. Accrued(ms) \in [Markets -> Positions] /\ DueAfter(ms) \in [Markets -> Nat]
    BY AccruedType
  <2> QED BY <2>1, <2>2 DEF TypeOK, world, Positions
<1>3. ASSUME NEW r \in Markets, NEW c \in Markets, LiquidationStep(r, c) PROVE TypeOK'
  <2>1. position' \in [Markets -> Positions]
    BY <1>3, LiquidationEffect
  <2>2. due' = DueAfter({r}) /\ UNCHANGED world
    BY <1>3 DEF LiquidationStep
  <2>3. DueAfter({r}) \in [Markets -> Nat]
    BY AccruedType
  <2> QED BY <2>1, <2>2, <2>3 DEF TypeOK, world, Positions
<1>4. CASE OutsideStep
  BY <1>4 DEF OutsideStep, TypeOK
<1> QED BY <1>1, <1>2, <1>3, <1>4, StepKinds

LEMMA InitType == Init => TypeOK
<1> SUFFICES ASSUME Init PROVE TypeOK
  OBVIOUS
<1>1. \A m \in Markets : price[m] \in Nat \ {0}
  BY RiskAssumption DEF Init
<1>2. price \in [Markets -> Nat \ {0}]
  BY <1>1 DEF Init
<1> QED BY <1>2, RiskAssumption DEF Init, TypeOK, FaultKinds

\* What is stored keeps its type: no call, a liquidation with all its clamps and roundings
\* included, repays more than is owed or takes more pTokens than are held.
THEOREM TypeCorrect == Spec => []TypeOK
<1>1. TypeOK /\ [Next]_vars => TypeOK'
  BY TypeStep
<1> QED BY InitType, <1>1, PTL DEF Spec

LEMMA TakesItsDueStep ==
    ASSUME TypeOK, [Next]_vars, NEW r \in Markets, NEW c \in Markets, r # c
    PROVE  TakesItsDue(r, c)
<1> DEFINE taken == position[c].ptokens - position'[c].ptokens
<1> SUFFICES ASSUME Paid(r) > 0, taken > 0
             PROVE  taken * position[c].rate * price[c] <= Paid(r) * price[r] * Incentive
  BY DEF TakesItsDue
<1>1. position[c].ptokens \in Nat
  BY DEF TypeOK
<1>2. CASE UNCHANGED vars
  BY <1>1, <1>2 DEF vars
<1>3. ASSUME NEW m \in Markets, OwnStep(m) PROVE FALSE
  <2>1. PICK ms \in SUBSET Markets, p \in Positions :
          /\ m \in ms
          /\ position' = [Accrued(ms) EXCEPT ![m] = p]
          /\ due' = DueAfter(ms)
          /\ p.debt = Accrued(ms)[m].debt \/ p.ptokens = position[m].ptokens
    BY <1>3 DEF OwnStep, Revised
  <2>2. /\ Accrued(ms) \in [Markets -> Positions]
        /\ \A o \in Markets : Accrued(ms)[o].ptokens = position[o].ptokens
    BY AccruedType
  <2>3. position'[m] = p /\ \A o \in Markets \ {m} : position'[o] = Accrued(ms)[o]
    BY <2>1, <2>2
  <2>4. m = c
    BY <1>1, <2>2, <2>3
  <2>5. Paid(r) = Accrued(ms)[r].debt - position'[r].debt
    BY <2>1, PaidFromAccrued
  <2>6. Accrued(ms)[r].debt \in Nat /\ position'[r] = Accrued(ms)[r]
    BY <2>2, <2>3, <2>4 DEF Positions
  <2> QED BY <2>5, <2>6
<1>4. ASSUME NEW r0 \in Markets, NEW c0 \in Markets, LiquidationStep(r0, c0)
      PROVE  taken * position[c].rate * price[c] <= Paid(r) * price[r] * Incentive
  <2>1. PICK paid \in Nat, lost \in Nat :
          /\ position'[r0] = [Accrued({r0})[r0] EXCEPT !.debt = @ - paid]
          /\ position'[c0] = [position[c0] EXCEPT !.ptokens = @ - lost]
          /\ \A m \in Markets \ {r0, c0} : position'[m] = position[m]
          /\ lost * position[c0].rate * price[c0] <= paid * price[r0] * Incentive
    BY <1>4, LiquidationEffect
  <2>2. due' = DueAfter({r0}) /\ r0 # c0
    BY <1>4 DEF LiquidationStep
  <2>3. Paid(r) = Accrued({r0})[r].debt - position'[r].debt
    BY <2>2, PaidFromAccrued
  <2> DEFINE acc == Accrued({r0})
  <2>4. /\ acc \in [Markets -> Positions] /\ position \in [Markets -> Positions]
        /\ \A m \in Markets : acc[m].ptokens = position[m].ptokens
        /\ \A m \in Markets : m # r0 => acc[m] = position[m]
    BY AccruedType DEF TypeOK, Positions
  <2>5. position'[r0] = [acc[r0] EXCEPT !.debt = @ - paid] /\ Paid(r) = acc[r].debt - position'[r].debt
    BY <2>1, <2>3
  <2> HIDE DEF acc
  <2>6. position'[r0].ptokens = position[r0].ptokens /\ position'[r0].debt = acc[r0].debt - paid
    BY <2>4, <2>5 DEF Positions
  <2>7. position'[c0].debt = position[c0].debt /\ position'[c0].ptokens = position[c0].ptokens - lost
    BY <2>1, <2>4 DEF Positions
  <2>8. \A m \in Markets : position[m].debt \in Nat /\ acc[m].debt \in Nat
    BY <2>4 DEF Positions
  <2>9. c = c0
    <3>1. ASSUME c # c0 PROVE FALSE
      <4>1. position'[c].ptokens = position[c].ptokens
        BY <2>1, <2>6, <3>1
      <4> QED BY <1>1, <4>1
    <3> QED BY <3>1
  <2>10. r = r0
    <3>1. ASSUME r # r0 PROVE FALSE
      <4>1. acc[r] = position[r]
        BY <2>4, <3>1
      <4>2. position'[r].debt = position[r].debt
        BY <2>1, <2>7, <3>1
      <4> QED BY <2>5, <2>8, <4>1, <4>2
    <3> QED BY <3>1
  <2>11. Paid(r) = paid
    <3>1. Paid(r) = acc[r0].debt - (acc[r0].debt - paid)
      BY <2>5, <2>6, <2>10
    <3>2. acc[r0].debt \in Nat
      BY <2>8
    <3> QED BY <3>1, <3>2
  <2>12. taken = lost
    BY <1>1, <2>7, <2>9
  <2> QED BY <2>1, <2>9, <2>10, <2>11, <2>12
<1>5. CASE OutsideStep
  BY <1>1, <1>5 DEF OutsideStep
<1> QED BY <1>2, <1>3, <1>4, <1>5, StepKinds

\* liquidate and liquidate_for_margin never take collateral worth more than what they repay
\* and the incentive, whatever is clamped and however the conversions round.
THEOREM SeizuresArePaidFor == Spec => SeizedWithinIncentive
<1>1. TypeOK /\ [Next]_vars => [\A r, c \in Markets : r # c => TakesItsDue(r, c)]_vars
  BY TakesItsDueStep
<1> QED BY TypeCorrect, <1>1, PTL DEF Spec, SeizedWithinIncentive

-----------------------------------------------------------------------------
(* Values *)

Books == [Markets -> Positions]

LEMMA BooksFields ==
    ASSUME NEW pos \in Books, NEW m \in Markets
    PROVE  pos[m].ptokens \in Nat /\ pos[m].debt \in Nat /\ pos[m].rate \in Nat \ {0}
  BY DEF Books, Positions

LEMMA UsdGrows ==
    ASSUME TypeOK, NEW a \in Nat, NEW b \in Nat, NEW m \in Markets, a <= b
    PROVE  Usd(a, m) <= Usd(b, m)
<1>1. price[m] \in Nat /\ a * price[m] \in Nat /\ b * price[m] \in Nat
  BY ProductNat DEF TypeOK
<1>2. a * price[m] <= b * price[m]
  BY <1>1, ProductMonotone
<1> QED BY <1>1, <1>2, DivMonotone, RiskAssumption DEF Usd

LEMMA UsdOfNothing == ASSUME TypeOK, NEW m \in Markets PROVE Usd(0, m) = 0
<1>1. 0 * price[m] = 0
  BY DEF TypeOK
<1> QED BY <1>1, RiskAssumption DEF Usd

\* Two amounts converted apart lose at most one unit against both together.
LEMMA UsdSplits ==
    ASSUME TypeOK, NEW a \in Nat, NEW b \in Nat, NEW m \in Markets
    PROVE  Usd(a + b, m) <= Usd(a, m) + Usd(b, m) + 1
<1> DEFINE p == price[m]
           s == PriceScale
           x == Usd(a, m)
           y == Usd(b, m)
           z == Usd(a + b, m)
<1>1. p \in Nat /\ s \in Nat \ {0}
  BY RiskAssumption DEF TypeOK
<1>2. /\ x = (a * p) \div s /\ y = (b * p) \div s /\ z = ((a + b) * p) \div s
      /\ a * p \in Nat /\ b * p \in Nat /\ (a + b) * p \in Nat
      /\ (a + b) * p = a * p + b * p
  BY <1>1, ProductNat DEF Usd
<1> HIDE DEF p, s, x, y, z
<1>3. /\ x \in Nat /\ y \in Nat /\ z \in Nat
      /\ a * p < x * s + s /\ b * p < y * s + s /\ z * s <= (a + b) * p
  BY <1>1, <1>2, DivNat
<1>4. z * s < (x + y + 2) * s
  <2>1. (x + y + 2) * s = x * s + y * s + 2 * s
    BY <1>1, <1>3
  <2>2. x * s \in Nat /\ y * s \in Nat /\ z * s \in Nat
    BY <1>1, <1>3, ProductNat
  <2> QED BY <1>1, <1>2, <1>3, <2>1, <2>2
<1>5. ~(x + y + 2 <= z)
  <2>1. SUFFICES ASSUME x + y + 2 <= z PROVE FALSE
    OBVIOUS
  <2>2. (x + y + 2) * s <= z * s
    BY <1>1, <1>3, <2>1, ProductMonotone
  <2>3. (x + y + 2) * s \in Nat /\ z * s \in Nat
    BY <1>1, <1>3, ProductNat
  <2> QED BY <1>4, <2>2, <2>3
<1> QED BY <1>3, <1>5 DEF x, y, z

\* The underlying and its discounted part, the two floors inside Backing.
Held(n, rate) == (n * rate) \div Scale
Discounted(amount, m) == (amount * CollateralFactor[m]) \div Scale

LEMMA BackingGrows ==
    ASSUME TypeOK, NEW m \in Markets, NEW n \in Nat, NEW k \in Nat, NEW r \in Nat, NEW s \in Nat,
           n <= k, r <= s
    PROVE  /\ Backing(n, r, m) \in Nat /\ Backing(k, s, m) \in Nat
           /\ Backing(n, r, m) <= Backing(k, s, m)
<1>1. /\ Scale \in Nat \ {0} /\ CollateralFactor[m] \in Nat
  BY RiskAssumption
<1>2. /\ n * r \in Nat /\ k * s \in Nat /\ k * r \in Nat
      /\ n * r <= k * r /\ r * k <= s * k /\ r * k = k * r /\ s * k = k * s
  BY ProductNat, ProductMonotone
<1>3. n * r <= k * s
  BY <1>2
<1> DEFINE h == (n * r) \div Scale
           i == (k * s) \div Scale
<1>4. h \in Nat /\ i \in Nat /\ h <= i
  BY <1>1, <1>2, <1>3, DivNat, DivMonotone
<1>5. Backing(n, r, m) = Usd((h * CollateralFactor[m]) \div Scale, m)
      /\ Backing(k, s, m) = Usd((i * CollateralFactor[m]) \div Scale, m)
  BY DEF Backing
<1> HIDE DEF h, i
<1> DEFINE c == (h * CollateralFactor[m]) \div Scale
           e == (i * CollateralFactor[m]) \div Scale
<1>6. h * CollateralFactor[m] \in Nat /\ i * CollateralFactor[m] \in Nat
      /\ h * CollateralFactor[m] <= i * CollateralFactor[m]
  BY <1>1, <1>4, ProductNat, ProductMonotone
<1>7. c \in Nat /\ e \in Nat /\ c <= e
  BY <1>1, <1>6, DivNat, DivMonotone
<1> HIDE DEF c, e
<1>8. Usd(c, m) \in Nat /\ Usd(e, m) \in Nat /\ Usd(c, m) <= Usd(e, m)
  BY <1>7, UsdNat, UsdGrows
<1> QED BY <1>5, <1>8 DEF c, e

LEMMA NothingBacks ==
    ASSUME TypeOK, NEW m \in Markets, NEW n \in Nat, NEW r \in Nat,
           n = 0 \/ CollateralFactor[m] = 0
    PROVE  Backing(n, r, m) = 0
<1>1. Scale \in Nat \ {0} /\ CollateralFactor[m] \in Nat /\ 0 \div Scale = 0
  BY RiskAssumption
<1>2. (n * r) \div Scale \in Nat
  BY <1>1, ProductNat, DivNat
<1>3. ((n * r) \div Scale) * CollateralFactor[m] = 0
  <2>1. CASE n = 0
    <3>1. (n * r) \div Scale = 0
      <4>1. n * r = 0
        BY <2>1
      <4> QED BY <1>1, <4>1
    <3> QED BY <1>1, <3>1
  <2>2. CASE CollateralFactor[m] = 0
    BY <1>2, <2>2
  <2> QED BY <2>1, <2>2
<1> QED BY <1>1, <1>3, UsdOfNothing DEF Backing

\* What is known of a market is no more than there is.
LEMMA KnownWithin ==
    ASSUME TypeOK, NEW pos \in Books, NEW m \in Markets
    PROVE  /\ DebtUsd(pos, m) \in Nat /\ Usd(pos[m].debt, m) \in Nat
           /\ DebtUsd(pos, m) <= Usd(pos[m].debt, m)
           /\ CollateralUsd(pos, m) \in Nat
           /\ Backing(pos[m].ptokens, pos[m].rate, m) \in Nat
           /\ CollateralUsd(pos, m) <= Backing(pos[m].ptokens, pos[m].rate, m)
<1>1. pos[m].ptokens \in Nat /\ pos[m].debt \in Nat /\ pos[m].rate \in Nat
  BY BooksFields
<1>2. Usd(pos[m].debt, m) \in Nat
  BY <1>1, UsdNat
<1>3. Balance(pos, m) \in Nat /\ Balance(pos, m) <= pos[m].ptokens
  BY <1>1 DEF Balance
<1>4. /\ Backing(Balance(pos, m), pos[m].rate, m) \in Nat
      /\ Backing(pos[m].ptokens, pos[m].rate, m) \in Nat
      /\ Backing(Balance(pos, m), pos[m].rate, m) <= Backing(pos[m].ptokens, pos[m].rate, m)
  <2> DEFINE n == Balance(pos, m)
             k == pos[m].ptokens
             r == pos[m].rate
  <2>1. n \in Nat /\ k \in Nat /\ r \in Nat /\ n <= k /\ r <= r
    BY <1>1, <1>3
  <2> HIDE DEF n, k, r
  <2>2. /\ Backing(n, r, m) \in Nat /\ Backing(k, r, m) \in Nat
        /\ Backing(n, r, m) <= Backing(k, r, m)
    BY <2>1, BackingGrows
  <2> QED BY <2>2 DEF n, k, r
<1> QED BY <1>2, <1>4 DEF DebtUsd, CollateralUsd

\* Sums over the markets ms, and with one market taken out.
LEMMA KnownSums ==
    ASSUME TypeOK, NEW pos \in Books, NEW ms \in SUBSET Markets
    PROVE  /\ KnownDebt(pos, ms) \in Nat /\ KnownCollateral(pos, ms) \in Nat
           /\ \A m \in ms :
                /\ KnownDebt(pos, ms) = DebtUsd(pos, m) + KnownDebt(pos, ms \ {m})
                /\ KnownCollateral(pos, ms)
                     = CollateralUsd(pos, m) + KnownCollateral(pos, ms \ {m})
<1> DEFINE f == [m \in Markets |-> DebtUsd(pos, m)]
           g == [m \in Markets |-> CollateralUsd(pos, m)]
<1>1. IsFiniteSet(ms)
  BY MarketsAssumption, FS_Subset
<1>2. \A m \in ms : /\ f[m] \in Nat /\ g[m] \in Nat
                    /\ f[m] = DebtUsd(pos, m) /\ g[m] = CollateralUsd(pos, m)
  BY KnownWithin
<1>3. \A s : KnownDebt(pos, s) = SumFunctionOnSet(f, s)
             /\ KnownCollateral(pos, s) = SumFunctionOnSet(g, s)
  BY DEF KnownDebt, KnownCollateral
<1> HIDE DEF f, g
<1>4. SumFunctionOnSet(f, ms) \in Nat /\ SumFunctionOnSet(g, ms) \in Nat
  BY <1>1, <1>2, SumNat
<1>5. ASSUME NEW m \in ms
      PROVE  /\ SumFunctionOnSet(f, ms) = f[m] + SumFunctionOnSet(f, ms \ {m})
             /\ SumFunctionOnSet(g, ms) = g[m] + SumFunctionOnSet(g, ms \ {m})
  <2>1. (\A x \in ms : f[x] \in Int) /\ (\A x \in ms : g[x] \in Int)
    BY <1>2
  <2> QED BY <1>1, <2>1, SumRemove
<1> QED BY <1>2, <1>3, <1>4, <1>5

\* The same for what there is.
Owed(pos) == [m \in Markets |-> Usd(pos[m].debt, m)]
Backed(pos) == [m \in Markets |-> Backing(pos[m].ptokens, pos[m].rate, m)]

LEMMA TrueSums ==
    ASSUME TypeOK, NEW pos \in Books
    PROVE  /\ OwedIn(pos) = SumFunctionOnSet(Owed(pos), Markets)
           /\ BackedIn(pos) = SumFunctionOnSet(Backed(pos), Markets)
           /\ OwedIn(pos) \in Nat /\ BackedIn(pos) \in Nat
           /\ \A m \in Markets : /\ Owed(pos)[m] = Usd(pos[m].debt, m)
                                 /\ Backed(pos)[m] = Backing(pos[m].ptokens, pos[m].rate, m)
                                 /\ Owed(pos)[m] \in Nat /\ Backed(pos)[m] \in Nat
<1>1. \A m \in Markets : /\ Owed(pos)[m] = Usd(pos[m].debt, m)
                         /\ Backed(pos)[m] = Backing(pos[m].ptokens, pos[m].rate, m)
                         /\ Owed(pos)[m] \in Nat /\ Backed(pos)[m] \in Nat
  BY KnownWithin DEF Owed, Backed
<1>2. /\ OwedIn(pos) = SumFunctionOnSet(Owed(pos), Markets)
      /\ BackedIn(pos) = SumFunctionOnSet(Backed(pos), Markets)
  BY DEF OwedIn, BackedIn, SumFunction, Owed, Backed
<1>3. SumFunctionOnSet(Owed(pos), Markets) \in Nat /\ SumFunctionOnSet(Backed(pos), Markets) \in Nat
  BY <1>1, MarketsAssumption, SumNat
<1> QED BY <1>1, <1>2, <1>3

LEMMA PositionBooks == ASSUME TypeOK PROVE position \in Books
  BY DEF TypeOK, Books, Positions

-----------------------------------------------------------------------------
(* Who can be liquidated *)

LEMMA ShortIsReal == ASSUME TypeOK PROVE OnlyShortAreLiquidatable
<1> SUFFICES ASSUME Short, \A m \in Markets : ~Overlooked(m)
             PROVE  OwedIn(position) > BackedIn(position)
  BY DEF OnlyShortAreLiquidatable
<1> DEFINE f == [m \in Markets |-> DebtUsd(position, m)]
           g == [m \in Markets |-> CollateralUsd(position, m)]
           o == Owed(position)
           b == Backed(position)
<1>1. position \in Books
  BY PositionBooks
<1>2. ASSUME NEW m \in Markets PROVE CollateralUsd(position, m) = b[m]
  <2>1. position[m].ptokens \in Nat /\ position[m].rate \in Nat
        /\ b[m] = Backing(position[m].ptokens, position[m].rate, m)
    BY <1>1, BooksFields DEF Backed
  <2>2. CASE position[m].ptokens = 0 \/ CollateralFactor[m] = 0
    <3>1. Balance(position, m) \in Nat
          /\ (Balance(position, m) = 0 \/ CollateralFactor[m] = 0)
      BY <2>1, <2>2 DEF Balance
    <3>2. Backing(Balance(position, m), position[m].rate, m) = 0 /\ b[m] = 0
      BY <2>1, <2>2, <3>1, NothingBacks
    <3> QED BY <3>2 DEF CollateralUsd
  <2>3. CASE position[m].ptokens # 0 /\ CollateralFactor[m] # 0
    <3>1. CollateralFactor[m] > 0
      BY <2>3, RiskAssumption
    <3>2. fault[m] # "balance" /\ fault[m] # "rate" /\ m \in quoted
      BY <2>1, <2>3, <3>1 DEF Short, CollateralUnknown, Overlooked
    <3>3. Balance(position, m) = position[m].ptokens /\ Balance(position, m) > 0
      BY <2>1, <2>3, <3>2 DEF Balance
    <3>4. ~DebtUnknown(position, m)
      BY <3>1, <3>3 DEF Short, CollateralUnknown
    <3> QED BY <2>1, <3>2, <3>3, <3>4 DEF CollateralUsd
  <2> QED BY <2>2, <2>3
<1>3. \A m \in Markets : /\ f[m] \in Int /\ o[m] \in Int /\ f[m] <= o[m]
                         /\ g[m] \in Int /\ b[m] \in Int /\ g[m] = b[m]
  BY <1>1, <1>2, KnownWithin DEF Owed, Backed
<1>4. KnownDebt(position, Markets) = SumFunctionOnSet(f, Markets)
      /\ KnownCollateral(position, Markets) = SumFunctionOnSet(g, Markets)
  BY DEF KnownDebt, KnownCollateral
<1> HIDE DEF f, g, o, b
<1>5. SumFunctionOnSet(f, Markets) <= SumFunctionOnSet(o, Markets)
  BY <1>3, MarketsAssumption, SumMonotone
<1>6. SumFunctionOnSet(g, Markets) = SumFunctionOnSet(b, Markets)
  BY <1>3, MarketsAssumption, SumSame
<1>7. /\ OwedIn(position) = SumFunctionOnSet(o, Markets) /\ OwedIn(position) \in Nat
      /\ BackedIn(position) = SumFunctionOnSet(b, Markets) /\ BackedIn(position) \in Nat
  BY <1>1, TrueSums DEF o, b
<1>8. KnownDebt(position, Markets) \in Nat /\ KnownCollateral(position, Markets) \in Nat
  BY <1>1, KnownSums
<1> QED BY <1>4, <1>5, <1>6, <1>7, <1>8 DEF Short

\* The gate of liquidate and repay_on_behalf_for_liquidator opens only for an account whose
\* debts, every read made good, exceed its collateral, or one that has collateral without a
\* price or an exchange rate: whichever other reads of whichever markets fail.
THEOREM LiquidatableAreShort == Spec => []OnlyShortAreLiquidatable
<1>1. TypeOK => OnlyShortAreLiquidatable
  BY ShortIsReal
<1> QED BY <1>1, TypeCorrect, PTL

-----------------------------------------------------------------------------
(* Previews *)

\* A market that can be read and valued counts with all that is in it.
LEMMA KnownInFull ==
    ASSUME TypeOK, NEW pos \in Books, NEW m \in Markets, fault[m] = "none",
           m \in quoted \/ pos[m].debt = 0
    PROVE  /\ ~DebtUnknown(pos, m)
           /\ DebtUsd(pos, m) = Usd(pos[m].debt, m)
           /\ m \in quoted => CollateralUsd(pos, m) = Backing(pos[m].ptokens, pos[m].rate, m)
<1>1. pos[m].debt \in Nat
  BY BooksFields
<1>2. ~DebtUnknown(pos, m)
  BY <1>1 DEF DebtUnknown
<1>3. Balance(pos, m) = pos[m].ptokens
  BY DEF Balance
<1> QED BY <1>2, <1>3 DEF DebtUsd, CollateralUsd

\* Turning USD into the token with a floor and back gives no more USD.
LEMMA UsdOfTokens ==
    ASSUME TypeOK, NEW x \in Nat, NEW m \in Markets
    PROVE  /\ (x * PriceScale) \div price[m] \in Nat
           /\ Usd((x * PriceScale) \div price[m], m) <= x
<1> DEFINE q == (x * PriceScale) \div price[m]
<1>1. price[m] \in Nat \ {0} /\ PriceScale \in Nat \ {0} /\ x * PriceScale \in Nat
  BY RiskAssumption, ProductNat DEF TypeOK
<1>2. q \in Nat /\ q * price[m] <= x * PriceScale
  BY <1>1, DivNat
<1> HIDE DEF q
<1>3. Usd(q, m) \in Nat /\ Usd(q, m) * PriceScale <= q * price[m]
  BY <1>2, UsdNat
<1>4. q * price[m] \in Nat /\ Usd(q, m) * PriceScale \in Nat
  BY <1>1, <1>2, <1>3, ProductNat
<1>5. Usd(q, m) * PriceScale <= x * PriceScale
  BY <1>1, <1>2, <1>3, <1>4
<1>6. Usd(q, m) <= x
  BY <1>1, <1>3, <1>5, CancelFactor
<1> QED BY <1>2, <1>6 DEF q

LEMMA BorrowPreviewSound == ASSUME TypeOK PROVE BorrowPreviewHonoured
<1> SUFFICES ASSUME NEW m \in Markets, \A o \in Markets : due[o] = 0 /\ fault[o] = "none",
                    m \in quoted, PreviewBorrowMax(m) > 0
             PROVE  BorrowCovered(position, m, PreviewBorrowMax(m))
  BY DEF BorrowPreviewHonoured
<1> DEFINE others == Markets \ {m}
           kd == KnownDebt(position, Markets)
           kc == KnownCollateral(position, Markets)
           x == Minus(kc, kd)
           b == PreviewBorrowMax(m)
<1>1. position \in Books /\ Markets \in SUBSET Markets /\ others \in SUBSET Markets
  BY PositionBooks
<1>2. ~Indeterminate(position, Markets) /\ b = (x * PriceScale) \div price[m]
  BY DEF PreviewBorrowMax
<1>3. ~Indeterminate(position, others) /\ \A o \in others : fault[o] # "accrual"
  BY <1>2 DEF Indeterminate
<1>4. /\ kd \in Nat /\ kc \in Nat
      /\ kd = DebtUsd(position, m) + KnownDebt(position, others)
      /\ kc = CollateralUsd(position, m) + KnownCollateral(position, others)
      /\ KnownDebt(position, others) \in Nat /\ KnownCollateral(position, others) \in Nat
  BY <1>1, KnownSums
<1>5. /\ DebtUsd(position, m) = Usd(position[m].debt, m)
      /\ CollateralUsd(position, m) = Backing(position[m].ptokens, position[m].rate, m)
      /\ DebtUsd(position, m) \in Nat /\ CollateralUsd(position, m) \in Nat
  BY <1>1, KnownInFull, KnownWithin
<1>6. x \in Nat /\ (kd <= kc => x = kc - kd) /\ (~(kd <= kc) => x = 0)
  BY <1>4 DEF Minus
<1> HIDE DEF kd, kc, x, b
<1>7. b \in Nat /\ Usd(b, m) \in Nat /\ Usd(b, m) <= x
  BY <1>2, <1>6, UsdOfTokens, UsdNat
<1>8. x # 0
  <2>1. ASSUME x = 0 PROVE FALSE
    <3>1. PriceScale \in Nat /\ price[m] \in Nat \ {0}
      BY RiskAssumption DEF TypeOK
    <3>2. (x * PriceScale) \div price[m] = 0
      BY <2>1, <3>1
    <3>3. b > 0
      BY DEF b
    <3> QED BY <1>2, <3>2, <3>3
  <2> QED BY <2>1
<1>9. KnownDebt(position, others) + Usd(position[m].debt, m) + Usd(b, m)
        <= KnownCollateral(position, others) + Backing(position[m].ptokens, position[m].rate, m)
  BY <1>4, <1>5, <1>6, <1>7, <1>8
<1> QED BY <1>3, <1>9 DEF BorrowCovered, b

\* preview_borrow_max never names an amount that hypothetical_liquidity_with_hint would
\* refuse: the two convert the account's values differently, and agree where it matters.
THEOREM BorrowPreviewSafe == Spec => []BorrowPreviewHonoured
<1>1. TypeOK => BorrowPreviewHonoured
  BY BorrowPreviewSound
<1> QED BY <1>1, TypeCorrect, PTL

\* The part of the held underlying that a redemption of r pTokens leaves.
LEMMA RedeemLeaves ==
    ASSUME NEW pt \in Nat, NEW rate \in Nat \ {0}, NEW kept \in Nat, NEW r \in Nat,
           r = (Minus(Held(pt, rate), kept) * Scale) \div rate, r > 0
    PROVE  pt - r \in Nat /\ kept <= Held(pt - r, rate)
<1> DEFINE held == Held(pt, rate)
           spare == Minus(held, kept)
<1>1. Scale \in Nat \ {0} /\ pt * rate \in Nat
  BY RiskAssumption, ProductNat
<1>2. held \in Nat /\ held * Scale <= pt * rate
  BY <1>1, DivNat DEF Held
<1> HIDE DEF held
<1>3. spare \in Nat /\ (kept <= held => spare = held - kept) /\ (~(kept <= held) => spare = 0)
  BY <1>2 DEF Minus
<1> HIDE DEF spare
<1>4. spare * Scale \in Nat /\ r = (spare * Scale) \div rate
  BY <1>1, <1>3, ProductNat DEF spare, held
<1>5. r * rate <= spare * Scale
  BY <1>4, DivNat
<1>6. spare # 0
  <2>1. ASSUME spare = 0 PROVE FALSE
    <3>1. (spare * Scale) \div rate = 0
      BY <1>1, <2>1
    <3> QED BY <1>4, <3>1
  <2> QED BY <2>1
<1>7. spare = held - kept /\ kept <= held
  BY <1>3, <1>6
<1>8. spare * Scale = held * Scale - kept * Scale
  BY <1>1, <1>2, <1>7
<1>9. /\ r * rate \in Nat /\ kept * Scale \in Nat /\ held * Scale \in Nat
  BY <1>1, <1>2, ProductNat
<1>10. r * rate <= pt * rate /\ kept * Scale <= pt * rate - r * rate
  BY <1>1, <1>2, <1>5, <1>8, <1>9
<1>11. r <= pt
  BY <1>10, CancelFactor
<1>12. pt - r \in Nat /\ (pt - r) * rate = pt * rate - r * rate
  BY <1>11
<1>13. (pt - r) * rate \in Nat /\ kept * Scale <= (pt - r) * rate
  BY <1>10, <1>12, ProductNat
<1>14. kept <= ((pt - r) * rate) \div Scale
  BY <1>1, <1>13, DivAtLeast
<1> QED BY <1>12, <1>14 DEF Held

\* The worth of what is kept for a required USD amount falls short of it by its roundings.
LEMMA KeptBacks ==
    ASSUME TypeOK, NEW m \in Markets, NEW required \in Nat, NEW h \in Nat,
           CollateralFactor[m] # 0,
           (required * Scale * PriceScale) \div (CollateralFactor[m] * price[m]) <= h
    PROVE  required <= Usd((h * CollateralFactor[m]) \div Scale, m) + Usd(2, m) + 1
<1> DEFINE cf == CollateralFactor[m]
           p == price[m]
           s == Scale
           ps == PriceScale
           unit == cf * p
           kept == (required * s * ps) \div unit
           d == (h * cf) \div s
<1>1. cf \in Nat \ {0} /\ p \in Nat \ {0} /\ s \in Nat \ {0} /\ ps \in Nat \ {0} /\ cf <= s
  BY RiskAssumption DEF TypeOK
<1>2. kept <= h /\ d = (h * CollateralFactor[m]) \div Scale
  OBVIOUS
<1>3. \A a \in Nat : Usd(a, m) \in Nat /\ a * p < Usd(a, m) * ps + ps
  <2> SUFFICES ASSUME NEW a \in Nat PROVE Usd(a, m) \in Nat /\ a * p < Usd(a, m) * ps + ps
    OBVIOUS
  <2>1. a * p \in Nat /\ Usd(a, m) = (a * p) \div ps
    BY <1>1, ProductNat DEF Usd
  <2> QED BY <1>1, <2>1, DivNat
<1> HIDE DEF cf, p, s, ps
<1>4. unit \in Nat \ {0}
  BY <1>1
<1>5. required * s * ps \in Nat
  BY <1>1, ProductNat
<1> HIDE DEF unit
<1>6. kept \in Nat /\ required * s * ps < kept * unit + unit
  BY <1>4, <1>5, DivNat
<1> HIDE DEF kept
<1>7. h * cf \in Nat /\ d \in Nat /\ h * cf < d * s + s
  BY <1>1, ProductNat, DivNat
<1> HIDE DEF d
<1>8. required * s * ps < ((h + 1) * cf) * p
  <2>1. (kept + 1) * unit <= (h + 1) * unit
    BY <1>2, <1>4, <1>6, ProductMonotone
  <2>2. (kept + 1) * unit = kept * unit + unit
    BY <1>4, <1>6
  <2>3. (h + 1) * unit = ((h + 1) * cf) * p
    BY <1>1 DEF unit
  <2>4. kept * unit \in Nat /\ (h + 1) * unit \in Nat
    BY <1>4, <1>6, ProductNat
  <2> QED BY <1>4, <1>5, <1>6, <2>1, <2>2, <2>3, <2>4
<1>9. ((h + 1) * cf) * p <= ((d + 2) * s) * p
  <2>1. (h + 1) * cf = h * cf + cf /\ (d + 2) * s = d * s + 2 * s /\ d * s \in Nat
    BY <1>1, <1>7, ProductNat
  <2>2. (h + 1) * cf <= (d + 2) * s
    BY <1>1, <1>7, <2>1
  <2>3. (h + 1) * cf \in Nat /\ (d + 2) * s \in Nat
    BY <1>1, <1>7, ProductNat
  <2> QED BY <1>1, <2>2, <2>3, ProductMonotone
<1>10. ~((d + 2) * p <= required * ps)
  <2>1. SUFFICES ASSUME (d + 2) * p <= required * ps PROVE FALSE
    OBVIOUS
  <2>2. (d + 2) * p \in Nat /\ required * ps \in Nat /\ ((h + 1) * cf) * p \in Nat
        /\ ((d + 2) * s) * p \in Nat
    BY <1>1, <1>7, ProductNat
  <2>3. ((d + 2) * p) * s <= (required * ps) * s
    BY <1>1, <2>1, <2>2, ProductMonotone
  <2>4. ((d + 2) * p) * s = ((d + 2) * s) * p /\ (required * ps) * s = required * s * ps
    BY <1>1, <1>7
  <2> QED BY <1>5, <1>8, <1>9, <2>2, <2>3, <2>4
<1> DEFINE u == Usd(d + 2, m)
<1>11. u \in Nat /\ (d + 2) * p < u * ps + ps
  BY <1>3, <1>7
<1> HIDE DEF u
<1>12. required <= u
  <2>1. SUFFICES ASSUME u + 1 <= required PROVE FALSE
    BY <1>11
  <2>2. (u + 1) * ps <= required * ps
    BY <1>1, <1>11, <2>1, ProductMonotone
  <2>3. (u + 1) * ps = u * ps + ps
    BY <1>1, <1>11
  <2>4. u * ps \in Nat /\ required * ps \in Nat /\ (d + 2) * p \in Nat
    BY <1>1, <1>7, <1>11, ProductNat
  <2> QED BY <1>1, <1>10, <1>11, <2>2, <2>3, <2>4
<1>13. u <= Usd(d, m) + Usd(2, m) + 1
  BY <1>7, UsdSplits DEF u
<1>14. Usd(d, m) \in Nat /\ Usd(2, m) \in Nat
  BY <1>3, <1>7
<1> QED BY <1>2, <1>11, <1>12, <1>13, <1>14

LEMMA RedeemPreviewNearlySound == ASSUME TypeOK PROVE RedeemPreviewNearlyHonoured
<1> SUFFICES ASSUME NEW m \in Markets, \A o \in Markets : due[o] = 0 /\ fault[o] = "none",
                    m \in quoted, PreviewRedeemMax(m) > 0
             PROVE  KnownDebt(position, Markets)
                      <= KnownCollateral(position, Markets \ {m})
                         + Backing(position[m].ptokens - PreviewRedeemMax(m), position[m].rate, m)
                         + Usd(2, m) + 1
  BY DEF RedeemPreviewNearlyHonoured
<1> DEFINE kd == KnownDebt(position, Markets)
           ko == KnownCollateral(position, Markets \ {m})
           pt == position[m].ptokens
           rate == position[m].rate
           r == PreviewRedeemMax(m)
           required == Minus(kd, ko)
           kept == (required * Scale * PriceScale) \div (CollateralFactor[m] * price[m])
<1>1. position \in Books
  BY PositionBooks
<1>2. kd \in Nat /\ ko \in Nat
  <2>1. Markets \in SUBSET Markets /\ Markets \ {m} \in SUBSET Markets
    OBVIOUS
  <2> QED BY <1>1, <2>1, KnownSums
<1>3. pt \in Nat /\ rate \in Nat \ {0} /\ Usd(2, m) \in Nat
  BY <1>1, BooksFields, UsdNat
<1>4. ~Indeterminate(position, Markets)
  BY DEF PreviewRedeemMax
<1>5. CASE kd = 0
  <2>1. r = pt
    BY <1>4, <1>5 DEF PreviewRedeemMax
  <2>2. pt - pt = 0 /\ Backing(0, rate, m) = 0
    BY <1>3, NothingBacks
  <2> HIDE DEF kd, ko, pt, rate, r
  <2>3. Backing(pt - r, rate, m) = 0
    BY <2>1, <2>2
  <2>4. kd <= ko + Backing(pt - r, rate, m) + Usd(2, m) + 1
    BY <1>2, <1>3, <1>5, <2>3
  <2> QED BY <2>4 DEF kd, ko, pt, rate, r
<1>6. CASE kd # 0
  <2>1. CollateralFactor[m] # 0 /\ r = (Minus(Held(pt, rate), kept) * Scale) \div rate
    BY <1>4, <1>6 DEF PreviewRedeemMax, Held
  <2>2. required \in Nat /\ kd - ko <= required
    <3> HIDE DEF kd, ko
    <3> QED BY <1>2 DEF Minus
  <2>3. r > 0
    OBVIOUS
  <2> HIDE DEF kd, ko, pt, rate, r, required
  <2>4. kept \in Nat
    <3>1. required * Scale * PriceScale \in Nat /\ CollateralFactor[m] * price[m] \in Nat \ {0}
      <4>1. Scale \in Nat /\ PriceScale \in Nat /\ CollateralFactor[m] \in Nat \ {0}
            /\ price[m] \in Nat \ {0}
        BY <2>1, RiskAssumption DEF TypeOK
      <4> QED BY <2>2, <4>1, ProductNat
    <3> QED BY <3>1, DivNat
  <2> HIDE DEF kept
  <2>5. r \in Nat
    <3>1. Held(pt, rate) \in Nat
      BY <1>3, RiskAssumption, ProductNat, DivNat DEF Held
    <3>2. Minus(Held(pt, rate), kept) \in Nat
      BY <2>4, <3>1 DEF Minus
    <3>3. Minus(Held(pt, rate), kept) * Scale \in Nat
      BY <3>2, RiskAssumption, ProductNat
    <3> QED BY <1>3, <2>1, <3>3, DivNat
  <2>6. pt - r \in Nat /\ kept <= Held(pt - r, rate)
    BY <1>3, <2>1, <2>3, <2>4, <2>5, RedeemLeaves
  <2> DEFINE h == Held(pt - r, rate)
  <2>7. h \in Nat
    <3>1. (pt - r) * rate \in Nat
      BY <1>3, <2>6, ProductNat
    <3> QED BY <3>1, RiskAssumption, DivNat DEF Held
  <2>8. Backing(pt - r, rate, m) = Usd((h * CollateralFactor[m]) \div Scale, m)
    BY DEF Backing, Held
  <2> HIDE DEF h
  <2>9. required <= Usd((h * CollateralFactor[m]) \div Scale, m) + Usd(2, m) + 1
    BY <2>1, <2>2, <2>6, <2>7, KeptBacks DEF kept, h
  <2>10. Usd((h * CollateralFactor[m]) \div Scale, m) \in Nat
    <3>1. CollateralFactor[m] \in Nat /\ Scale \in Nat \ {0}
      BY RiskAssumption
    <3>2. (h * CollateralFactor[m]) \div Scale \in Nat
      BY <2>7, <3>1, ProductNat, DivNat
    <3> QED BY <3>2, UsdNat
  <2>11. kd <= ko + Backing(pt - r, rate, m) + Usd(2, m) + 1
    BY <1>2, <1>3, <2>2, <2>8, <2>9, <2>10
  <2> QED BY <2>11 DEF kd, ko, pt, rate, r
<1> QED BY <1>5, <1>6

\* Redeeming what preview_redeem_max names leaves an account that owes something short by
\* its roundings only: it reckons how much underlying must stay from the USD amount that the
\* other markets do not cover, and each of the conversions cuts at most a unit.
THEOREM RedeemPreviewNearlySafe == Spec => []RedeemPreviewNearlyHonoured
<1>1. TypeOK => RedeemPreviewNearlyHonoured
  BY RedeemPreviewNearlySound
<1> QED BY <1>1, TypeCorrect, PTL

-----------------------------------------------------------------------------
(* What the account's own steps do to its gap *)

\* All interest booked, in one market.
LEMMA FullyAccrued ==
    ASSUME TypeOK, NEW m \in Markets
    PROVE  /\ Accrued(Markets)[m] \in Positions
           /\ Accrued(Markets)[m].ptokens = position[m].ptokens
           /\ Accrued(Markets)[m].debt \in Nat /\ Accrued(Markets)[m].rate \in Nat
           /\ position[m].debt = 0 => Accrued(Markets)[m].debt = 0
           /\ position[m].rate \in Nat /\ position[m].rate <= Accrued(Markets)[m].rate
           /\ \A ms \in SUBSET Markets : m \in ms => Accrued(ms)[m] = Accrued(Markets)[m]
<1> DEFINE p == position[m]
           debt == IF p.debt > 0 THEN p.debt + due[m] ELSE 0
           a == Accrued(Markets)[m]
<1>1. p \in Positions /\ due[m] \in Nat
  BY DEF TypeOK, Positions
<1>2. a = [p EXCEPT !.debt = debt, !.rate = p.rate + due[m]]
      /\ \A ms \in SUBSET Markets : m \in ms => Accrued(ms)[m] = a
  BY DEF Accrued
<1>3. a = [ptokens |-> p.ptokens, debt |-> debt, rate |-> p.rate + due[m]]
  BY <1>1, <1>2 DEF Positions
<1>4. p.ptokens \in Nat /\ p.debt \in Nat /\ p.rate \in Nat \ {0}
  BY <1>1 DEF Positions
<1>5. debt \in Nat /\ (p.debt = 0 => debt = 0) /\ p.rate + due[m] \in Nat \ {0}
      /\ p.rate <= p.rate + due[m]
  BY <1>1, <1>4
<1> HIDE DEF p, debt
<1>6. a.ptokens = p.ptokens /\ a.debt = debt /\ a.rate = p.rate + due[m] /\ a \in Positions
  BY <1>3, <1>4, <1>5 DEF Positions
<1> HIDE DEF a
<1> QED BY <1>2, <1>4, <1>5, <1>6 DEF a, p

\* Accruing some markets first changes nothing of what all interest will come to: a market
\* given a position once accrued has that position in the end too.
LEMMA RevisedInFull ==
    ASSUME TypeOK, NEW ms \in SUBSET Markets, NEW m \in ms, NEW p \in Positions,
           Revised(ms, m, p)
    PROVE  Accrued(Markets)' = [Accrued(Markets) EXCEPT ![m] = p]
<1> DEFINE A == Accrued(Markets)
           new == position'
           owed == due'
           B == [o \in Markets |-> [new[o] EXCEPT !.debt = IF @ > 0 THEN @ + owed[o] ELSE 0,
                                                  !.rate = @ + owed[o]]]
<1>1. Accrued(Markets)' = B
  BY DEF Accrued
<1>2. /\ new = [Accrued(ms) EXCEPT ![m] = p] /\ owed = DueAfter(ms)
      /\ Accrued(ms) \in [Markets -> Positions]
  BY AccruedType DEF Revised
<1>3. new[m] = p /\ owed[m] = 0
  BY <1>2 DEF DueAfter
<1>4. B[m] = p
  <2>1. B[m] = [p EXCEPT !.debt = IF p.debt > 0 THEN p.debt + 0 ELSE 0, !.rate = p.rate + 0]
    BY <1>3
  <2>2. p.debt \in Nat /\ p.rate \in Nat
    BY DEF Positions
  <2>3. (IF p.debt > 0 THEN p.debt + 0 ELSE 0) = p.debt /\ p.rate + 0 = p.rate
    BY <2>2
  <2>4. B[m] = [p EXCEPT !.debt = p.debt, !.rate = p.rate]
    BY <2>1, <2>3
  <2> HIDE DEF B
  <2> QED BY <2>4 DEF Positions
<1>5. ASSUME NEW o \in Markets, o # m PROVE B[o] = A[o]
  <2>1. new[o] = Accrued(ms)[o]
    BY <1>2, <1>5
  <2>2. CASE o \in ms
    <3> DEFINE a == A[o]
    <3>1. a \in Positions /\ Accrued(ms)[o] = a
      BY <2>2, FullyAccrued
    <3>2. owed[o] = 0
      BY <1>2, <2>2 DEF DueAfter
    <3> HIDE DEF a
    <3>3. B[o] = [a EXCEPT !.debt = IF a.debt > 0 THEN a.debt + 0 ELSE 0, !.rate = a.rate + 0]
      BY <2>1, <3>1, <3>2
    <3>4. a.debt \in Nat /\ a.rate \in Nat
      BY <3>1 DEF Positions
    <3>5. (IF a.debt > 0 THEN a.debt + 0 ELSE 0) = a.debt /\ a.rate + 0 = a.rate
      BY <3>4
    <3>6. B[o] = [a EXCEPT !.debt = a.debt, !.rate = a.rate]
      BY <3>3, <3>5
    <3> HIDE DEF B
    <3>7. B[o] = a
      BY <3>1, <3>6 DEF Positions
    <3> QED BY <3>7 DEF a
  <2>3. CASE o \notin ms
    <3>1. new[o] = position[o]
      BY <2>1, <2>3, AccruedType
    <3>2. owed[o] = due[o]
      BY <1>2, <2>3 DEF DueAfter
    <3> QED BY <3>1, <3>2 DEF Accrued
  <2> QED BY <2>2, <2>3
<1>6. B = [o \in Markets |-> B[o]] /\ A = [o \in Markets |-> A[o]]
  BY DEF Accrued
<1> HIDE DEF A, B
<1> QED BY <1>1, <1>4, <1>5, <1>6 DEF A

\* The gap is the difference of two sums over the markets.
LEMMA GapOfSums ==
    ASSUME TypeOK
    PROVE  /\ Accrued(Markets) \in Books
           /\ Gap = OwedIn(Accrued(Markets)) - BackedIn(Accrued(Markets))
<1>1. Accrued(Markets) \in Books
  <2>1. Markets \in SUBSET Markets
    OBVIOUS
  <2> QED BY <2>1, AccruedType DEF Books
<1> QED BY <1>1 DEF Gap

\* What a step that replaces one market's position does to both sums.
LEMMA GapRevised ==
    ASSUME TypeOK, price' = price, NEW ms \in SUBSET Markets, NEW m \in ms, NEW p \in Positions,
           Revised(ms, m, p)
    PROVE  LET A == Accrued(Markets)
               B == [A EXCEPT ![m] = p]
           IN  /\ A \in Books /\ B \in Books /\ B[m] = p
               /\ Gap = OwedIn(A) - BackedIn(A)
               /\ Gap' = OwedIn(B) - BackedIn(B)
               /\ OwedIn(B) = OwedIn(A) + (Usd(p.debt, m) - Usd(A[m].debt, m))
               /\ BackedIn(B) = BackedIn(A) + (Backing(p.ptokens, p.rate, m)
                                                 - Backing(A[m].ptokens, A[m].rate, m))
<1> DEFINE A == Accrued(Markets)
           B == [A EXCEPT ![m] = p]
<1>1. A \in Books /\ Gap = OwedIn(A) - BackedIn(A)
  BY GapOfSums
<1>2. Accrued(Markets)' = B
  BY RevisedInFull
<1>3. Gap' = OwedIn(B) - BackedIn(B)
  <2>1. Gap' = OwedIn(Accrued(Markets)') - BackedIn(Accrued(Markets)')
    BY DEF Gap, OwedIn, BackedIn, Usd, Backing
  <2> QED BY <1>2, <2>1
<1> HIDE DEF A
<1>4. B \in Books /\ B[m] = p /\ \A o \in Markets \ {m} : B[o] = A[o]
  BY <1>1 DEF Books
<1> HIDE DEF B
<1>5. /\ OwedIn(A) = SumFunctionOnSet(Owed(A), Markets)
      /\ BackedIn(A) = SumFunctionOnSet(Backed(A), Markets)
      /\ OwedIn(B) = SumFunctionOnSet(Owed(B), Markets)
      /\ BackedIn(B) = SumFunctionOnSet(Backed(B), Markets)
  BY <1>1, <1>4, TrueSums
<1>6. \A o \in Markets : /\ Owed(A)[o] = Usd(A[o].debt, o) /\ Owed(A)[o] \in Int
                         /\ Backed(A)[o] = Backing(A[o].ptokens, A[o].rate, o) /\ Backed(A)[o] \in Int
  BY <1>1, TrueSums
<1>7. \A o \in Markets : /\ Owed(B)[o] = Usd(B[o].debt, o) /\ Owed(B)[o] \in Int
                         /\ Backed(B)[o] = Backing(B[o].ptokens, B[o].rate, o) /\ Backed(B)[o] \in Int
  BY <1>4, TrueSums
<1>8. \A o \in Markets \ {m} : Owed(B)[o] = Owed(A)[o] /\ Backed(B)[o] = Backed(A)[o]
  BY <1>4, <1>6, <1>7
<1>9. SumFunctionOnSet(Owed(B), Markets)
        = SumFunctionOnSet(Owed(A), Markets) + (Owed(B)[m] - Owed(A)[m])
  <2> DEFINE f == Owed(A)
             g == Owed(B)
  <2>1. (\A o \in Markets : f[o] \in Int /\ g[o] \in Int) /\ (\A o \in Markets \ {m} : g[o] = f[o])
    BY <1>6, <1>7, <1>8
  <2> HIDE DEF f, g
  <2>2. SumFunctionOnSet(g, Markets) = SumFunctionOnSet(f, Markets) + (g[m] - f[m])
    BY <2>1, MarketsAssumption, SumChange
  <2> QED BY <2>2 DEF f, g
<1>10. SumFunctionOnSet(Backed(B), Markets)
         = SumFunctionOnSet(Backed(A), Markets) + (Backed(B)[m] - Backed(A)[m])
  <2> DEFINE f == Backed(A)
             g == Backed(B)
  <2>1. (\A o \in Markets : f[o] \in Int /\ g[o] \in Int) /\ (\A o \in Markets \ {m} : g[o] = f[o])
    BY <1>6, <1>7, <1>8
  <2> HIDE DEF f, g
  <2>2. SumFunctionOnSet(g, Markets) = SumFunctionOnSet(f, Markets) + (g[m] - f[m])
    BY <2>1, MarketsAssumption, SumChange
  <2> QED BY <2>2 DEF f, g
<1> QED BY <1>1, <1>3, <1>4, <1>5, <1>6, <1>7, <1>9, <1>10 DEF A, B

\* Where the debts of the other markets are all seen, those of the account are what was seen
\* and the market's own; and no more collateral is seen in the others than backs it there.
LEMMA OthersSeen ==
    ASSUME TypeOK, NEW ms \in SUBSET Markets, NEW m \in Markets, NEW B \in Books,
           \A o \in Markets \ {m} : /\ B[o] = Accrued(Markets)[o]
                                    /\ DebtUsd(Accrued(ms), o) = Usd(B[o].debt, o)
    PROVE  /\ OwedIn(B) = Usd(B[m].debt, m) + KnownDebt(Accrued(ms), Markets \ {m})
           /\ Backing(B[m].ptokens, B[m].rate, m) + KnownCollateral(Accrued(ms), Markets \ {m})
                <= BackedIn(B)
<1> DEFINE pos == Accrued(ms)
           others == Markets \ {m}
           f == [o \in Markets |-> DebtUsd(pos, o)]
           g == [o \in Markets |-> CollateralUsd(pos, o)]
<1>1. /\ pos \in Books /\ others \in SUBSET Markets
      /\ \A o \in Markets : pos[o].ptokens = position[o].ptokens
      /\ \A o \in Markets : o \notin ms => pos[o] = position[o]
  BY AccruedType DEF Books
<1>2. IsFiniteSet(others)
  BY MarketsAssumption, FS_RemoveElement
<1>3. ASSUME NEW o \in others
      PROVE  CollateralUsd(pos, o) \in Nat /\ CollateralUsd(pos, o) <= Backing(B[o].ptokens, B[o].rate, o)
  <2>1. /\ CollateralUsd(pos, o) \in Nat
        /\ Backing(pos[o].ptokens, pos[o].rate, o) \in Nat
        /\ CollateralUsd(pos, o) <= Backing(pos[o].ptokens, pos[o].rate, o)
    BY <1>1, KnownWithin
  <2> DEFINE n == B[o].ptokens
             k == pos[o].ptokens
             r == pos[o].rate
             s == B[o].rate
  <2>2. n = k /\ k \in Nat /\ r \in Nat /\ s \in Nat /\ k <= n /\ r <= s
    <3>1. n = position[o].ptokens /\ s = Accrued(Markets)[o].rate /\ s \in Nat
          /\ position[o].rate <= s
      BY FullyAccrued
    <3>2. k = position[o].ptokens /\ k \in Nat /\ r \in Nat
      BY <1>1, BooksFields
    <3>3. r <= s
      <4>1. CASE o \in ms
        BY <3>1, <4>1, FullyAccrued
      <4>2. CASE o \notin ms
        BY <1>1, <3>1, <4>2
      <4> QED BY <4>1, <4>2
    <3> HIDE DEF n, k, r, s
    <3> QED BY <3>1, <3>2, <3>3
  <2> HIDE DEF n, k, r, s
  <2>3. Backing(k, r, o) \in Nat /\ Backing(n, s, o) \in Nat /\ Backing(k, r, o) <= Backing(n, s, o)
    BY <2>2, BackingGrows
  <2>4. Backing(k, r, o) = Backing(pos[o].ptokens, pos[o].rate, o)
        /\ Backing(n, s, o) = Backing(B[o].ptokens, B[o].rate, o)
    BY DEF n, k, r, s
  <2> HIDE DEF pos
  <2> QED BY <2>1, <2>3, <2>4
<1>4. \A o \in others : /\ f[o] \in Int /\ f[o] = Owed(B)[o]
                        /\ g[o] \in Int /\ Backed(B)[o] \in Int /\ g[o] <= Backed(B)[o]
  <2>1. ASSUME NEW o \in others PROVE f[o] \in Int /\ f[o] = Owed(B)[o]
    BY <1>1, KnownWithin, TrueSums
  <2>2. ASSUME NEW o \in others
        PROVE  g[o] \in Int /\ Backed(B)[o] \in Int /\ g[o] <= Backed(B)[o]
    <3>1. g[o] = CollateralUsd(pos, o)
      OBVIOUS
    <3>2. Backed(B)[o] = Backing(B[o].ptokens, B[o].rate, o) /\ Backed(B)[o] \in Nat
      BY TrueSums
    <3> HIDE DEF g, pos
    <3> QED BY <1>3, <3>1, <3>2
  <2> QED BY <2>1, <2>2
<1>5. KnownDebt(pos, others) = SumFunctionOnSet(f, others)
      /\ KnownCollateral(pos, others) = SumFunctionOnSet(g, others)
  BY DEF KnownDebt, KnownCollateral
<1>6. /\ OwedIn(B) = SumFunctionOnSet(Owed(B), Markets)
      /\ BackedIn(B) = SumFunctionOnSet(Backed(B), Markets)
      /\ \A o \in Markets : Owed(B)[o] \in Int /\ Backed(B)[o] \in Int
      /\ Owed(B)[m] = Usd(B[m].debt, m)
      /\ Backed(B)[m] = Backing(B[m].ptokens, B[m].rate, m)
  BY TrueSums
<1> DEFINE w == Owed(B)
           b == Backed(B)
<1> HIDE DEF f, g, pos, w, b
<1>7. /\ SumFunctionOnSet(w, Markets) = w[m] + SumFunctionOnSet(w, others)
      /\ SumFunctionOnSet(b, Markets) = b[m] + SumFunctionOnSet(b, others)
  <2>1. (\A o \in Markets : w[o] \in Int) /\ (\A o \in Markets : b[o] \in Int)
    BY <1>6 DEF w, b
  <2> QED BY <2>1, MarketsAssumption, SumRemove
<1>8. SumFunctionOnSet(f, others) = SumFunctionOnSet(w, others)
  <2>1. \A o \in others : f[o] \in Int /\ f[o] = w[o]
    BY <1>4 DEF w
  <2> QED BY <1>2, <2>1, SumSame
<1>9. SumFunctionOnSet(g, others) <= SumFunctionOnSet(b, others)
  <2>1. \A o \in others : g[o] \in Int /\ b[o] \in Int /\ g[o] <= b[o]
    BY <1>4 DEF b
  <2> QED BY <1>2, <2>1, SumMonotone
<1>10. SumFunctionOnSet(g, others) \in Int /\ SumFunctionOnSet(b, others) \in Int /\ b[m] \in Int
  <2>1. (\A o \in others : g[o] \in Int) /\ (\A o \in others : b[o] \in Int) /\ b[m] \in Int
    BY <1>4, <1>6 DEF b
  <2> QED BY <1>2, <2>1, SumType
<1>11. OwedIn(B) = w[m] + SumFunctionOnSet(f, others)
       /\ b[m] + SumFunctionOnSet(g, others) <= BackedIn(B)
  BY <1>6, <1>7, <1>8, <1>9, <1>10 DEF w, b
<1> QED BY <1>5, <1>6, <1>11 DEF pos, w, b

\* What a position that owes nothing, or whose debt is seen, counts for.
LEMMA DebtSeen ==
    ASSUME TypeOK, NEW ms \in SUBSET Markets, NEW o \in Markets,
           position[o].debt > 0 => o \in ms,
           Accrued(ms)[o].debt > 0 => ~DebtUnknown(Accrued(ms), o)
    PROVE  DebtUsd(Accrued(ms), o) = Usd(Accrued(Markets)[o].debt, o)
<1> DEFINE a == Accrued(ms)[o].debt
<1>1. a \in Nat /\ position[o].debt \in Nat
  BY AccruedType DEF Positions, TypeOK
<1>2. a = Accrued(Markets)[o].debt
  <2>1. CASE o \in ms
    BY <2>1, FullyAccrued
  <2>2. CASE o \notin ms
    <3>1. position[o].debt = 0
      BY <1>1, <2>2
    <3>2. Accrued(ms)[o] = position[o]
      BY <2>2, AccruedType
    <3> QED BY <3>1, <3>2, FullyAccrued
  <2> QED BY <2>1, <2>2
<1>3. DebtUsd(Accrued(ms), o) = Usd(a, o)
  <2>1. CASE a = 0
    BY <2>1, UsdOfNothing DEF DebtUsd
  <2>2. CASE a > 0
    BY <2>2 DEF DebtUsd
  <2> QED BY <1>1, <2>1, <2>2
<1> QED BY <1>2, <1>3

LEMMA DepositGap ==
    ASSUME TypeOK, price' = price, NEW m \in Markets, NEW n \in PTokenAmounts, Deposit(m, n)
    PROVE  Gap' <= Gap
<1> DEFINE A == Accrued(Markets)
           k == position[m].ptokens + n
           p == Holding(Accrued({m})[m], k)
<1>1. {m} \in SUBSET Markets /\ m \in {m}
  OBVIOUS
<1>2. k \in Nat /\ Revised({m}, m, p)
  BY DepositEffect
<1>3. Accrued({m})[m] = A[m] /\ A[m].ptokens = position[m].ptokens /\ A[m] \in Positions
  BY <1>1, FullyAccrued
<1>4. p \in Positions /\ p.ptokens = k /\ p.debt = A[m].debt /\ p.rate = A[m].rate
  <2> HIDE DEF k
  <2> QED BY <1>1, <1>2, <1>3, RevisedFields
<1>5. position[m].ptokens \in Nat /\ position[m].ptokens <= k
  <2>1. position[m].ptokens \in Nat /\ n \in Nat
    BY BoundsNat DEF TypeOK
  <2> QED BY <2>1
<1> HIDE DEF k, p
<1> DEFINE B == [A EXCEPT ![m] = p]
<1>6. /\ A \in Books /\ B \in Books
      /\ Gap = OwedIn(A) - BackedIn(A) /\ Gap' = OwedIn(B) - BackedIn(B)
      /\ OwedIn(B) = OwedIn(A) + (Usd(p.debt, m) - Usd(A[m].debt, m))
      /\ BackedIn(B) = BackedIn(A) + (Backing(p.ptokens, p.rate, m)
                                        - Backing(A[m].ptokens, A[m].rate, m))
  BY <1>1, <1>2, <1>4, GapRevised
<1> DEFINE j == A[m].ptokens
           r == A[m].rate
<1>7. j \in Nat /\ j <= k /\ r \in Nat /\ r <= r /\ k \in Nat /\ A[m].debt \in Nat
  BY <1>2, <1>3, <1>5 DEF Positions
<1>8. p.ptokens = k /\ p.rate = r /\ j = A[m].ptokens /\ r = A[m].rate
  BY <1>4
<1> HIDE DEF j, r
<1>9. Backing(j, r, m) \in Nat /\ Backing(k, r, m) \in Nat /\ Backing(j, r, m) <= Backing(k, r, m)
  BY <1>7, BackingGrows
<1>10. Usd(A[m].debt, m) \in Nat
  BY <1>7, UsdNat
<1>11. OwedIn(A) \in Nat /\ BackedIn(A) \in Nat
  BY <1>6, TrueSums
<1> HIDE DEF A, B
<1> QED BY <1>4, <1>6, <1>8, <1>9, <1>10, <1>11

LEMMA PayGap ==
    ASSUME TypeOK, price' = price, NEW m \in Markets, NEW a \in Nat, PayDebt(m, a)
    PROVE  Gap' <= Gap
<1> DEFINE A == Accrued(Markets)
<1>1. {m} \in SUBSET Markets /\ m \in {m}
  OBVIOUS
<1>2. PICK debt \in Nat : debt <= Accrued({m})[m].debt /\ Revised({m}, m, Owing(Accrued({m})[m], debt))
  BY PayEffect
<1> DEFINE p == Owing(Accrued({m})[m], debt)
           B == [A EXCEPT ![m] = p]
<1>3. Accrued({m})[m] = A[m] /\ A[m].ptokens = position[m].ptokens /\ A[m] \in Positions
  BY <1>1, FullyAccrued
<1>4. p \in Positions /\ p.ptokens = A[m].ptokens /\ p.debt = debt /\ p.rate = A[m].rate
  BY <1>1, <1>3, RevisedFields
<1>5. Revised({m}, m, p) /\ debt <= A[m].debt
  BY <1>2, <1>3
<1> HIDE DEF p
<1>6. /\ A \in Books /\ B \in Books
      /\ Gap = OwedIn(A) - BackedIn(A) /\ Gap' = OwedIn(B) - BackedIn(B)
      /\ OwedIn(B) = OwedIn(A) + (Usd(p.debt, m) - Usd(A[m].debt, m))
      /\ BackedIn(B) = BackedIn(A) + (Backing(p.ptokens, p.rate, m)
                                        - Backing(A[m].ptokens, A[m].rate, m))
  BY <1>1, <1>4, <1>5, GapRevised
<1>7. A[m].debt \in Nat /\ debt \in Nat /\ A[m].ptokens \in Nat /\ A[m].rate \in Nat
  BY <1>3 DEF Positions
<1>8. Usd(A[m].debt, m) \in Nat /\ Usd(debt, m) \in Nat /\ Usd(debt, m) <= Usd(A[m].debt, m)
  <2> DEFINE x == A[m].debt
  <2>1. x \in Nat /\ debt <= x
    BY <1>5, <1>7
  <2> HIDE DEF x
  <2>2. Usd(x, m) \in Nat /\ Usd(debt, m) \in Nat /\ Usd(debt, m) <= Usd(x, m)
    BY <2>1, UsdNat, UsdGrows
  <2> QED BY <2>2 DEF x
<1>9. Backing(A[m].ptokens, A[m].rate, m) \in Nat
  BY <1>6, KnownWithin
<1>10. OwedIn(A) \in Nat /\ BackedIn(A) \in Nat
  BY <1>6, TrueSums
<1> HIDE DEF A, B
<1> QED BY <1>4, <1>6, <1>8, <1>9, <1>10

\* A borrow checks what is owed and what is added apart, and so may miss one USD unit.
LEMMA BorrowGap ==
    ASSUME TypeOK, price' = price, NEW m \in Markets, NEW a \in Amounts, Borrow(m, a)
    PROVE  Gap' <= 1
<1> DEFINE A == Accrued(Markets)
           ms == BorrowTouches(m)
           others == Markets \ {m}
           k == Accrued(ms)[m].debt + a
           p == Owing(Accrued(ms)[m], k)
           B == [A EXCEPT ![m] = p]
<1>1. ms \in SUBSET Markets /\ m \in ms /\ k \in Nat /\ Revised(ms, m, p)
  BY BorrowEffect
<1>2. /\ BorrowCovered(Accrued(ms), m, a)
      /\ \A o \in others : position[o].debt > 0 => o \in ms
  BY DEF Borrow, BorrowTouches, Involved
<1> HIDE DEF ms
<1>3. Accrued(ms)[m] = A[m] /\ A[m].ptokens = position[m].ptokens /\ A[m] \in Positions
  BY <1>1, FullyAccrued
<1>4. p \in Positions /\ p.ptokens = A[m].ptokens /\ p.debt = k /\ p.rate = A[m].rate
  <2> HIDE DEF k
  <2> QED BY <1>1, <1>3, RevisedFields
<1>5. k = A[m].debt + a /\ A[m].debt \in Nat /\ a \in Nat
  BY <1>3, BoundsNat DEF Positions
<1> HIDE DEF k, p
<1>6. A \in Books /\ B \in Books /\ B[m] = p /\ Gap' = OwedIn(B) - BackedIn(B)
  BY <1>1, <1>4, GapRevised
<1>7. \A o \in others : B[o] = A[o] /\ DebtUsd(Accrued(ms), o) = Usd(B[o].debt, o)
  <2> SUFFICES ASSUME NEW o \in others
               PROVE  B[o] = A[o] /\ DebtUsd(Accrued(ms), o) = Usd(B[o].debt, o)
    OBVIOUS
  <2>1. B[o] = A[o]
    BY <1>6 DEF Books
  <2>2. ~DebtUnknown(Accrued(ms), o)
    BY <1>2 DEF BorrowCovered, Indeterminate
  <2>3. DebtUsd(Accrued(ms), o) = Usd(A[o].debt, o)
    BY <1>1, <1>2, <2>2, DebtSeen
  <2> QED BY <2>1, <2>3
<1> HIDE DEF A, B
<1>8. /\ OwedIn(B) = Usd(B[m].debt, m) + KnownDebt(Accrued(ms), others)
      /\ Backing(B[m].ptokens, B[m].rate, m) + KnownCollateral(Accrued(ms), others) <= BackedIn(B)
  BY <1>1, <1>6, <1>7, OthersSeen DEF A
<1>9. KnownDebt(Accrued(ms), others) + Usd(A[m].debt, m) + Usd(a, m)
        <= KnownCollateral(Accrued(ms), others) + Backing(A[m].ptokens, A[m].rate, m)
  BY <1>2, <1>3 DEF BorrowCovered
<1>10. Usd(k, m) <= Usd(A[m].debt, m) + Usd(a, m) + 1
       /\ Usd(k, m) \in Nat /\ Usd(A[m].debt, m) \in Nat /\ Usd(a, m) \in Nat
  BY <1>1, <1>5, UsdSplits, UsdNat
<1>11. KnownDebt(Accrued(ms), others) \in Nat /\ KnownCollateral(Accrued(ms), others) \in Nat
  <2>1. Accrued(ms) \in Books /\ others \in SUBSET Markets
    BY <1>1, AccruedType DEF Books
  <2> QED BY <2>1, KnownSums
<1>12. OwedIn(B) \in Nat /\ BackedIn(B) \in Nat /\ Backing(B[m].ptokens, B[m].rate, m) \in Nat
  BY <1>6, TrueSums, KnownWithin
<1>13. Backing(A[m].ptokens, A[m].rate, m) = Backing(B[m].ptokens, B[m].rate, m)
       /\ Usd(B[m].debt, m) = Usd(k, m)
  BY <1>4, <1>6
<1> QED BY <1>6, <1>8, <1>9, <1>10, <1>11, <1>12, <1>13

\* A redemption checks the two totals as they will be.
LEMMA RedeemGap ==
    ASSUME TypeOK, price' = price, NEW m \in Markets, NEW n \in PTokenAmounts, Redeem(m, n)
    PROVE  Gap' \in Int /\ Gap' <= 0
<1> DEFINE A == Accrued(Markets)
           ms == RedeemTouches(m)
           others == Markets \ {m}
           k == position[m].ptokens - n
           p == Holding(Accrued(ms)[m], k)
           B == [A EXCEPT ![m] = p]
<1>1. ms \in SUBSET Markets /\ m \in ms /\ k \in Nat /\ Revised(ms, m, p)
  BY RedeemEffect
<1>2. /\ RedeemCovered(Accrued(ms), m, n)
      /\ \A o \in others : position[o].debt > 0 => o \in ms
  BY DEF Redeem, RedeemTouches
<1> HIDE DEF ms
<1>3. Accrued(ms)[m] = A[m] /\ A[m].ptokens = position[m].ptokens /\ A[m] \in Positions
  BY <1>1, FullyAccrued
<1>4. p \in Positions /\ p.ptokens = k /\ p.debt = A[m].debt /\ p.rate = A[m].rate
  <2> HIDE DEF k
  <2> QED BY <1>1, <1>3, RevisedFields
<1>5. k = A[m].ptokens - n /\ A[m].debt \in Nat
  BY <1>3 DEF Positions
<1> HIDE DEF k, p
<1>6. A \in Books /\ B \in Books /\ B[m] = p /\ Gap' = OwedIn(B) - BackedIn(B)
  BY <1>1, <1>4, GapRevised
<1>7. \A o \in others : B[o] = A[o] /\ DebtUsd(Accrued(ms), o) = Usd(B[o].debt, o)
  <2> SUFFICES ASSUME NEW o \in others
               PROVE  B[o] = A[o] /\ DebtUsd(Accrued(ms), o) = Usd(B[o].debt, o)
    OBVIOUS
  <2>1. B[o] = A[o]
    BY <1>6 DEF Books
  <2>2. Accrued(ms)[o].debt > 0 => ~DebtUnknown(Accrued(ms), o)
    BY <1>2 DEF RedeemCovered, DebtUnknown
  <2>3. DebtUsd(Accrued(ms), o) = Usd(A[o].debt, o)
    BY <1>1, <1>2, <2>2, DebtSeen
  <2> QED BY <2>1, <2>3
<1> HIDE DEF A, B
<1>8. /\ OwedIn(B) = Usd(B[m].debt, m) + KnownDebt(Accrued(ms), others)
      /\ Backing(B[m].ptokens, B[m].rate, m) + KnownCollateral(Accrued(ms), others) <= BackedIn(B)
  BY <1>1, <1>6, <1>7, OthersSeen DEF A
<1>9. KnownDebt(Accrued(ms), others) \in Nat /\ KnownCollateral(Accrued(ms), others) \in Nat
  <2>1. Accrued(ms) \in Books /\ others \in SUBSET Markets
    BY <1>1, AccruedType DEF Books
  <2> QED BY <2>1, KnownSums
<1>10. OwedIn(B) \in Nat /\ BackedIn(B) \in Nat /\ Backing(B[m].ptokens, B[m].rate, m) \in Nat
  BY <1>6, TrueSums, KnownWithin
<1>11. B[m].debt = A[m].debt /\ B[m].ptokens = k /\ B[m].rate = A[m].rate
  BY <1>4, <1>6
<1>12. CASE KnownDebt(Accrued(ms), others) > 0 \/ A[m].debt > 0
  <2>1. KnownDebt(Accrued(ms), others) + Usd(A[m].debt, m)
          <= (IF Indeterminate(Accrued(ms), others) THEN 0 ELSE KnownCollateral(Accrued(ms), others))
             + Backing(A[m].ptokens - n, A[m].rate, m)
    BY <1>2, <1>3, <1>12 DEF RedeemCovered
  <2>2. (IF Indeterminate(Accrued(ms), others) THEN 0 ELSE KnownCollateral(Accrued(ms), others))
           <= KnownCollateral(Accrued(ms), others)
        /\ (IF Indeterminate(Accrued(ms), others) THEN 0 ELSE KnownCollateral(Accrued(ms), others)) \in Nat
    BY <1>9
  <2>3. Backing(A[m].ptokens - n, A[m].rate, m) = Backing(B[m].ptokens, B[m].rate, m)
        /\ Usd(B[m].debt, m) = Usd(A[m].debt, m) /\ Usd(A[m].debt, m) \in Nat
    BY <1>5, <1>11, UsdNat
  <2> QED BY <1>6, <1>8, <1>9, <1>10, <2>1, <2>2, <2>3
<1>13. CASE ~(KnownDebt(Accrued(ms), others) > 0 \/ A[m].debt > 0)
  <2>1. KnownDebt(Accrued(ms), others) = 0 /\ A[m].debt = 0
    BY <1>5, <1>9, <1>13
  <2>2. Usd(B[m].debt, m) = 0
    BY <1>11, <2>1, UsdOfNothing
  <2> QED BY <1>6, <1>8, <1>10, <2>1, <2>2
<1> QED BY <1>12, <1>13

\* A liquidation pays something, the interest it books counted in.
LEMMA LiquidationPays ==
    ASSUME TypeOK, NEW r \in Markets, NEW c \in Markets, LiquidationStep(r, c)
    PROVE  Paid(r) \in Int /\ Paid(r) > 0
<1>1. PICK paid \in Nat, lost \in Nat :
        0 < paid /\ position'[r] = [Accrued({r})[r] EXCEPT !.debt = @ - paid]
  BY LiquidationEffect
<1>2. {r} \in SUBSET Markets /\ r \in {r} /\ due' = DueAfter({r})
  BY DEF LiquidationStep
<1>3. Paid(r) = Accrued({r})[r].debt - position'[r].debt
  BY <1>2, PaidFromAccrued
<1> DEFINE a == Accrued({r})[r]
<1>4. a \in Positions
  BY <1>2, AccruedIn
<1>5. position'[r] = [a EXCEPT !.debt = a.debt - paid] /\ Paid(r) = a.debt - position'[r].debt
  BY <1>1, <1>3
<1> HIDE DEF a
<1>6. a.debt \in Nat /\ position'[r].debt = a.debt - paid
  BY <1>4, <1>5 DEF Positions
<1> QED BY <1>1, <1>5, <1>6

\* Where neither the account nor what is due in it changes, and prices stay, its gap stays.
LEMMA GapStays ==
    ASSUME UNCHANGED <<position, due, price>>
    PROVE  Gap' = Gap
  BY DEF Gap, OwedIn, BackedIn, Usd, Backing, Accrued

LEMMA GapIsInt == TypeOK => Gap \in Int
<1> SUFFICES ASSUME TypeOK PROVE Gap \in Int
  OBVIOUS
<1>1. OwedIn(Accrued(Markets)) \in Nat /\ BackedIn(Accrued(Markets)) \in Nat
  BY GapOfSums, TrueSums
<1> QED BY <1>1, GapOfSums

LEMMA GapIsIntAfter == TypeOK /\ [Next]_vars => (Gap \in Int)'
<1>1. TypeOK /\ [Next]_vars => TypeOK'
  BY TypeStep
<1> QED BY <1>1, GapIsInt, PTL

LEMMA OwnStepLeavesCovered ==
    ASSUME TypeOK, Next, price' = price, \A m \in Markets : due'[m] <= due[m] /\ Paid(m) <= 0
    PROVE  Gap' <= Gap \/ Gap' <= 1
<1>1. Gap \in Int
  BY GapIsInt
<1>2. PICK m \in Markets : AccountStep(m) \/ LiquidatorStep(m) \/ WorldStep(m)
  BY DEF Next
<1>3. ASSUME NEW n \in PTokenAmounts, Deposit(m, n) PROVE Gap' <= Gap
  BY <1>3, DepositGap
<1>4. ASSUME NEW n \in PTokenAmounts, Redeem(m, n) PROVE Gap' <= 1
  <2>1. Gap' \in Int /\ Gap' <= 0
    BY <1>4, RedeemGap
  <2> QED BY <2>1
<1>5. ASSUME NEW a \in Amounts, Borrow(m, a) PROVE Gap' <= 1
  BY <1>5, BorrowGap
<1>6. ASSUME NEW a \in Amounts, Repay(m, a) PROVE Gap' <= Gap
  BY <1>6, PayGap, BoundsNat DEF Repay
<1>7. CASE AccountStep(m)
  BY <1>3, <1>4, <1>5, <1>6, <1>7 DEF AccountStep
<1>8. CASE LiquidatorStep(m)
  <2>1. ASSUME NEW a \in Nat, PayDebt(m, a) PROVE Gap' <= Gap
    BY <2>1, PayGap
  <2>2. ASSUME NEW c \in Markets, LiquidationStep(m, c) PROVE FALSE
    <3>1. Paid(m) > 0 /\ Paid(m) <= 0 /\ Paid(m) \in Int
      BY <2>2, LiquidationPays
    <3> QED BY <3>1
  <2> QED BY <1>8, <2>1, <2>2, LiquidatorStepKind
<1>9. CASE WorldStep(m)
  <2>1. CASE InterestFallsDue(m)
    <3>1. due[m] \in Nat /\ due'[m] = due[m] + 1 /\ due'[m] <= due[m]
      BY <2>1 DEF InterestFallsDue, TypeOK
    <3> QED BY <3>1
  <2>2. CASE PriceMoves(m) \/ QuoteChanges(m) \/ FaultChanges(m)
    <3>1. UNCHANGED <<position, due, price>>
      BY <2>2 DEF PriceMoves, QuoteChanges, FaultChanges
    <3> QED BY <1>1, <3>1, GapStays
  <2> QED BY <1>9, <2>1, <2>2 DEF WorldStep
<1> QED BY <1>2, <1>7, <1>8, <1>9

\* borrow, withdraw and the pToken transfers never take an account beyond its collateral, all
\* interest due counted, whichever reads of whichever markets fail, but for the one USD unit
\* that borrow loses; a deposit or a repayment never widens its gap.
THEOREM OwnStepsKeepCovered == Spec => OwnStepsLeaveCovered
<1>1. TypeOK /\ [Next]_vars
        => [(/\ price' = price
             /\ \A m \in Markets : due'[m] <= due[m] /\ Paid(m) <= 0
             /\ Gap' > Gap)
              => Gap' <= 1]_vars
  <2> SUFFICES ASSUME TypeOK, Next, price' = price,
                      \A m \in Markets : due'[m] <= due[m] /\ Paid(m) <= 0, Gap' > Gap
               PROVE  Gap' <= 1
    OBVIOUS
  <2>1. Gap \in Int /\ Gap' \in Int
    BY GapIsInt, GapIsIntAfter
  <2>2. Gap' <= Gap \/ Gap' <= 1
    BY OwnStepLeavesCovered
  <2> QED BY <2>1, <2>2
<1> QED BY TypeCorrect, <1>1, PTL DEF Spec, OwnStepsLeaveCovered

=============================================================================
