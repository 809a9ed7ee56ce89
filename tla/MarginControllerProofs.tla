---------------------- MODULE MarginControllerProofs ----------------------
(***************************************************************************)
(* Proofs about the margin controller: its types, the shares that divide   *)
(* a user's debt, what the end of a position leaves, the pTokens that      *)
(* positions lock and those in custody, for any users, assets, vaults,     *)
(* prices, parameters and bounds.                                          *)
(***************************************************************************)
EXTENDS MarginController, Arithmetic

-----------------------------------------------------------------------------
(* Arithmetic *)

LEMMA CancelRounding ==
    ASSUME NEW a \in Nat, NEW c \in Nat, NEW b \in Nat \ {0}, a * b < c * b + b
    PROVE  a <= c
<1>1. CASE a > c
  <2>1. a >= c + 1
    BY <1>1
  <2>2. a * b >= (c + 1) * b
    BY <2>1, ProductMonotone
  <2> QED BY <2>2
<1> QED BY <1>1

\* A quotient rounded up covers its dividend and exceeds it by less than the divisor.
LEMMA CeilCovers ==
    ASSUME NEW a \in Nat, NEW b \in Nat \ {0}
    PROVE  CeilDiv(a, b) \in Nat /\ a <= CeilDiv(a, b) * b /\ CeilDiv(a, b) * b < a + b
<1> DEFINE x == a + b - 1
           q == x \div b
<1>1. x \in Nat
  OBVIOUS
<1>2. q \in Nat /\ q * b <= x /\ x < q * b + b
  BY <1>1, DivNat
<1>3. q * b \in Nat
  BY <1>2, ProductNat
<1> HIDE DEF q
<1>4. a <= q * b /\ q * b < a + b
  BY <1>2, <1>3
<1> QED BY <1>2, <1>4 DEF CeilDiv, q

\* A part k of t parts of n, rounded up, is at most n.
LEMMA CeilPart ==
    ASSUME NEW n \in Nat, NEW k \in Nat, NEW t \in Nat \ {0}, k <= t
    PROVE  CeilDiv(k * n, t) \in Nat /\ CeilDiv(k * n, t) <= n
<1>1. k * n \in Nat /\ t * n \in Nat /\ n * t \in Nat
  BY ProductNat
<1>2. CeilDiv(k * n, t) \in Nat /\ CeilDiv(k * n, t) * t < k * n + t
  BY <1>1, CeilCovers
<1>3. k * n <= n * t
  BY <1>1, ProductMonotone
<1>4. CeilDiv(k * n, t) * t < n * t + t
  BY <1>1, <1>2, <1>3, ProductNat
<1> QED BY <1>2, <1>4, CancelRounding

\* A percentage of n, rounded down, is at most n.
LEMMA PercentOf ==
    ASSUME NEW n \in Nat, NEW f \in 0..100
    PROVE  (n * f) \div 100 \in Nat /\ (n * f) \div 100 <= n
<1> DEFINE q == (n * f) \div 100
<1>1. n * f \in Nat /\ q \in Nat /\ q * 100 <= n * f
  BY DivNat, ProductNat
<1>2. f * n <= 100 * n
  BY ProductMonotone
<1> QED BY <1>1, <1>2

-----------------------------------------------------------------------------
(* Interest *)

LEMMA GrownNat ==
    ASSUME NEW a \in Nat, NEW g \in Nat
    PROVE  Grown(a, g) \in Nat /\ Grown(a, g) >= a
  BY DEF Grown

LEMMA AccrualNat ==
    ASSUME NEW vs, NEW g \in Accruals(vs), NEW v \in Vaults
    PROVE  g[v] \in Nat /\ (v \notin vs \/ ~due[v] => g[v] = 0)
  BY MarginAssumption DEF Accruals

LEMMA GrownTypes ==
    ASSUME TypeOK, NEW vs, NEW g \in Accruals(vs)
    PROVE  /\ GrownDebt(g) \in [Users -> [Vaults -> Nat]]
           /\ \A u \in Users, v \in Vaults : GrownDebt(g)[u][v] >= debt[u][v]
           /\ GrownMarginDebt(g) \in [Ids -> Nat]
           /\ \A i \in Ids : GrownMarginDebt(g)[i] >= marginDebt[i]
           /\ DueAfter(vs) \in [Vaults -> BOOLEAN]
<1>1. \A u \in Users, v \in Vaults : Grown(debt[u][v], g[v]) \in Nat
                                     /\ Grown(debt[u][v], g[v]) >= debt[u][v]
  <2> SUFFICES ASSUME NEW u \in Users, NEW v \in Vaults
               PROVE  Grown(debt[u][v], g[v]) \in Nat /\ Grown(debt[u][v], g[v]) >= debt[u][v]
    OBVIOUS
  <2>1. g[v] \in Nat /\ debt[u][v] \in Nat
    BY AccrualNat DEF TypeOK
  <2> QED BY <2>1, GrownNat
<1>2. \A i \in Ids : position[i].lent \in Vaults
  BY DEF TypeOK, Position
<1>3. \A i \in Ids : Grown(marginDebt[i], g[position[i].lent]) \in Nat
                     /\ Grown(marginDebt[i], g[position[i].lent]) >= marginDebt[i]
  <2> SUFFICES ASSUME NEW i \in Ids
               PROVE  Grown(marginDebt[i], g[position[i].lent]) \in Nat
                      /\ Grown(marginDebt[i], g[position[i].lent]) >= marginDebt[i]
    OBVIOUS
  <2>1. g[position[i].lent] \in Nat
    BY <1>2, AccrualNat
  <2>2. marginDebt[i] \in Nat
    BY DEF TypeOK
  <2> QED BY <2>1, <2>2, GrownNat
<1>4. GrownDebt(g) \in [Users -> [Vaults -> Nat]]
      /\ \A u \in Users, v \in Vaults : GrownDebt(g)[u][v] >= debt[u][v]
  BY <1>1 DEF GrownDebt
<1>5. GrownMarginDebt(g) \in [Ids -> Nat] /\ \A i \in Ids : GrownMarginDebt(g)[i] >= marginDebt[i]
  BY <1>3 DEF GrownMarginDebt
<1>6. DueAfter(vs) \in [Vaults -> BOOLEAN]
  BY DEF DueAfter, TypeOK
<1> QED BY <1>4, <1>5, <1>6

\* What changes in the vaults when those of vs accrue and nothing else happens.
LEMMA AccruedType ==
    ASSUME TypeOK, NEW vs, NEW g \in Accruals(vs),
           debt' = GrownDebt(g), marginDebt' = GrownMarginDebt(g), due' = DueAfter(vs)
    PROVE  /\ debt' \in [Users -> [Vaults -> Nat]] /\ marginDebt' \in [Ids -> Nat]
           /\ due' \in [Vaults -> BOOLEAN]
  BY GrownTypes

-----------------------------------------------------------------------------
(* Amounts *)

LEMMA PriceNat ==
    ASSUME TypeOK, NEW v \in Vaults
    PROVE  PriceOf(v) \in Nat \ {0} /\ AssetOf[v] \in Assets
  BY MarginAssumption DEF TypeOK, PriceOf

LEMMA MarketVault == ASSUME TypeOK, NEW a \in Assets PROVE market[a] \in Vaults
  BY DEF TypeOK

LEMMA SwapNat ==
    ASSUME NEW in, NEW out, NEW n, NEW r \in SwapOutputs(in, out, n)
    PROVE  r \in Nat \ {0}
  BY DEF SwapOutputs

LEMMA LeveragedNat ==
    ASSUME TypeOK, NEW s, s.asset \in Assets, NEW c \in Assets,
           NEW n \in Nat, NEW leverage \in Nat \ {0}
    PROVE  Leveraged(s, c, n, leverage) \in Nat
<1>1. price[c] \in Nat /\ price[s.asset] \in Nat \ {0} /\ leverage - 1 \in Nat
  BY DEF TypeOK
<1>2. n * price[c] * (leverage - 1) \in Nat
  BY <1>1, ProductNat
<1> QED BY <1>1, <1>2, DivNat DEF Leveraged

LEMMA NewSharesNat ==
    ASSUME NEW borrowed \in Nat, NEW sharesBefore \in Nat, NEW debtBefore \in Nat
    PROVE  NewShares(borrowed, sharesBefore, debtBefore) \in Nat
<1>1. CASE sharesBefore = 0 \/ debtBefore = 0
  BY <1>1 DEF NewShares
<1>2. CASE ~(sharesBefore = 0 \/ debtBefore = 0)
  BY <1>2, ProductNat, CeilCovers DEF NewShares
<1> QED BY <1>1, <1>2

\* What a position's shares owe is part of its owner's debt in the vault.
LEMMA DebtForPart ==
    ASSUME TypeOK, NEW i \in Ids
    PROVE  DebtFor(position[i]) \in Nat
           /\ DebtFor(position[i]) <= debt[position[i].owner][position[i].lent]
<1> DEFINE p == position[i]
           total == shares[p.owner][p.asset]
           owed == debt[p.owner][p.lent]
<1>1. p.owner \in Users /\ p.asset \in Assets /\ p.lent \in Vaults /\ p.shares \in Nat
  BY DEF TypeOK, Position
<1>2. total \in Nat /\ owed \in Nat
  BY <1>1 DEF TypeOK
<1>3. DebtFor(p) = IF total = 0 \/ p.shares = 0 THEN 0
                   ELSE IF p.shares >= total THEN owed
                   ELSE CeilDiv(p.shares * owed, total)
  BY DEF DebtFor
<1>4. CASE total # 0 /\ p.shares < total
  BY <1>1, <1>2, <1>3, <1>4, CeilPart
<1>5. CASE ~(total # 0 /\ p.shares < total)
  BY <1>1, <1>2, <1>3, <1>5
<1> QED BY <1>4, <1>5

\* A liquidation repays no more than is owed and seizes no more than the cap.
LEMMA SeizurePart ==
    ASSUME TypeOK, NEW u \in Users, NEW lent \in Vaults, NEW held \in Vaults,
           NEW amount \in Nat, NEW cap \in Nat
    PROVE  /\ Seizure(u, lent, held, amount, cap).repay \in Nat
           /\ Seizure(u, lent, held, amount, cap).repay <= debt[u][lent]
           /\ Seizure(u, lent, held, amount, cap).seized \in Nat
           /\ Seizure(u, lent, held, amount, cap).seized <= cap
<1> DEFINE part == (debt[u][lent] * CloseFactor) \div 100
           repay == Least(amount, part)
           worth == ((repay * PriceOf(lent)) * Incentive) \div 100
           full == worth \div PriceOf(held)
<1>1. debt[u][lent] \in Nat /\ part \in Nat /\ part <= debt[u][lent]
  <2>1. debt[u][lent] \in Nat
    BY DEF TypeOK
  <2>2. CloseFactor \in 0..100
    BY MarginAssumption
  <2> QED BY <2>1, <2>2, PercentOf
<1>2. repay \in Nat /\ repay <= debt[u][lent]
  BY <1>1 DEF Least
<1>3. PriceOf(lent) \in Nat /\ PriceOf(held) \in Nat \ {0} /\ Incentive \in Nat
  BY PriceNat, MarginAssumption
<1>4. worth \in Nat
  <2> HIDE DEF repay
  <2>1. repay * PriceOf(lent) \in Nat
    BY <1>2, <1>3, ProductNat
  <2>2. (repay * PriceOf(lent)) * Incentive \in Nat
    BY <1>3, <2>1, ProductNat
  <2> QED BY <2>2, DivNat
<1>5. full \in Nat
  BY <1>3, <1>4, DivNat
<1>6. Seizure(u, lent, held, amount, cap) =
          IF full <= cap THEN [repay |-> repay, seized |-> full]
          ELSE [repay |-> CeilDiv(repay * cap, full), seized |-> cap]
  BY DEF Seizure
<1> HIDE DEF repay, full
<1>7. CASE full <= cap
  BY <1>2, <1>5, <1>6, <1>7
<1>8. CASE ~(full <= cap)
  <2>1. full \in Nat \ {0} /\ cap <= full
    BY <1>5, <1>8
  <2>2. CeilDiv(cap * repay, full) \in Nat /\ CeilDiv(cap * repay, full) <= repay
    BY <1>2, <2>1, CeilPart
  <2>3. cap * repay = repay * cap
    BY <1>2
  <2>4. Seizure(u, lent, held, amount, cap) =
            [repay |-> CeilDiv(cap * repay, full), seized |-> cap]
    BY <1>6, <1>8, <2>3
  <2> QED BY <1>1, <1>2, <2>2, <2>4
<1> QED BY <1>7, <1>8

LEMMA BurnedPart ==
    ASSUME NEW p, p.shares \in Nat, NEW paid \in Nat, NEW owed \in Nat
    PROVE  BurnedShares(p, paid, owed) \in Nat /\ BurnedShares(p, paid, owed) <= p.shares
<1>1. CASE paid >= owed
  BY <1>1 DEF BurnedShares
<1>2. CASE ~(paid >= owed)
  <2>1. CeilDiv(p.shares * paid, owed) \in Nat
    BY <1>2, ProductNat, CeilCovers
  <2> QED BY <1>2, <2>1 DEF BurnedShares, Least
<1> QED BY <1>1, <1>2

-----------------------------------------------------------------------------
(* Records and functions *)

LEMMA Put ==
    ASSUME NEW A, NEW B, NEW f \in [A -> [B -> Nat]], NEW x \in A, NEW y \in B, NEW k \in Nat
    PROVE  [f EXCEPT ![x][y] = k] \in [A -> [B -> Nat]]
  OBVIOUS

LEMMA PositionFields ==
    ASSUME TypeOK, NEW i \in Ids
    PROVE  /\ position[i] \in Position
           /\ position[i].owner \in Users /\ position[i].asset \in Assets
           /\ position[i].coll \in Assets
           /\ position[i].base \in Vaults /\ position[i].lent \in Vaults
           /\ position[i].held \in Vaults /\ position[i].ptokens \in Nat
           /\ position[i].shares \in Nat /\ position[i].lock \in Nat
           /\ position[i].owner \in Holders
<1>1. position[i] \in Position
  BY DEF TypeOK
<1> QED BY <1>1 DEF Position, Holders

LEMMA EndedType ==
    ASSUME NEW p \in Position, NEW status \in {"closed", "liquidated"}
    PROVE  Ended(p, status) \in Position
  BY DEF Position, Ended

LEMMA OpenedType ==
    ASSUME NEW mode \in {"Legacy", "MarginV2"}, NEW u \in Users, NEW s,
           s.base \in Vaults, s.lent \in Vaults, s.held \in Vaults, s.asset \in Assets, s.coll \in Assets,
           NEW n \in Nat, NEW new \in Nat, NEW lock \in Nat
    PROVE  Opened(mode, u, s, n, new, lock) \in Position
  BY DEF Opened, Position

LEMMA SidesType ==
    ASSUME TypeOK, NEW c \in Assets, NEW b \in Assets, NEW s \in Sides(c, b)
    PROVE  /\ s.base \in Vaults /\ s.lent \in Vaults /\ s.held \in Vaults
           /\ s.asset \in Assets /\ s.coll \in Assets
<1>1. market[c] \in Vaults /\ market[b] \in Vaults
  BY DEF TypeOK
<1> QED BY <1>1 DEF Sides

LEMMA PushType ==
    ASSUME TypeOK, NEW p \in Position, Push(p)
    PROVE  /\ counter' \in 0..MaxPositions /\ counter + 1 \in Ids
           /\ position' \in [Ids -> Position]
<1>1. counter \in 0..MaxPositions /\ MaxPositions \in Nat
  BY MarginAssumption DEF TypeOK
<1>2. counter' \in 0..MaxPositions /\ counter + 1 \in Ids
  BY <1>1 DEF Push, Ids
<1>3. position' \in [Ids -> Position]
  BY <1>2 DEF Push, TypeOK
<1> QED BY <1>2, <1>3

LEMMA BurnedType ==
    ASSUME TypeOK, NEW u \in Users, NEW a \in Assets, NEW n \in Nat
    PROVE  Burned(u, a, n) \in [Users -> [Assets -> Nat]]
<1>1. shares[u][a] \in Nat /\ shares \in [Users -> [Assets -> Nat]]
  BY DEF TypeOK
<1>2. Minus(shares[u][a], n) \in Nat
  BY <1>1 DEF Minus
<1>3. Burned(u, a, n) = [shares EXCEPT ![u][a] = Minus(shares[u][a], n)]
  BY <1>1 DEF Burned
<1> QED BY <1>1, <1>2, <1>3, Put

LEMMA PaidType ==
    ASSUME NEW tok \in [Holders -> [Vaults -> Nat]], NEW w, NEW v \in Vaults, NEW n \in Nat
    PROVE  Paid(tok, w, v, n) \in [Holders -> [Vaults -> Nat]]
<1>1. CASE w \in Users
  <2>1. w \in Holders /\ tok[w][v] + n \in Nat
    BY <1>1 DEF Holders
  <2>2. Paid(tok, w, v, n) = [tok EXCEPT ![w][v] = tok[w][v] + n]
    BY <1>1, <2>1 DEF Paid
  <2> QED BY <2>1, <2>2, Put
<1>2. CASE w \notin Users
  BY <1>2 DEF Paid
<1> QED BY <1>1, <1>2

LEMMA LessFeeNat ==
    ASSUME NEW n \in Nat
    PROVE  LessFee(n) \in Nat /\ LessFee(n) <= n
<1>1. (n * LiquidationFee) \div 100 \in Nat /\ (n * LiquidationFee) \div 100 <= n
  BY PercentOf, MarginAssumption
<1> HIDE DEF MarginAssumption
<1> DEFINE fee == (n * LiquidationFee) \div 100
<1>2. fee \in Nat /\ fee <= n
  BY <1>1
<1>3. LessFee(n) = n - fee
  BY DEF LessFee
<1> HIDE DEF fee
<1> QED BY <1>2, <1>3

\* A withdraw consumes the bypass that its call has begun, and no other.
LEMMA BypassConsumed ==
    ASSUME NEW b \in [Holders -> [Vaults -> BOOLEAN]], NEW h \in Holders, NEW v \in Vaults
    PROVE  /\ Consumed(b, h, v) \in [Holders -> [Vaults -> BOOLEAN]]
           /\ Withdrawn(b, h, v) \in [Holders -> [Vaults -> BOOLEAN]]
           /\ ~b[h][v] => Consumed(b, h, v) = b /\ Withdrawn(b, h, v) = b
<1>1. \A k \in BOOLEAN : [b EXCEPT ![h][v] = k] \in [Holders -> [Vaults -> BOOLEAN]]
  OBVIOUS
<1>2. Consumed(b, h, v) = [b EXCEPT ![h][v] = FALSE]
  BY DEF Consumed
<1>3. Withdrawn(b, h, v) = [b EXCEPT ![h][v] = FALSE]
  BY DEF Withdrawn, Begun, Consumed
<1>4. ~b[h][v] => [b EXCEPT ![h][v] = FALSE] = b
  OBVIOUS
<1> QED BY <1>1, <1>2, <1>3, <1>4

\* pTokens that come or go.
LEMMA Moved ==
    ASSUME NEW tok \in [Holders -> [Vaults -> Nat]], NEW h \in Holders, NEW v \in Vaults,
           NEW n \in Nat
    PROVE  /\ [tok EXCEPT ![h][v] = @ + n] \in [Holders -> [Vaults -> Nat]]
           /\ n <= tok[h][v] => [tok EXCEPT ![h][v] = @ - n] \in [Holders -> [Vaults -> Nat]]
<1>1. tok[h][v] \in Nat /\ tok[h][v] + n \in Nat
  OBVIOUS
<1>2. [tok EXCEPT ![h][v] = tok[h][v] + n] \in [Holders -> [Vaults -> Nat]]
  BY <1>1, Put
<1>3. ASSUME n <= tok[h][v]
      PROVE  [tok EXCEPT ![h][v] = tok[h][v] - n] \in [Holders -> [Vaults -> Nat]]
  <2>1. tok[h][v] - n \in Nat
    BY <1>1, <1>3
  <2> QED BY <2>1, Put
<1>4. /\ [tok EXCEPT ![h][v] = @ + n] = [tok EXCEPT ![h][v] = tok[h][v] + n]
      /\ [tok EXCEPT ![h][v] = @ - n] = [tok EXCEPT ![h][v] = tok[h][v] - n]
  OBVIOUS
<1> QED BY <1>2, <1>3, <1>4

LEMMA PtokensType ==
    ASSUME TypeOK
    PROVE  /\ ptokens \in [Holders -> [Vaults -> Nat]]
           /\ Users \subseteq Holders /\ Custody \in Holders
  BY DEF TypeOK, Holders

\* A debt after a loan or a repayment, with the interest of the call.
LEMMA DebtPut ==
    ASSUME TypeOK, NEW vs, NEW g \in Accruals(vs), NEW u \in Users, NEW v \in Vaults, NEW n \in Nat
    PROVE  /\ [GrownDebt(g) EXCEPT ![u][v] = @ + n] \in [Users -> [Vaults -> Nat]]
           /\ n <= debt[u][v] =>
                 [GrownDebt(g) EXCEPT ![u][v] = @ - n] \in [Users -> [Vaults -> Nat]]
<1> DEFINE f == GrownDebt(g)
<1>1. f \in [Users -> [Vaults -> Nat]] /\ f[u][v] >= debt[u][v]
  BY GrownTypes
<1>2. debt[u][v] \in Nat
  BY DEF TypeOK
<1> HIDE DEF f
<1>3. f[u][v] \in Nat /\ f[u][v] + n \in Nat
  BY <1>1
<1>4. [f EXCEPT ![u][v] = f[u][v] + n] \in [Users -> [Vaults -> Nat]]
  BY <1>1, <1>3, Put
<1>5. ASSUME n <= debt[u][v]
      PROVE  [f EXCEPT ![u][v] = f[u][v] - n] \in [Users -> [Vaults -> Nat]]
  <2>1. f[u][v] - n \in Nat
    BY <1>1, <1>2, <1>3, <1>5
  <2> QED BY <1>1, <2>1, Put
<1>6. /\ [f EXCEPT ![u][v] = @ + n] = [f EXCEPT ![u][v] = f[u][v] + n]
      /\ [f EXCEPT ![u][v] = @ - n] = [f EXCEPT ![u][v] = f[u][v] - n]
  BY <1>1
<1> QED BY <1>4, <1>5, <1>6 DEF f

\* A loan, with the interest of the call.
LEMMA DebtLentType ==
    ASSUME TypeOK, NEW vs, NEW u \in Users, NEW v \in Vaults, NEW n \in Nat,
           due' = DueAfter(vs),
           \E g \in Accruals(vs) : /\ debt' = [GrownDebt(g) EXCEPT ![u][v] = @ + n]
                                   /\ marginDebt' = GrownMarginDebt(g)
    PROVE  /\ debt' \in [Users -> [Vaults -> Nat]] /\ marginDebt' \in [Ids -> Nat]
           /\ due' \in [Vaults -> BOOLEAN]
<1>1. PICK g \in Accruals(vs) : /\ debt' = [GrownDebt(g) EXCEPT ![u][v] = @ + n]
                                /\ marginDebt' = GrownMarginDebt(g)
  OBVIOUS
<1>2. debt' \in [Users -> [Vaults -> Nat]]
  BY <1>1, DebtPut
<1>3. marginDebt' \in [Ids -> Nat] /\ due' \in [Vaults -> BOOLEAN]
  BY <1>1, GrownTypes
<1> QED BY <1>2, <1>3

\* A repayment, with the interest of the call.
LEMMA DebtRepaidType ==
    ASSUME TypeOK, NEW vs, NEW u \in Users, NEW v \in Vaults, NEW n \in Nat, n <= debt[u][v],
           due' = DueAfter(vs),
           \E g \in Accruals(vs) : /\ debt' = [GrownDebt(g) EXCEPT ![u][v] = @ - n]
                                   /\ marginDebt' = GrownMarginDebt(g)
    PROVE  /\ debt' \in [Users -> [Vaults -> Nat]] /\ marginDebt' \in [Ids -> Nat]
           /\ due' \in [Vaults -> BOOLEAN]
<1>1. PICK g \in Accruals(vs) : /\ debt' = [GrownDebt(g) EXCEPT ![u][v] = @ - n]
                                /\ marginDebt' = GrownMarginDebt(g)
  OBVIOUS
<1>2. debt' \in [Users -> [Vaults -> Nat]]
  BY <1>1, DebtPut
<1>3. marginDebt' \in [Ids -> Nat] /\ due' \in [Vaults -> BOOLEAN]
  BY <1>1, GrownTypes
<1> QED BY <1>2, <1>3

-----------------------------------------------------------------------------
(* Types: Legacy positions *)

LEMMA OpenPositionType ==
    ASSUME TypeOK, NEW u \in Users, NEW c \in Assets, NEW b \in Assets, NEW n \in Nat,
           NEW leverage \in Nat \ {0}, OpenPosition(u, c, b, n, leverage)
    PROVE  TypeOK'
<1>1. PICK s \in Sides(c, b) :
        LET borrow == Leveraged(s, c, n, leverage)
            touched == InvolvedToo(u, {s.base, s.lent, s.held})
        IN \E r \in SwapOutputs(s.asset, s.coll, borrow), g \in Accruals(touched) :
                LET before == GrownDebt(Only(g, {s.base}))[u]
                    after == [GrownDebt(g) EXCEPT ![u][s.lent] = @ + borrow]
                    deposited == [ptokens EXCEPT ![u][s.base] = @ + n]
                    new == NewShares(after[u][s.lent] - before[s.lent],
                                     shares[u][s.asset], before[s.lent])
                IN /\ Push(Opened("Legacy", u, s, r, new, n))
                   /\ shares' = [shares EXCEPT ![u][s.asset] = @ + new]
                   /\ ptokens' = [deposited EXCEPT ![u][s.held] = @ + r]
                   /\ debt' = after
                   /\ marginDebt' = GrownMarginDebt(g)
                   /\ due' = DueAfter(touched)
  BY DEF OpenPosition
<1> DEFINE borrow == Leveraged(s, c, n, leverage)
           touched == InvolvedToo(u, {s.base, s.lent, s.held})
<1>2. PICK r \in SwapOutputs(s.asset, s.coll, borrow), g \in Accruals(touched) :
                LET before == GrownDebt(Only(g, {s.base}))[u]
                    after == [GrownDebt(g) EXCEPT ![u][s.lent] = @ + borrow]
                    deposited == [ptokens EXCEPT ![u][s.base] = @ + n]
                    new == NewShares(after[u][s.lent] - before[s.lent],
                                     shares[u][s.asset], before[s.lent])
                IN /\ Push(Opened("Legacy", u, s, r, new, n))
                   /\ shares' = [shares EXCEPT ![u][s.asset] = @ + new]
                   /\ ptokens' = [deposited EXCEPT ![u][s.held] = @ + r]
                   /\ debt' = after
                   /\ marginDebt' = GrownMarginDebt(g)
                   /\ due' = DueAfter(touched)
  BY <1>1
<1> DEFINE before == GrownDebt(Only(g, {s.base}))[u]
           after == [GrownDebt(g) EXCEPT ![u][s.lent] = @ + borrow]
           deposited == [ptokens EXCEPT ![u][s.base] = @ + n]
           new == NewShares(after[u][s.lent] - before[s.lent],
                            shares[u][s.asset], before[s.lent])
<1>3. /\ Push(Opened("Legacy", u, s, r, new, n))
      /\ shares' = [shares EXCEPT ![u][s.asset] = @ + new]
      /\ ptokens' = [deposited EXCEPT ![u][s.held] = @ + r]
      /\ debt' = after
      /\ marginDebt' = GrownMarginDebt(g)
      /\ due' = DueAfter(touched)
  BY <1>2
<1>4. /\ s.base \in Vaults /\ s.lent \in Vaults /\ s.held \in Vaults
      /\ s.asset \in Assets /\ s.coll \in Assets
  BY SidesType
<1>5. borrow \in Nat /\ r \in Nat
  BY <1>4, LeveragedNat, SwapNat
<1> HIDE DEF borrow, touched
<1>6. /\ after \in [Users -> [Vaults -> Nat]]
      /\ after[u][s.lent] = GrownDebt(g)[u][s.lent] + borrow
  BY <1>4, <1>5, DebtPut, GrownTypes
<1>7. before[s.lent] \in Nat /\ before[s.lent] <= GrownDebt(g)[u][s.lent]
  <2>1. g[s.lent] \in Nat /\ debt[u][s.lent] \in Nat
    BY <1>4, AccrualNat DEF TypeOK
  <2>2. before[s.lent] = Grown(debt[u][s.lent], Only(g, {s.base})[s.lent])
        /\ GrownDebt(g)[u][s.lent] = Grown(debt[u][s.lent], g[s.lent])
    BY <1>4 DEF GrownDebt
  <2>3. Only(g, {s.base})[s.lent] \in {0, g[s.lent]}
    BY <1>4 DEF Only
  <2> QED BY <2>1, <2>2, <2>3 DEF Grown
<1>8. GrownDebt(g)[u][s.lent] \in Nat
  BY <1>4, GrownTypes
<1>9. shares[u][s.asset] \in Nat
  BY <1>4 DEF TypeOK
<1>10. after[u][s.lent] - before[s.lent] \in Nat
  BY <1>5, <1>6, <1>7, <1>8
<1> HIDE DEF before, after
<1>11. new \in Nat
  BY <1>7, <1>9, <1>10, NewSharesNat
<1> HIDE DEF new
<1>12. Opened("Legacy", u, s, r, new, n) \in Position
  BY <1>4, <1>5, <1>11, OpenedType
<1>13. counter' \in 0..MaxPositions /\ position' \in [Ids -> Position]
  BY <1>3, <1>12, PushType
<1>14. shares' \in [Users -> [Assets -> Nat]]
  <2>1. shares' = [shares EXCEPT ![u][s.asset] = shares[u][s.asset] + new]
        /\ shares \in [Users -> [Assets -> Nat]]
    BY <1>3, <1>4 DEF TypeOK
  <2>2. shares[u][s.asset] + new \in Nat
    BY <1>9, <1>11
  <2> QED BY <1>4, <2>1, <2>2, Put
<1>15. ptokens' \in [Holders -> [Vaults -> Nat]]
  <2>1. u \in Holders /\ deposited \in [Holders -> [Vaults -> Nat]]
    BY <1>4, PtokensType, Moved
  <2> QED BY <1>3, <1>4, <1>5, <2>1, Moved
<1>16. marginDebt' \in [Ids -> Nat] /\ due' \in [Vaults -> BOOLEAN]
  BY <1>3, GrownTypes
<1>17. UNCHANGED <<market, balance, price, bypass>>
  BY DEF OpenPosition
<1> QED BY <1>3, <1>6, <1>13, <1>14, <1>15, <1>16, <1>17 DEF TypeOK, after

LEMMA OpenPositionNoSwapType ==
    ASSUME TypeOK, NEW u \in Users, NEW c \in Assets, NEW d \in Assets, NEW n \in Nat,
           NEW borrow \in Nat, NEW leverage, OpenPositionNoSwap(u, c, d, n, borrow, leverage)
    PROVE  TypeOK'
<1> DEFINE s == [base |-> market[c], lent |-> market[d], held |-> market[c], asset |-> d,
                 coll |-> c]
           touched == InvolvedToo(u, {s.base, s.lent})
           deposited == [ptokens EXCEPT ![u][s.base] = @ + n]
<1>1. /\ ptokens' = deposited
      /\ due' = DueAfter(touched)
      /\ UNCHANGED <<market, balance, price, bypass>>
  BY DEF OpenPositionNoSwap
<1>2. PICK g \in Accruals(touched) :
            LET before == GrownDebt(Only(g, {s.base}))[u]
                new == NewShares(borrow, shares[u][d], before[s.lent])
            IN /\ Push(Opened("Legacy", u, s, n, new, 0))
               /\ shares' = [shares EXCEPT ![u][d] = @ + new]
               /\ debt' = [GrownDebt(g) EXCEPT ![u][s.lent] = @ + borrow]
               /\ marginDebt' = GrownMarginDebt(g)
  BY DEF OpenPositionNoSwap
<1> DEFINE before == GrownDebt(Only(g, {s.base}))[u]
           new == NewShares(borrow, shares[u][d], before[s.lent])
<1>3. /\ Push(Opened("Legacy", u, s, n, new, 0))
      /\ shares' = [shares EXCEPT ![u][d] = @ + new]
      /\ debt' = [GrownDebt(g) EXCEPT ![u][s.lent] = @ + borrow]
      /\ marginDebt' = GrownMarginDebt(g)
  BY <1>2
<1>4. market[c] \in Vaults /\ market[d] \in Vaults
  BY MarketVault
<1>5. /\ s.base \in Vaults /\ s.lent \in Vaults /\ s.held \in Vaults
      /\ s.asset \in Assets /\ s.coll \in Assets
  BY <1>4
<1> HIDE DEF s, touched
<1>6. shares[u][d] \in Nat /\ before[s.lent] \in Nat
  <2>1. g[s.lent] \in Nat /\ debt[u][s.lent] \in Nat /\ shares[u][d] \in Nat
    BY <1>5, AccrualNat DEF TypeOK
  <2>2. before[s.lent] = Grown(debt[u][s.lent], Only(g, {s.base})[s.lent])
    BY <1>5 DEF GrownDebt
  <2>3. Only(g, {s.base})[s.lent] \in {0, g[s.lent]}
    BY <1>5 DEF Only
  <2> QED BY <2>1, <2>2, <2>3 DEF Grown
<1> HIDE DEF before
<1>7. new \in Nat
  BY <1>6, NewSharesNat
<1> HIDE DEF new
<1>8. Opened("Legacy", u, s, n, new, 0) \in Position
  BY <1>5, <1>7, OpenedType
<1>9. counter' \in 0..MaxPositions /\ position' \in [Ids -> Position]
  BY <1>3, <1>8, PushType
<1>10. shares' \in [Users -> [Assets -> Nat]]
  <2>1. shares' = [shares EXCEPT ![u][d] = shares[u][d] + new]
        /\ shares \in [Users -> [Assets -> Nat]]
    BY <1>3 DEF TypeOK
  <2>2. shares[u][d] + new \in Nat
    BY <1>6, <1>7
  <2> QED BY <2>1, <2>2, Put
<1>11. ptokens' \in [Holders -> [Vaults -> Nat]]
  BY <1>1, <1>5, PtokensType, Moved
<1>12. /\ debt' \in [Users -> [Vaults -> Nat]] /\ marginDebt' \in [Ids -> Nat]
       /\ due' \in [Vaults -> BOOLEAN]
  BY <1>1, <1>3, <1>5, DebtLentType
<1> QED BY <1>1, <1>9, <1>10, <1>11, <1>12 DEF TypeOK

\* What close_position does to the books, without the account checks.
LEMMA ClosePositionStep ==
    ASSUME TypeOK, NEW i \in Ids, ClosePosition(i)
    PROVE  LET p == position[i]
               u == p.owner
               owed == DebtFor(p)
               touched == OwedToo(u, {p.base, p.lent, p.held})
               sold == [ptokens EXCEPT ![u][p.held] = @ - p.ptokens]
               freed == [sold EXCEPT ![u][p.base] = @ - p.lock]
           IN /\ IsOpen(i, "Legacy") /\ owed > 0
              /\ p.ptokens <= ptokens[u][p.held]
              /\ p.lock > 0 => freed[u][p.base] >= 0
              /\ ptokens' = freed
              /\ shares' = Burned(u, p.asset, p.shares)
              /\ position' = [position EXCEPT ![i] = Ended(p, "closed")]
              /\ due' = DueAfter(touched)
              /\ \E g \in Accruals(touched) :
                    /\ debt' = [GrownDebt(g) EXCEPT ![u][p.lent] = @ - owed]
                    /\ marginDebt' = GrownMarginDebt(g)
              /\ bypass' = IF p.lock > 0 THEN Withdrawn(Withdrawn(bypass, u, p.held), u, p.base)
                           ELSE Withdrawn(bypass, u, p.held)
              /\ UNCHANGED <<market, counter, balance, price>>
<1> DEFINE p == position[i]
<1>1. \A g : CollateralComesOut(p, g) => p.ptokens <= ptokens[p.owner][p.held]
  BY PositionFields DEF CollateralComesOut, TypeOK
<1> QED BY <1>1 DEF ClosePosition

LEMMA ClosePositionType ==
    ASSUME TypeOK, NEW i \in Ids, ClosePosition(i)
    PROVE  TypeOK'
<1> DEFINE p == position[i]
           u == p.owner
           owed == DebtFor(p)
           touched == OwedToo(u, {p.base, p.lent, p.held})
           sold == [ptokens EXCEPT ![u][p.held] = @ - p.ptokens]
           freed == [sold EXCEPT ![u][p.base] = @ - p.lock]
<1>1. /\ p.ptokens <= ptokens[u][p.held]
      /\ p.lock > 0 => freed[u][p.base] >= 0
      /\ ptokens' = freed
      /\ shares' = Burned(u, p.asset, p.shares)
      /\ position' = [position EXCEPT ![i] = Ended(p, "closed")]
      /\ due' = DueAfter(touched)
      /\ \E g \in Accruals(touched) :
            /\ debt' = [GrownDebt(g) EXCEPT ![u][p.lent] = @ - owed]
            /\ marginDebt' = GrownMarginDebt(g)
      /\ bypass' = IF p.lock > 0 THEN Withdrawn(Withdrawn(bypass, u, p.held), u, p.base)
                   ELSE Withdrawn(bypass, u, p.held)
      /\ UNCHANGED <<market, counter, balance, price>>
  BY ClosePositionStep
<1>2. owed \in Nat /\ owed <= debt[u][p.lent]
  BY DebtForPart
<1>3. /\ p \in Position /\ u \in Users /\ u \in Holders /\ p.asset \in Assets
      /\ p.base \in Vaults /\ p.lent \in Vaults /\ p.held \in Vaults
      /\ p.ptokens \in Nat /\ p.shares \in Nat /\ p.lock \in Nat
  BY PositionFields
<1> HIDE DEF owed, touched, p
<1>4. sold \in [Holders -> [Vaults -> Nat]]
  BY <1>1, <1>3, PtokensType, Moved
<1>5. p.lock <= sold[u][p.base]
  <2>1. freed[u][p.base] = sold[u][p.base] - p.lock /\ sold[u][p.base] \in Nat
    BY <1>3, <1>4
  <2> QED BY <1>1, <1>3, <2>1
<1>6. ptokens' \in [Holders -> [Vaults -> Nat]]
  <2> HIDE DEF sold
  <2> QED BY <1>1, <1>3, <1>4, <1>5, Moved
<1>7. shares' \in [Users -> [Assets -> Nat]]
  BY <1>1, <1>3, BurnedType
<1>8. position' \in [Ids -> Position]
  BY <1>1, <1>3, EndedType DEF TypeOK
<1>9. /\ debt' \in [Users -> [Vaults -> Nat]] /\ marginDebt' \in [Ids -> Nat]
      /\ due' \in [Vaults -> BOOLEAN]
  BY <1>1, <1>2, <1>3, DebtRepaidType
<1>10. bypass' \in [Holders -> [Vaults -> BOOLEAN]]
  <2>1. bypass \in [Holders -> [Vaults -> BOOLEAN]]
    BY DEF TypeOK
  <2>2. Withdrawn(bypass, u, p.held) \in [Holders -> [Vaults -> BOOLEAN]]
    BY <1>3, <2>1, BypassConsumed
  <2>3. Withdrawn(Withdrawn(bypass, u, p.held), u, p.base) \in [Holders -> [Vaults -> BOOLEAN]]
    BY <1>3, <2>2, BypassConsumed
  <2> QED BY <1>1, <2>2, <2>3
<1> QED BY <1>1, <1>6, <1>7, <1>8, <1>9, <1>10 DEF TypeOK

\* liquidate_position by w when it burns, seizes and repays these amounts.
LiquidatedBy(w, i, burned, seized, repay, g) ==
    LET p == position[i]
        u == p.owner
        q == [p EXCEPT !.shares = @ - burned, !.ptokens = @ - seized]
    IN /\ burned <= shares[u][p.asset]
       /\ seized <= ptokens[u][p.held]
       /\ repay <= debt[u][p.lent]
       /\ debt' = [GrownDebt(g) EXCEPT ![u][p.lent] = @ - repay]
       /\ marginDebt' = GrownMarginDebt(g)
       /\ shares' = Burned(u, p.asset, burned)
       /\ position' = [position EXCEPT ![i] =
                        IF q.shares = 0 THEN Ended(q, "liquidated") ELSE q]
       /\ ptokens' = Paid([ptokens EXCEPT ![u][p.held] = @ - seized], w, p.held, LessFee(seized))
       /\ due' = DueAfter({p.lent})
       /\ UNCHANGED <<market, counter, balance, price, bypass>>

LEMMA LiquidatePositionStep ==
    ASSUME TypeOK, NEW w, NEW i \in Ids, LiquidatePosition(w, i)
    PROVE  /\ IsOpen(i, "Legacy")
           /\ \E burned \in 0..position[i].shares, seized \in 0..position[i].ptokens,
                 repay \in Nat, g \in Accruals({position[i].lent}) :
                    LiquidatedBy(w, i, burned, seized, repay, g)
<1> DEFINE p == position[i]
           u == p.owner
           owed == DebtFor(p)
           total == debt[u][p.lent]
           cap == Least(ptokens[u][p.held], p.ptokens)
           z == Seizure(u, p.lent, p.held, owed, cap)
<1>1. /\ IsOpen(i, "Legacy") /\ due' = DueAfter({p.lent})
      /\ UNCHANGED <<market, counter, balance, price, bypass>>
  BY DEF LiquidatePosition
<1>2. PICK g \in Accruals({p.lent}) :
            LET after == Grown(total, g[p.lent]) - z.repay
                burned == BurnedShares(p, total - after, owed)
                q == [p EXCEPT !.shares = @ - burned, !.ptokens = @ - z.seized]
            IN /\ after < total
               /\ burned <= shares[u][p.asset]
               /\ debt' = [GrownDebt(g) EXCEPT ![u][p.lent] = after]
               /\ marginDebt' = GrownMarginDebt(g)
               /\ shares' = Burned(u, p.asset, burned)
               /\ position' = [position EXCEPT ![i] =
                                IF q.shares = 0 THEN Ended(q, "liquidated") ELSE q]
  BY DEF LiquidatePosition
<1>3. ptokens' = Paid([ptokens EXCEPT ![u][p.held] = @ - z.seized], w, p.held, LessFee(z.seized))
  BY DEF LiquidatePosition
<1>4. /\ u \in Users /\ u \in Holders /\ p.lent \in Vaults /\ p.held \in Vaults
      /\ p.ptokens \in Nat /\ p.shares \in Nat
  BY PositionFields
<1>5. owed \in Nat
  BY DebtForPart
<1>6. ptokens[u][p.held] \in Nat /\ total \in Nat
  BY <1>4 DEF TypeOK
<1>7. cap \in Nat /\ cap <= ptokens[u][p.held] /\ cap <= p.ptokens
  BY <1>4, <1>6 DEF Least
<1> HIDE DEF p, owed, cap
<1>8. /\ z.repay \in Nat /\ z.repay <= total
      /\ z.seized \in Nat /\ z.seized <= cap
  BY <1>4, <1>5, <1>7, SeizurePart
<1> HIDE DEF z
<1> DEFINE after == Grown(total, g[p.lent]) - z.repay
           burned == BurnedShares(p, total - after, owed)
<1>9. total - after \in Nat
  <2>1. g[p.lent] \in Nat
    BY <1>4, AccrualNat
  <2>2. after < total
    BY <1>2
  <2>3. Grown(total, g[p.lent]) \in Nat
    BY <1>6, <2>1, GrownNat
  <2> QED BY <1>6, <1>8, <2>2, <2>3
<1>10. burned \in Nat /\ burned <= p.shares
  <2> HIDE DEF after
  <2> QED BY <1>4, <1>5, <1>9, BurnedPart
<1>11. debt' = [GrownDebt(g) EXCEPT ![u][p.lent] = @ - z.repay]
  <2>1. GrownDebt(g)[u][p.lent] = Grown(total, g[p.lent])
    BY <1>4 DEF GrownDebt
  <2>2. debt' = [GrownDebt(g) EXCEPT ![u][p.lent] = GrownDebt(g)[u][p.lent] - z.repay]
    BY <1>2, <2>1
  <2> QED BY <1>4, <2>2, GrownTypes
<1>12. /\ burned <= shares[u][p.asset]
       /\ marginDebt' = GrownMarginDebt(g)
       /\ shares' = Burned(u, p.asset, burned)
       /\ LET q == [p EXCEPT !.shares = @ - burned, !.ptokens = @ - z.seized]
          IN position' = [position EXCEPT ![i] =
                            IF q.shares = 0 THEN Ended(q, "liquidated") ELSE q]
  BY <1>2
<1>13. burned \in 0..p.shares /\ z.seized \in 0..p.ptokens
       /\ z.seized <= ptokens[u][p.held]
  <2> HIDE DEF burned
  <2> QED BY <1>4, <1>6, <1>7, <1>8, <1>10
<1> HIDE DEF burned
<1>14. LiquidatedBy(w, i, burned, z.seized, z.repay, g)
  BY <1>1, <1>3, <1>8, <1>11, <1>12, <1>13 DEF p, LiquidatedBy
<1> QED BY <1>1, <1>8, <1>13, <1>14 DEF p

LEMMA LessType ==
    ASSUME NEW p \in Position, NEW burned \in 0..p.shares, NEW seized \in 0..p.ptokens
    PROVE  LET q == [p EXCEPT !.shares = @ - burned, !.ptokens = @ - seized]
           IN q \in Position /\ q.status = p.status
<1>1. p.shares \in Nat /\ p.ptokens \in Nat
  BY DEF Position
<1>2. p.shares - burned \in Nat /\ p.ptokens - seized \in Nat
  BY <1>1
<1> DEFINE q == [p EXCEPT !.shares = p.shares - burned, !.ptokens = p.ptokens - seized]
<1>3. q \in Position /\ q.status = p.status
  BY <1>2 DEF Position
<1> QED BY <1>3 DEF Position

LEMMA LiquidatePositionType ==
    ASSUME TypeOK, NEW w, NEW i \in Ids, LiquidatePosition(w, i)
    PROVE  TypeOK'
<1> DEFINE p == position[i]
           u == p.owner
<1>1. PICK burned \in 0..p.shares, seized \in 0..p.ptokens, repay \in Nat,
           g \in Accruals({p.lent}) : LiquidatedBy(w, i, burned, seized, repay, g)
  BY LiquidatePositionStep
<1>2. LET q == [p EXCEPT !.shares = @ - burned, !.ptokens = @ - seized]
      IN /\ seized <= ptokens[u][p.held]
         /\ repay <= debt[u][p.lent]
         /\ debt' = [GrownDebt(g) EXCEPT ![u][p.lent] = @ - repay]
         /\ marginDebt' = GrownMarginDebt(g)
         /\ shares' = Burned(u, p.asset, burned)
         /\ position' = [position EXCEPT ![i] =
                          IF q.shares = 0 THEN Ended(q, "liquidated") ELSE q]
         /\ ptokens' = Paid([ptokens EXCEPT ![u][p.held] = @ - seized], w, p.held, LessFee(seized))
         /\ due' = DueAfter({p.lent})
         /\ UNCHANGED <<market, counter, balance, price, bypass>>
  BY <1>1 DEF LiquidatedBy
<1>3. /\ p \in Position /\ u \in Users /\ u \in Holders /\ p.asset \in Assets
      /\ p.lent \in Vaults /\ p.held \in Vaults
      /\ p.ptokens \in Nat /\ p.shares \in Nat
  BY PositionFields
<1> HIDE DEF p
<1> DEFINE q == [p EXCEPT !.shares = @ - burned, !.ptokens = @ - seized]
<1>4. q \in Position
  BY <1>3, LessType
<1>5. position' = [position EXCEPT ![i] = IF q.shares = 0 THEN Ended(q, "liquidated") ELSE q]
  BY <1>2
<1>6. position' \in [Ids -> Position]
  <2> HIDE DEF q
  <2> QED BY <1>4, <1>5, EndedType DEF TypeOK
<1>7. ptokens' \in [Holders -> [Vaults -> Nat]]
  <2>1. seized \in Nat
    BY <1>3
  <2>2. [ptokens EXCEPT ![u][p.held] = @ - seized] \in [Holders -> [Vaults -> Nat]]
    BY <1>2, <1>3, <2>1, PtokensType, Moved
  <2> QED BY <1>2, <1>3, <2>1, <2>2, PaidType, LessFeeNat
<1>8. shares' \in [Users -> [Assets -> Nat]]
  <2>1. burned \in Nat
    BY <1>3
  <2> QED BY <1>2, <1>3, <2>1, BurnedType
<1>9. /\ debt' \in [Users -> [Vaults -> Nat]] /\ marginDebt' \in [Ids -> Nat]
      /\ due' \in [Vaults -> BOOLEAN]
  BY <1>2, <1>3, DebtRepaidType
<1> QED BY <1>2, <1>6, <1>7, <1>8, <1>9 DEF TypeOK

-----------------------------------------------------------------------------
(* Types: the owner's dealings with the vaults *)

\* Steps that leave the controller's own books alone.
LEMMA VaultStepType ==
    ASSUME TypeOK, UNCHANGED <<market, books, price, bypass>>,
           ptokens' \in [Holders -> [Vaults -> Nat]], debt' \in [Users -> [Vaults -> Nat]],
           marginDebt' \in [Ids -> Nat], due' \in [Vaults -> BOOLEAN]
    PROVE  TypeOK'
  BY DEF TypeOK, books

LEMMA SpotType ==
    ASSUME TypeOK, NEW u \in Users, NEW v \in Vaults, NEW n \in Nat,
           DepositCollateral(u, v, n) \/ Borrow(u, v, n) \/ Repay(u, v, n)
    PROVE  TypeOK'
<1> USE PtokensType
<1>1. CASE DepositCollateral(u, v, n)
  <2>1. ptokens' \in [Holders -> [Vaults -> Nat]]
    BY <1>1, Moved DEF DepositCollateral
  <2>2. /\ debt' \in [Users -> [Vaults -> Nat]] /\ marginDebt' \in [Ids -> Nat]
        /\ due' \in [Vaults -> BOOLEAN]
    BY <1>1, AccruedType DEF DepositCollateral
  <2> QED BY <1>1, <2>1, <2>2, VaultStepType DEF DepositCollateral
<1>2. CASE Borrow(u, v, n)
  <2>1. /\ debt' \in [Users -> [Vaults -> Nat]] /\ marginDebt' \in [Ids -> Nat]
        /\ due' \in [Vaults -> BOOLEAN]
    BY <1>2, DebtLentType DEF Borrow
  <2> QED BY <1>2, <2>1, VaultStepType DEF Borrow
<1>3. CASE Repay(u, v, n)
  <2>1. /\ debt' \in [Users -> [Vaults -> Nat]] /\ marginDebt' \in [Ids -> Nat]
        /\ due' \in [Vaults -> BOOLEAN]
    BY <1>3, DebtRepaidType DEF Repay
  <2> QED BY <1>3, <2>1, VaultStepType DEF Repay
<1> QED BY <1>1, <1>2, <1>3

\* u's pTokens after n of them have left v, with nobody paid or with w.
LEMMA TakesOutType ==
    ASSUME TypeOK, NEW u \in Users, NEW v \in Vaults, NEW n \in Nat, TakesOut(u, v, n),
           ptokens' \in [Holders -> [Vaults -> Nat]], bypass' \in [Holders -> [Vaults -> BOOLEAN]]
    PROVE  TypeOK'
<1>1. /\ debt' \in [Users -> [Vaults -> Nat]] /\ marginDebt' \in [Ids -> Nat]
      /\ due' \in [Vaults -> BOOLEAN]
  BY AccruedType DEF TakesOut
<1>2. UNCHANGED <<market, books, price>>
  BY DEF TakesOut
<1> QED BY <1>1, <1>2 DEF TypeOK, books

LEMMA WithdrawType ==
    ASSUME TypeOK, NEW u \in Users, NEW n \in Nat,
           \/ \E v \in Vaults : Withdraw(u, v, n)
           \/ \E a \in Assets : WithdrawCollateral(u, a, n)
           \/ \E w \in Users \cup {Keeper}, v \in Vaults : Transfer(u, w, v, n)
    PROVE  TypeOK'
<1>1. bypass \in [Holders -> [Vaults -> BOOLEAN]] /\ u \in Holders
  BY PtokensType DEF TypeOK
<1>2. ASSUME NEW v \in Vaults, n <= ptokens[u][v]
      PROVE  [ptokens EXCEPT ![u][v] = @ - n] \in [Holders -> [Vaults -> Nat]]
  BY <1>1, <1>2, PtokensType, Moved
<1>3. ASSUME NEW v \in Vaults, Withdraw(u, v, n) PROVE TypeOK'
  <2>1. TakesOut(u, v, n) /\ n <= ptokens[u][v]
    BY <1>3 DEF Withdraw, TakesOut
  <2>2. ptokens' = [ptokens EXCEPT ![u][v] = @ - n] /\ bypass' = Consumed(bypass, u, v)
    BY <1>3 DEF Withdraw
  <2> QED BY <1>1, <1>2, <2>1, <2>2, BypassConsumed, TakesOutType
<1>4. ASSUME NEW a \in Assets, WithdrawCollateral(u, a, n) PROVE TypeOK'
  <2> DEFINE v == market[a]
  <2>1. TakesOut(u, v, n) /\ n <= ptokens[u][v] /\ v \in Vaults
    BY <1>4, MarketVault DEF WithdrawCollateral, TakesOut
  <2>2. ptokens' = [ptokens EXCEPT ![u][v] = @ - n] /\ bypass' = Withdrawn(bypass, u, v)
    BY <1>4 DEF WithdrawCollateral
  <2> HIDE DEF v
  <2> QED BY <1>1, <1>2, <2>1, <2>2, BypassConsumed, TakesOutType
<1>5. ASSUME NEW w \in Users \cup {Keeper}, NEW v \in Vaults, Transfer(u, w, v, n) PROVE TypeOK'
  <2>1. TakesOut(u, v, n) /\ n <= ptokens[u][v]
    BY <1>5 DEF Transfer, TakesOut
  <2>2. ptokens' = Paid([ptokens EXCEPT ![u][v] = @ - n], w, v, n) /\ UNCHANGED bypass
    BY <1>5 DEF Transfer
  <2>3. ptokens' \in [Holders -> [Vaults -> Nat]]
    BY <1>2, <2>1, <2>2, PaidType
  <2> QED BY <1>1, <2>1, <2>2, <2>3, TakesOutType
<1> QED BY <1>3, <1>4, <1>5

LEMMA LiquidateAccountType ==
    ASSUME TypeOK, NEW w, NEW u \in Users, NEW lent \in Vaults, NEW held \in Vaults,
           NEW n \in Nat, LiquidateAccount(w, u, lent, held, n)
    PROVE  TypeOK'
<1> DEFINE z == Seizure(u, lent, held, n, ptokens[u][held])
<1>1. /\ ptokens' = Paid([ptokens EXCEPT ![u][held] = @ - z.seized], w, held, LessFee(z.seized))
      /\ \E g \in Accruals({lent}) :
            /\ debt' = [GrownDebt(g) EXCEPT ![u][lent] = @ - z.repay]
            /\ marginDebt' = GrownMarginDebt(g)
      /\ due' = DueAfter({lent})
      /\ UNCHANGED <<market, books, price, bypass>>
  BY DEF LiquidateAccount
<1>2. u \in Holders /\ ptokens[u][held] \in Nat
  BY DEF TypeOK, Holders
<1>3. /\ z.repay \in Nat /\ z.repay <= debt[u][lent]
      /\ z.seized \in Nat /\ z.seized <= ptokens[u][held]
  BY <1>2, SeizurePart
<1> HIDE DEF z
<1>4. ptokens' \in [Holders -> [Vaults -> Nat]]
  <2>1. [ptokens EXCEPT ![u][held] = @ - z.seized] \in [Holders -> [Vaults -> Nat]]
    BY <1>2, <1>3, PtokensType, Moved
  <2> QED BY <1>1, <1>3, <2>1, PaidType, LessFeeNat
<1>5. /\ debt' \in [Users -> [Vaults -> Nat]] /\ marginDebt' \in [Ids -> Nat]
      /\ due' \in [Vaults -> BOOLEAN]
  BY <1>1, <1>3, DebtRepaidType
<1> QED BY <1>1, <1>4, <1>5, VaultStepType

-----------------------------------------------------------------------------
(* Types: custody and MarginV2 positions *)

LEMMA BalanceNat ==
    ASSUME TypeOK, NEW u \in Users, NEW v \in Vaults
    PROVE  balance[u][v] \in Nat /\ balance \in [Users -> [Vaults -> Nat]]
  BY DEF TypeOK

LEMMA TransferredType ==
    ASSUME TypeOK, NEW from \in Holders, NEW to \in Holders, NEW v \in Vaults, NEW n \in Nat,
           n <= ptokens[from][v]
    PROVE  Transferred(from, to, v, n) \in [Holders -> [Vaults -> Nat]]
<1> DEFINE out == [ptokens EXCEPT ![from][v] = @ - n]
<1>1. out \in [Holders -> [Vaults -> Nat]]
  BY PtokensType, Moved
<1>2. Transferred(from, to, v, n) = [out EXCEPT ![to][v] = @ + n]
  BY DEF Transferred
<1> HIDE DEF out
<1> QED BY <1>1, <1>2, Moved

LEMMA TransferType ==
    ASSUME TypeOK, NEW u \in Users, NEW a \in Assets, NEW n \in Nat,
           TransferSpotToMargin(u, a, n) \/ TransferMarginToSpot(u, a, n)
    PROVE  TypeOK'
<1> DEFINE v == market[a]
<1>1. v \in Vaults /\ u \in Holders /\ Custody \in Holders /\ u # Custody
  BY MarketVault, PtokensType, MarginAssumption
<1>2. ptokens \in [Holders -> [Vaults -> Nat]] /\ ptokens[u][v] \in Nat
      /\ ptokens[Custody][v] \in Nat
  BY <1>1 DEF TypeOK
<1>3. balance[u][v] \in Nat /\ balance \in [Users -> [Vaults -> Nat]]
  BY <1>1, BalanceNat
<1>4. CASE TransferSpotToMargin(u, a, n)
  <2>1. /\ n <= ptokens[u][v]
        /\ ptokens' = Transferred(u, Custody, v, n)
        /\ balance' = [balance EXCEPT ![u][v] = @ + n]
        /\ \E g \in Accruals(OwedToo(u, {v})) :
                debt' = GrownDebt(g) /\ marginDebt' = GrownMarginDebt(g)
        /\ due' = DueAfter(OwedToo(u, {v}))
        /\ UNCHANGED <<market, counter, position, shares, price, bypass>>
    BY <1>4 DEF TransferSpotToMargin
  <2> HIDE DEF v
  <2>3. ptokens' \in [Holders -> [Vaults -> Nat]]
    BY <1>1, <2>1, TransferredType
  <2>4. balance' \in [Users -> [Vaults -> Nat]]
    BY <1>1, <1>3, <2>1, Put
  <2>5. debt' \in [Users -> [Vaults -> Nat]] /\ marginDebt' \in [Ids -> Nat]
        /\ due' \in [Vaults -> BOOLEAN]
    BY <2>1, AccruedType
  <2> QED BY <2>1, <2>3, <2>4, <2>5 DEF TypeOK
<1>5. CASE TransferMarginToSpot(u, a, n)
  <2>1. /\ n <= balance[u][v] /\ n <= ptokens[Custody][v]
        /\ ptokens' = Transferred(Custody, u, v, n)
        /\ balance' = [balance EXCEPT ![u][v] = @ - n]
        /\ \E g \in Accruals({v}) : debt' = GrownDebt(g) /\ marginDebt' = GrownMarginDebt(g)
        /\ due' = DueAfter({v})
        /\ UNCHANGED <<market, counter, position, shares, price, bypass>>
    BY <1>5 DEF TransferMarginToSpot
  <2> HIDE DEF v
  <2>3. ptokens' \in [Holders -> [Vaults -> Nat]]
    BY <1>1, <2>1, TransferredType
  <2>4. balance' \in [Users -> [Vaults -> Nat]]
    <3>1. balance[u][v] - n \in Nat
      BY <1>3, <2>1
    <3>2. balance' = [balance EXCEPT ![u][v] = balance[u][v] - n]
      BY <1>1, <1>3, <2>1
    <3> QED BY <1>1, <1>3, <3>1, <3>2, Put
  <2>5. debt' \in [Users -> [Vaults -> Nat]] /\ marginDebt' \in [Ids -> Nat]
        /\ due' \in [Vaults -> BOOLEAN]
    BY <2>1, AccruedType
  <2> QED BY <2>1, <2>3, <2>4, <2>5 DEF TypeOK
<1> QED BY <1>4, <1>5

LEMMA OpenPositionV2Type ==
    ASSUME TypeOK, NEW u \in Users, NEW c \in Assets, NEW b \in Assets, NEW n \in Nat,
           NEW leverage \in Nat \ {0}, OpenPositionV2(u, c, b, n, leverage)
    PROVE  TypeOK'
<1>1. PICK s \in Sides(c, b) :
        LET borrow == Leveraged(s, c, n, leverage)
            touched == OwedToo(u, {s.lent, s.held})
        IN /\ n <= balance[u][s.base]
           /\ balance' = [balance EXCEPT ![u][s.base] = @ - n]
           /\ \E r \in SwapOutputs(s.asset, s.coll, borrow), g \in Accruals(touched) :
                /\ Push(Opened("MarginV2", u, s, r, 0, n))
                /\ ptokens' = [ptokens EXCEPT ![Custody][s.held] = @ + r]
                /\ debt' = GrownDebt(g)
                /\ marginDebt' = [GrownMarginDebt(g) EXCEPT ![counter + 1] = borrow]
           /\ due' = DueAfter(touched)
  BY DEF OpenPositionV2
<1> DEFINE borrow == Leveraged(s, c, n, leverage)
           touched == OwedToo(u, {s.lent, s.held})
<1>2. /\ n <= balance[u][s.base]
      /\ balance' = [balance EXCEPT ![u][s.base] = @ - n]
      /\ due' = DueAfter(touched)
  BY <1>1
<1>3. PICK r \in SwapOutputs(s.asset, s.coll, borrow), g \in Accruals(touched) :
                /\ Push(Opened("MarginV2", u, s, r, 0, n))
                /\ ptokens' = [ptokens EXCEPT ![Custody][s.held] = @ + r]
                /\ debt' = GrownDebt(g)
                /\ marginDebt' = [GrownMarginDebt(g) EXCEPT ![counter + 1] = borrow]
  BY <1>1
<1>4. /\ s.base \in Vaults /\ s.lent \in Vaults /\ s.held \in Vaults
      /\ s.asset \in Assets /\ s.coll \in Assets
  BY SidesType
<1>5. borrow \in Nat /\ r \in Nat
  BY <1>4, LeveragedNat, SwapNat
<1> HIDE DEF borrow, touched
<1>6. Opened("MarginV2", u, s, r, 0, n) \in Position
  BY <1>4, <1>5, OpenedType
<1>7. counter' \in 0..MaxPositions /\ position' \in [Ids -> Position] /\ counter + 1 \in Ids
  BY <1>3, <1>6, PushType
<1>8. ptokens' \in [Holders -> [Vaults -> Nat]]
  BY <1>3, <1>4, <1>5, PtokensType, Moved
<1>9. debt' \in [Users -> [Vaults -> Nat]] /\ marginDebt' \in [Ids -> Nat]
      /\ due' \in [Vaults -> BOOLEAN]
  BY <1>2, <1>3, <1>5, <1>7, GrownTypes
<1>10. balance' \in [Users -> [Vaults -> Nat]]
  <2>1. balance[u][s.base] \in Nat /\ balance \in [Users -> [Vaults -> Nat]]
    BY <1>4, BalanceNat
  <2>2. balance[u][s.base] - n \in Nat
    BY <1>2, <2>1
  <2>3. balance' = [balance EXCEPT ![u][s.base] = balance[u][s.base] - n]
    BY <1>2, <1>4, <2>1
  <2> QED BY <1>4, <2>1, <2>2, <2>3, Put
<1>11. UNCHANGED <<market, shares, price, bypass>>
  BY DEF OpenPositionV2
<1> QED BY <1>7, <1>8, <1>9, <1>10, <1>11 DEF TypeOK

LEMMA RepaidMarginType ==
    ASSUME TypeOK, NEW i \in Ids, NEW vs, NEW g \in Accruals(vs)
    PROVE  /\ RepaidMargin(i, marginDebt[i], g) \in [Ids -> Nat]
           /\ RepaidMargin(i, marginDebt[i], g)[i] = GrownMarginDebt(g)[i] - marginDebt[i]
<1> DEFINE f == GrownMarginDebt(g)
<1>1. f \in [Ids -> Nat] /\ f[i] >= marginDebt[i] /\ marginDebt[i] \in Nat
  BY GrownTypes DEF TypeOK
<1>2. RepaidMargin(i, marginDebt[i], g) = [f EXCEPT ![i] = f[i] - marginDebt[i]]
  BY <1>1 DEF RepaidMargin
<1> HIDE DEF f
<1>3. f[i] - marginDebt[i] \in Nat
  BY <1>1
<1> QED BY <1>1, <1>2, <1>3 DEF f

LEMMA ClosePositionV2Type ==
    ASSUME TypeOK, NEW i \in Ids, ClosePositionV2(i)
    PROVE  TypeOK'
<1> DEFINE p == position[i]
           u == p.owner
           owed == marginDebt[i]
           touched == {p.lent, p.held}
           sold == [ptokens EXCEPT ![Custody][p.held] = @ - p.ptokens]
           unlocked == [balance EXCEPT ![u][p.base] = @ + p.lock]
<1>1. /\ p.ptokens <= ptokens[Custody][p.held]
      /\ position' = [position EXCEPT ![i] = Ended(p, "closed")]
      /\ due' = DueAfter(touched)
      /\ bypass' = Withdrawn(bypass, Custody, p.held)
      /\ UNCHANGED <<market, counter, shares, price>>
  BY DEF ClosePositionV2
<1>2. PICK r \in SwapOutputs(p.coll, p.asset, p.ptokens), g \in Accruals(touched) :
            /\ r >= owed
            /\ ptokens' = [sold EXCEPT ![Custody][p.lent] = @ + (r - owed)]
            /\ balance' = [unlocked EXCEPT ![u][p.lent] = @ + (r - owed)]
            /\ debt' = GrownDebt(g)
            /\ marginDebt' = RepaidMargin(i, owed, g)
  BY DEF ClosePositionV2
<1>3. /\ p \in Position /\ u \in Users
      /\ p.base \in Vaults /\ p.lent \in Vaults /\ p.held \in Vaults
      /\ p.ptokens \in Nat /\ p.lock \in Nat
  BY PositionFields
<1>4. r - owed \in Nat
  <2>1. r \in Nat /\ owed \in Nat
    BY SwapNat DEF TypeOK
  <2>2. r >= owed
    BY <1>2
  <2> QED BY <2>1, <2>2
<1>5. debt' \in [Users -> [Vaults -> Nat]] /\ marginDebt' \in [Ids -> Nat]
      /\ due' \in [Vaults -> BOOLEAN]
  BY <1>1, <1>2, RepaidMarginType, GrownTypes
<1> HIDE DEF p, owed, touched
<1>6. ptokens' \in [Holders -> [Vaults -> Nat]]
  <2>1. sold \in [Holders -> [Vaults -> Nat]] /\ Custody \in Holders
    BY <1>1, <1>3, PtokensType, Moved
  <2> HIDE DEF sold
  <2> QED BY <1>2, <1>3, <1>4, <2>1, Moved
<1>7. balance' \in [Users -> [Vaults -> Nat]]
  <2>1. balance[u][p.base] \in Nat /\ balance \in [Users -> [Vaults -> Nat]]
    BY <1>3, BalanceNat
  <2>2. unlocked \in [Users -> [Vaults -> Nat]]
    BY <1>3, <2>1, Put
  <2> HIDE DEF unlocked
  <2>3. unlocked[u][p.lent] + (r - owed) \in Nat
    BY <1>3, <1>4, <2>2
  <2>4. balance' = [unlocked EXCEPT ![u][p.lent] = unlocked[u][p.lent] + (r - owed)]
    BY <1>2, <1>3, <2>2
  <2> QED BY <1>3, <2>2, <2>3, <2>4, Put
<1>8. position' \in [Ids -> Position]
  BY <1>1, <1>3, EndedType DEF TypeOK
<1>9. bypass' \in [Holders -> [Vaults -> BOOLEAN]]
  BY <1>1, <1>3, PtokensType, BypassConsumed DEF TypeOK
<1> QED BY <1>1, <1>5, <1>6, <1>7, <1>8, <1>9 DEF TypeOK

LEMMA SeizedV2Nat ==
    ASSUME TypeOK, NEW i \in Ids
    PROVE  SeizedV2(position[i], marginDebt[i]) \in Nat
<1> DEFINE p == position[i]
           value == (marginDebt[i] * price[p.asset]) * Bonus
           units == value \div price[p.coll]
           worth == units \div 100
<1>1. p.ptokens \in Nat /\ marginDebt[i] \in Nat /\ Bonus \in Nat
  BY PositionFields, MarginAssumption DEF TypeOK
<1>2. price[p.asset] \in Nat /\ price[p.coll] \in Nat \ {0}
  BY PositionFields DEF TypeOK
<1>3. value \in Nat
  <2>1. marginDebt[i] * price[p.asset] \in Nat
    BY <1>1, <1>2, ProductNat
  <2> QED BY <1>1, <2>1, ProductNat
<1> HIDE DEF value
<1>4. units \in Nat
  BY <1>2, <1>3, DivNat
<1> HIDE DEF units
<1>5. worth \in Nat
  BY <1>4, DivNat
<1>6. SeizedV2(p, marginDebt[i]) = Least(IF worth = 0 THEN 1 ELSE worth, p.ptokens)
  BY DEF SeizedV2, units, value
<1> HIDE DEF worth
<1> QED BY <1>1, <1>5, <1>6 DEF Least

LEMMA LiquidatePositionV2Type ==
    ASSUME TypeOK, NEW w, NEW i \in Ids, LiquidatePositionV2(w, i)
    PROVE  TypeOK'
<1> DEFINE p == position[i]
           owed == marginDebt[i]
           seized == SeizedV2(p, owed)
           touched == {p.lent, p.held, p.base}
           out == [ptokens EXCEPT ![Custody][p.held] = @ - seized]
           left == [out EXCEPT ![Custody][p.base] = @ - p.lock]
<1>1. /\ seized <= ptokens[Custody][p.held] /\ p.lock <= out[Custody][p.base]
      /\ ptokens' = Paid(Paid(left, w, p.held, seized), w, p.base, p.lock)
      /\ \E g \in Accruals(touched) :
            debt' = GrownDebt(g) /\ marginDebt' = RepaidMargin(i, owed, g)
      /\ position' = [position EXCEPT ![i] = Ended(p, "liquidated")]
      /\ due' = DueAfter(touched)
      /\ UNCHANGED <<market, counter, shares, balance, price, bypass>>
  BY DEF LiquidatePositionV2
<1>2. /\ p \in Position
      /\ p.base \in Vaults /\ p.lent \in Vaults /\ p.held \in Vaults
      /\ p.ptokens \in Nat /\ p.lock \in Nat
  BY PositionFields
<1>3. seized \in Nat
  BY SeizedV2Nat
<1>4. debt' \in [Users -> [Vaults -> Nat]] /\ marginDebt' \in [Ids -> Nat]
      /\ due' \in [Vaults -> BOOLEAN]
  BY <1>1, RepaidMarginType, GrownTypes
<1> HIDE DEF p, owed, touched, seized
<1>5. ptokens' \in [Holders -> [Vaults -> Nat]]
  <2>1. out \in [Holders -> [Vaults -> Nat]] /\ Custody \in Holders
    BY <1>1, <1>2, <1>3, PtokensType, Moved
  <2> HIDE DEF out
  <2>2. left \in [Holders -> [Vaults -> Nat]]
    BY <1>1, <1>2, <2>1, Moved
  <2> HIDE DEF left
  <2>3. Paid(left, w, p.held, seized) \in [Holders -> [Vaults -> Nat]]
    BY <1>2, <1>3, <2>2, PaidType
  <2> QED BY <1>1, <1>2, <2>3, PaidType
<1>6. position' \in [Ids -> Position]
  BY <1>1, <1>2, EndedType DEF TypeOK
<1> QED BY <1>1, <1>4, <1>5, <1>6 DEF TypeOK

-----------------------------------------------------------------------------
(* Types: the world, and all together *)

LEMMA WorldType == ASSUME TypeOK, World PROVE TypeOK'
<1>1. CASE \E a \in Assets : \E v \in Mappings[a] : SetMarket(a, v)
  <2>1. \A a \in Assets : Mappings[a] \subseteq Vaults
    BY MarginAssumption
  <2> QED BY <1>1, <2>1 DEF SetMarket, TypeOK, books, vault
<1>2. CASE \E a \in Assets : MovePrice(a)
  <2>1. PICK a \in Assets : MovePrice(a)
    BY <1>2
  <2>2. PICK x \in Prices[a] : price' = [price EXCEPT ![a] = x]
    BY <2>1 DEF MovePrice
  <2>3. x \in Nat \ {0}
    BY MarginAssumption
  <2> QED BY <2>1, <2>2, <2>3 DEF MovePrice, TypeOK, books, vault
<1>3. CASE \E v \in Vaults : FallDue(v)
  BY <1>3 DEF FallDue, TypeOK, books
<1>4. CASE \E v \in Vaults : Accrue(v)
  <2>1. PICK v \in Vaults : Accrue(v)
    BY <1>4
  <2>2. debt' \in [Users -> [Vaults -> Nat]] /\ marginDebt' \in [Ids -> Nat]
        /\ due' \in [Vaults -> BOOLEAN]
    BY <2>1, AccruedType DEF Accrue
  <2>3. ptokens' \in [Holders -> [Vaults -> Nat]] /\ UNCHANGED <<market, books, price, bypass>>
    BY <2>1 DEF Accrue, TypeOK
  <2> QED BY <2>2, <2>3, VaultStepType
<1> QED BY <1>1, <1>2, <1>3, <1>4 DEF World

LEMMA BoundsNat ==
    /\ \A n \in Amounts : n \in Nat
    /\ \A leverage \in 2..MaxLeverage : leverage \in Nat \ {0}
  BY MarginAssumption

LEMMA LegacyType == ASSUME TypeOK, Legacy PROVE TypeOK'
<1>1. CASE \E u \in Users, c, b \in Assets, n \in Amounts, leverage \in 2..MaxLeverage :
            OpenPosition(u, c, b, n, leverage)
  BY <1>1, BoundsNat, OpenPositionType
<1>2. CASE \E u \in Users, c, d \in Assets, n, borrow \in Amounts, leverage \in 1..MaxLeverage :
            OpenPositionNoSwap(u, c, d, n, borrow, leverage)
  BY <1>2, BoundsNat, OpenPositionNoSwapType
<1>3. CASE \E i \in Ids : ClosePosition(i)
  BY <1>3, ClosePositionType
<1>4. CASE \E w \in Users \cup {Keeper}, i \in Ids : LiquidatePosition(w, i)
  BY <1>4, LiquidatePositionType
<1> QED BY <1>1, <1>2, <1>3, <1>4 DEF Legacy

LEMMA CustodialType == ASSUME TypeOK, Custodial PROVE TypeOK'
<1>1. CASE \E u \in Users, a \in Assets, n \in Amounts :
            TransferSpotToMargin(u, a, n) \/ TransferMarginToSpot(u, a, n)
  BY <1>1, BoundsNat, TransferType
<1>2. CASE \E u \in Users, c, b \in Assets, n \in Amounts, leverage \in 2..MaxLeverage :
            OpenPositionV2(u, c, b, n, leverage)
  BY <1>2, BoundsNat, OpenPositionV2Type
<1>3. CASE \E i \in Ids : ClosePositionV2(i)
  BY <1>3, ClosePositionV2Type
<1>4. CASE \E w \in Users \cup {Keeper}, i \in Ids : LiquidatePositionV2(w, i)
  BY <1>4, LiquidatePositionV2Type
<1> QED BY <1>1, <1>2, <1>3, <1>4 DEF Custodial

LEMMA SpotStepType == ASSUME TypeOK, Spot PROVE TypeOK'
<1>1. CASE \E u \in Users, v \in Vaults, n \in Amounts :
            \/ DepositCollateral(u, v, n) \/ Withdraw(u, v, n)
            \/ Borrow(u, v, n) \/ Repay(u, v, n)
  BY <1>1, BoundsNat, SpotType, WithdrawType
<1>2. CASE \E w \in Users \cup {Keeper}, u \in Users, lent, held \in Vaults, n \in Amounts :
            LiquidateAccount(w, u, lent, held, n)
  BY <1>2, BoundsNat, LiquidateAccountType
<1>3. CASE \E u \in Users, a \in Assets, n \in Amounts : WithdrawCollateral(u, a, n)
  BY <1>3, BoundsNat, WithdrawType
<1>4. CASE \E u \in Users, w \in Users \cup {Keeper}, v \in Vaults, n \in Amounts :
            Transfer(u, w, v, n)
  BY <1>4, BoundsNat, WithdrawType
<1> QED BY <1>1, <1>2, <1>3, <1>4 DEF Spot

LEMMA StepType == ASSUME TypeOK, [Next]_vars PROVE TypeOK'
<1>1. CASE Next
  BY <1>1, LegacyType, CustodialType, SpotStepType, WorldType DEF Next
<1>2. CASE UNCHANGED vars
  BY <1>2 DEF vars, books, vault, TypeOK
<1> QED BY <1>1, <1>2

LEMMA NobodysPosition ==
    /\ NoPosition(CHOOSE u \in Users : TRUE) \in Position
    /\ NoPosition(CHOOSE u \in Users : TRUE).status = "none"
<1>1. \E u \in Users : TRUE
  BY MarginAssumption
<1>2. \E a \in Assets : TRUE
  BY MarginAssumption
<1>3. \E v \in Vaults : TRUE
  BY <1>2, MarginAssumption
<1>4. /\ (CHOOSE u \in Users : TRUE) \in Users
      /\ (CHOOSE a \in Assets : TRUE) \in Assets
      /\ (CHOOSE v \in Vaults : TRUE) \in Vaults
  BY <1>1, <1>2, <1>3
<1> QED BY <1>4 DEF NoPosition, Position

LEMMA InitType == Init => TypeOK
<1> SUFFICES ASSUME Init PROVE TypeOK
  OBVIOUS
<1>1. market \in [Assets -> Vaults] /\ counter \in 0..MaxPositions
  BY MarginAssumption DEF Init
<1>2. position \in [Ids -> Position]
  BY NobodysPosition DEF Init
<1>3. /\ shares \in [Users -> [Assets -> Nat]] /\ balance \in [Users -> [Vaults -> Nat]]
      /\ ptokens \in [Holders -> [Vaults -> Nat]] /\ debt \in [Users -> [Vaults -> Nat]]
      /\ marginDebt \in [Ids -> Nat] /\ due \in [Vaults -> BOOLEAN]
      /\ bypass \in [Holders -> [Vaults -> BOOLEAN]]
  BY DEF Init
<1>4. price \in [Assets -> Nat \ {0}]
  <2>1. PICK x \in [Assets -> UNION {Prices[a] : a \in Assets}] :
            price = x /\ \A a \in Assets : x[a] \in Prices[a]
    BY DEF Init
  <2>2. \A a \in Assets : x[a] \in Nat \ {0}
    BY <2>1, MarginAssumption
  <2> QED BY <2>1, <2>2
<1> QED BY <1>1, <1>2, <1>3, <1>4 DEF TypeOK

\* No call of the margin controller, of its users or of the liquidators makes a balance,
\* a debt or a share negative: what is repaid, seized, burned and released is never more
\* than there is, whatever rounding and interest do.
THEOREM TypeCorrect == Spec => []TypeOK
<1>1. TypeOK /\ [Next]_vars => TypeOK'
  BY StepType
<1> QED BY <1>1, InitType, PTL DEF Spec

-----------------------------------------------------------------------------
(* Sums over the positions *)

LEMMA IdsFinite == IsFiniteSet(Ids) /\ MaxPositions \in Nat \ {0}
  BY FS_Interval, MarginAssumption DEF Ids

\* One number changes, and the sum by as much.
LEMMA SumPut ==
    ASSUME NEW f \in [Ids -> Nat], NEW k \in Ids, NEW n \in Nat
    PROVE  /\ SumFunction([f EXCEPT ![k] = n]) = SumFunction(f) + (n - f[k])
           /\ SumFunction(f) \in Nat /\ f[k] <= SumFunction(f)
<1> DEFINE g == [f EXCEPT ![k] = n]
<1>1. /\ DOMAIN f = Ids /\ DOMAIN g = Ids /\ g[k] = n
      /\ \A i \in Ids : f[i] \in Nat /\ g[i] \in Nat
      /\ \A i \in Ids \ {k} : g[i] = f[i]
  OBVIOUS
<1> HIDE DEF g
<1>2. \A i \in Ids : f[i] \in Int /\ g[i] \in Int
  BY <1>1
<1>3. SumFunctionOnSet(g, Ids) = SumFunctionOnSet(f, Ids) + (g[k] - f[k])
  BY <1>1, <1>2, IdsFinite, SumChange
<1>4. SumFunctionOnSet(f, Ids) \in Nat /\ f[k] <= SumFunctionOnSet(f, Ids)
  BY <1>1, IdsFinite, SumNat
<1>5. SumFunction(f) = SumFunctionOnSet(f, Ids) /\ SumFunction(g) = SumFunctionOnSet(g, Ids)
  BY <1>1 DEF SumFunction
<1> QED BY <1>1, <1>3, <1>4, <1>5 DEF g

-----------------------------------------------------------------------------
(* The shares that divide a user's debt *)

\* The ids that next_position_id has not given yet.
Unopened == \A i \in Ids : i > counter => position[i].status # "open"

SharesInv == TypeOK /\ Unopened /\ SharesMatch

LEMMA HeldNat ==
    ASSUME TypeOK, NEW u, NEW a
    PROVE  SharesHeld(u, a) \in [Ids -> Nat]
  BY PositionFields DEF SharesHeld

LEMMA SharesNat ==
    ASSUME TypeOK, NEW u \in Users, NEW a \in Assets
    PROVE  shares[u][a] \in Nat
  BY DEF TypeOK

\* No Legacy position begins, ends or burns shares.
SharesUntouched ==
    /\ shares' = shares
    /\ \A i \in Ids :
        \/ position'[i] = position[i]
        \/ ~IsOpen(i, "Legacy") /\ ~IsOpen(i, "Legacy")'

LEMMA UntouchedMatch ==
    ASSUME SharesMatch, SharesUntouched
    PROVE  SharesMatch'
<1>1. \A u, a : SharesHeld(u, a)' = SharesHeld(u, a)
  BY DEF SharesUntouched, SharesHeld, IsOpen
<1> QED BY <1>1 DEF SharesMatch, SharesUntouched

\* Position k of user o in asset x gets d shares, and so does the total.
SharesRaised(k, o, x, d) ==
    /\ shares' = [shares EXCEPT ![o][x] = shares[o][x] + d]
    /\ \A u, a : SharesHeld(u, a)' =
            IF u = o /\ a = x
            THEN [SharesHeld(u, a) EXCEPT ![k] = SharesHeld(u, a)[k] + d]
            ELSE SharesHeld(u, a)

LEMMA RaisedMatch ==
    ASSUME TypeOK, SharesMatch, NEW k \in Ids, NEW o \in Users, NEW x \in Assets, NEW d \in Nat,
           SharesRaised(k, o, x, d)
    PROVE  SharesMatch'
<1> SUFFICES ASSUME NEW u \in Users, NEW a \in Assets
             PROVE  SumFunction(SharesHeld(u, a)') = shares'[u][a]
  BY DEF SharesMatch
<1>1. SumFunction(SharesHeld(u, a)) = shares[u][a]
  BY DEF SharesMatch
<1>2. CASE u = o /\ a = x
  <2> DEFINE f == SharesHeld(u, a)
             t == shares[u][a]
  <2>1. f \in [Ids -> Nat] /\ t \in Nat /\ SumFunction(f) = t /\ f[k] \in Nat
    BY <1>1, HeldNat, SharesNat
  <2>2. SharesHeld(u, a)' = [f EXCEPT ![k] = f[k] + d]
    BY <1>2 DEF SharesRaised
  <2>3. shares'[u][a] = t + d
    BY <1>2 DEF SharesRaised, TypeOK
  <2> HIDE DEF f, t
  <2>4. f[k] + d \in Nat /\ (f[k] + d) - f[k] = d
    BY <2>1
  <2>5. SumFunction([f EXCEPT ![k] = f[k] + d]) = SumFunction(f) + ((f[k] + d) - f[k])
    BY <2>1, <2>4, SumPut
  <2> QED BY <2>1, <2>2, <2>3, <2>4, <2>5
<1>3. CASE ~(u = o /\ a = x)
  <2>1. SharesHeld(u, a)' = SharesHeld(u, a) /\ shares'[u][a] = shares[u][a]
    BY <1>3 DEF SharesRaised, TypeOK
  <2> QED BY <1>1, <2>1
<1> QED BY <1>2, <1>3

\* Position k of user o in asset x loses d of its shares, and so does the total.
SharesLowered(k, o, x, d) ==
    /\ shares' = Burned(o, x, d)
    /\ \A u, a : SharesHeld(u, a)' =
            IF u = o /\ a = x
            THEN [SharesHeld(u, a) EXCEPT ![k] = SharesHeld(u, a)[k] - d]
            ELSE SharesHeld(u, a)

LEMMA LoweredMatch ==
    ASSUME TypeOK, SharesMatch, NEW k \in Ids, NEW o \in Users, NEW x \in Assets, NEW d \in Nat,
           d <= SharesHeld(o, x)[k], SharesLowered(k, o, x, d)
    PROVE  SharesMatch'
<1> SUFFICES ASSUME NEW u \in Users, NEW a \in Assets
             PROVE  SumFunction(SharesHeld(u, a)') = shares'[u][a]
  BY DEF SharesMatch
<1>1. SumFunction(SharesHeld(u, a)) = shares[u][a]
  BY DEF SharesMatch
<1>2. CASE u = o /\ a = x
  <2> DEFINE f == SharesHeld(u, a)
             t == shares[u][a]
  <2>1. f \in [Ids -> Nat] /\ t \in Nat /\ SumFunction(f) = t /\ f[k] \in Nat
    BY <1>1, HeldNat, SharesNat
  <2>2. SharesHeld(u, a)' = [f EXCEPT ![k] = f[k] - d] /\ d <= f[k]
    BY <1>2 DEF SharesLowered
  <2>3. shares'[u][a] = Minus(t, d)
    BY <1>2 DEF SharesLowered, Burned, TypeOK
  <2> HIDE DEF f, t
  <2>4. f[k] - d \in Nat /\ (f[k] - d) - f[k] = 0 - d
    BY <2>1, <2>2
  <2>5. /\ SumFunction([f EXCEPT ![k] = f[k] - d]) = SumFunction(f) + ((f[k] - d) - f[k])
        /\ f[k] <= SumFunction(f)
    BY <2>1, <2>4, SumPut
  <2>6. shares'[u][a] = t - d
    BY <2>1, <2>2, <2>3, <2>5 DEF Minus
  <2> QED BY <2>1, <2>2, <2>4, <2>5, <2>6
<1>3. CASE ~(u = o /\ a = x)
  <2>1. SharesHeld(u, a)' = SharesHeld(u, a) /\ shares'[u][a] = shares[u][a]
    BY <1>3 DEF SharesLowered, Burned, TypeOK
  <2> QED BY <1>1, <2>1
<1> QED BY <1>2, <1>3

LEMMA PushId ==
    ASSUME TypeOK, NEW p, Push(p)
    PROVE  /\ counter + 1 \in Ids /\ counter' = counter + 1
           /\ position' = [position EXCEPT ![counter + 1] = p]
           /\ position'[counter + 1] = p
<1>1. counter \in 0..MaxPositions /\ MaxPositions \in Nat
  BY MarginAssumption DEF TypeOK
<1>2. counter + 1 \in Ids
  BY <1>1 DEF Push, Ids
<1> QED BY <1>2 DEF Push, TypeOK

LEMMA PushUnopened ==
    ASSUME TypeOK, Unopened, NEW p, Push(p)
    PROVE  Unopened' /\ position[counter + 1].status # "open"
<1>1. counter \in Nat
  BY DEF TypeOK
<1>2. \A i \in Ids : i \in Nat
  BY DEF Ids
<1>3. position[counter + 1].status # "open"
  BY <1>1, PushId DEF Unopened
<1>4. \A i \in Ids : i > counter' => i > counter /\ i # counter + 1
  BY <1>1, <1>2, PushId
<1>5. \A i \in Ids : i # counter + 1 => position'[i] = position[i]
  BY PushId DEF TypeOK
<1>6. Unopened'
  BY <1>4, <1>5 DEF Unopened
<1> QED BY <1>3, <1>6

\* What a new Legacy position does to the shares.
LoanTaken ==
    \E p \in Position : /\ p.status = "open" /\ p.mode = "Legacy" /\ Push(p)
                        /\ shares' = [shares EXCEPT ![p.owner][p.asset] = @ + p.shares]

LEMMA LoanMatch ==
    ASSUME SharesInv, LoanTaken
    PROVE  Unopened' /\ SharesMatch'
<1>1. PICK p \in Position :
        /\ p.status = "open" /\ p.mode = "Legacy" /\ Push(p)
        /\ shares' = [shares EXCEPT ![p.owner][p.asset] = @ + p.shares]
  BY DEF LoanTaken
<1> DEFINE k == counter + 1
<1>2. TypeOK /\ Unopened /\ SharesMatch
  BY DEF SharesInv
<1>3. k \in Ids /\ position' = [position EXCEPT ![k] = p] /\ position'[k] = p
  BY <1>1, <1>2, PushId
<1>4. Unopened' /\ position[k].status # "open"
  BY <1>1, <1>2, PushUnopened
<1>5. p.owner \in Users /\ p.asset \in Assets /\ p.shares \in Nat
  BY DEF Position
<1>6. shares' = [shares EXCEPT ![p.owner][p.asset] = shares[p.owner][p.asset] + p.shares]
  BY <1>1, <1>2, <1>5 DEF TypeOK
<1> HIDE DEF k
<1>7. \A i \in Ids : i # k => position'[i] = position[i]
  BY <1>2, <1>3 DEF TypeOK
<1>8. ASSUME NEW u, NEW a
      PROVE  SharesHeld(u, a)' = IF u = p.owner /\ a = p.asset
                                 THEN [SharesHeld(u, a) EXCEPT ![k] = SharesHeld(u, a)[k] + p.shares]
                                 ELSE SharesHeld(u, a)
  <2>1. SharesHeld(u, a)[k] = 0
    BY <1>3, <1>4 DEF SharesHeld, IsOpen
  <2>2. SharesHeld(u, a)'[k] = IF u = p.owner /\ a = p.asset THEN p.shares ELSE 0
    BY <1>1, <1>3 DEF SharesHeld, IsOpen
  <2>3. \A i \in Ids : i # k => SharesHeld(u, a)'[i] = SharesHeld(u, a)[i]
    BY <1>7 DEF SharesHeld, IsOpen
  <2>4. /\ SharesHeld(u, a) = [i \in Ids |-> SharesHeld(u, a)[i]]
        /\ SharesHeld(u, a)' = [i \in Ids |-> SharesHeld(u, a)'[i]]
    BY DEF SharesHeld
  <2>5. 0 + p.shares = p.shares
    BY <1>5
  <2> QED BY <1>3, <2>1, <2>2, <2>3, <2>4, <2>5
<1>9. SharesRaised(k, p.owner, p.asset, p.shares)
  BY <1>6, <1>8 DEF SharesRaised
<1> QED BY <1>2, <1>3, <1>4, <1>5, <1>9, RaisedMatch

LEMMA OpenPositionLoan ==
    ASSUME TypeOK, NEW u \in Users, NEW c \in Assets, NEW b \in Assets, NEW n \in Nat,
           NEW leverage \in Nat \ {0}, OpenPosition(u, c, b, n, leverage)
    PROVE  LoanTaken
<1>1. PICK s \in Sides(c, b) : \E r, new :
        /\ Push(Opened("Legacy", u, s, r, new, n))
        /\ shares' = [shares EXCEPT ![u][s.asset] = @ + new]
  BY DEF OpenPosition
<1>2. PICK r, new :
        /\ Push(Opened("Legacy", u, s, r, new, n))
        /\ shares' = [shares EXCEPT ![u][s.asset] = @ + new]
  BY <1>1
<1> DEFINE p == Opened("Legacy", u, s, r, new, n)
<1>3. /\ p.status = "open" /\ p.mode = "Legacy"
      /\ p.owner = u /\ p.asset = s.asset /\ p.shares = new
  BY DEF Opened
<1>4. TypeOK'
  BY OpenPositionType
<1> HIDE DEF p
<1>5. p \in Position
  BY <1>2, <1>4, PushId DEF p, TypeOK
<1> QED BY <1>2, <1>3, <1>5 DEF p, LoanTaken

LEMMA OpenPositionNoSwapLoan ==
    ASSUME TypeOK, NEW u \in Users, NEW c \in Assets, NEW d \in Assets, NEW n \in Nat,
           NEW borrow \in Nat, NEW leverage, OpenPositionNoSwap(u, c, d, n, borrow, leverage)
    PROVE  LoanTaken
<1> DEFINE s == [base |-> market[c], lent |-> market[d], held |-> market[c], asset |-> d,
                 coll |-> c]
<1>1. PICK new : /\ Push(Opened("Legacy", u, s, n, new, 0))
                 /\ shares' = [shares EXCEPT ![u][d] = @ + new]
  BY DEF OpenPositionNoSwap
<1> DEFINE p == Opened("Legacy", u, s, n, new, 0)
<1>2. /\ p.status = "open" /\ p.mode = "Legacy"
      /\ p.owner = u /\ p.asset = d /\ p.shares = new
  BY DEF Opened
<1>3. TypeOK'
  BY OpenPositionNoSwapType
<1> HIDE DEF p
<1>4. p \in Position
  BY <1>1, <1>3, PushId DEF p, TypeOK
<1> QED BY <1>1, <1>2, <1>4 DEF p, LoanTaken

\* Steps that open nothing.
LEMMA NothingOpened ==
    ASSUME Unopened, counter' = counter,
           \A i \in Ids : position'[i].status = "open" => position[i].status = "open"
    PROVE  Unopened'
  BY DEF Unopened

LEMMA ClosePositionMatch ==
    ASSUME SharesInv, NEW i \in Ids, ClosePosition(i)
    PROVE  Unopened' /\ SharesMatch'
<1> DEFINE p == position[i]
<1>1. TypeOK /\ Unopened /\ SharesMatch
  BY DEF SharesInv
<1>2. /\ IsOpen(i, "Legacy")
      /\ shares' = Burned(p.owner, p.asset, p.shares)
      /\ position' = [position EXCEPT ![i] = Ended(p, "closed")]
      /\ UNCHANGED counter
  BY <1>1, ClosePositionStep
<1>3. p.owner \in Users /\ p.asset \in Assets /\ p.shares \in Nat
  BY <1>1, PositionFields
<1>4. /\ position'[i].status = "closed"
      /\ \A j \in Ids : j # i => position'[j] = position[j]
  BY <1>1, <1>2, <1>3, PositionFields DEF Ended, Position, TypeOK
<1>5. Unopened'
  BY <1>1, <1>2, <1>4, NothingOpened
<1>6. ASSUME NEW u, NEW a
      PROVE  SharesHeld(u, a)' = IF u = p.owner /\ a = p.asset
                                 THEN [SharesHeld(u, a) EXCEPT ![i] = SharesHeld(u, a)[i] - p.shares]
                                 ELSE SharesHeld(u, a)
  <2>1. SharesHeld(u, a)[i] = IF u = p.owner /\ a = p.asset THEN p.shares ELSE 0
    BY <1>2 DEF SharesHeld, IsOpen
  <2>2. SharesHeld(u, a)'[i] = 0
    BY <1>4 DEF SharesHeld, IsOpen
  <2>3. \A j \in Ids : j # i => SharesHeld(u, a)'[j] = SharesHeld(u, a)[j]
    BY <1>4 DEF SharesHeld, IsOpen
  <2>4. /\ SharesHeld(u, a) = [j \in Ids |-> SharesHeld(u, a)[j]]
        /\ SharesHeld(u, a)' = [j \in Ids |-> SharesHeld(u, a)'[j]]
    BY DEF SharesHeld
  <2>5. p.shares - p.shares = 0
    BY <1>3
  <2> HIDE DEF p
  <2> QED BY <2>1, <2>2, <2>3, <2>4, <2>5
<1>7. SharesLowered(i, p.owner, p.asset, p.shares)
  BY <1>2, <1>6 DEF SharesLowered
<1>8. p.shares <= SharesHeld(p.owner, p.asset)[i]
  BY <1>2, <1>3 DEF SharesHeld, IsOpen
<1> QED BY <1>1, <1>3, <1>5, <1>7, <1>8, LoweredMatch

LEMMA LiquidatePositionMatch ==
    ASSUME SharesInv, NEW w, NEW i \in Ids, LiquidatePosition(w, i)
    PROVE  Unopened' /\ SharesMatch'
<1> DEFINE p == position[i]
<1>1. TypeOK /\ Unopened /\ SharesMatch
  BY DEF SharesInv
<1>2. IsOpen(i, "Legacy")
  BY <1>1, LiquidatePositionStep
<1>3. PICK burned \in 0..p.shares, seized \in 0..p.ptokens, repay \in Nat,
           g \in Accruals({p.lent}) : LiquidatedBy(w, i, burned, seized, repay, g)
  BY <1>1, LiquidatePositionStep
<1> DEFINE q == [p EXCEPT !.shares = @ - burned, !.ptokens = @ - seized]
<1>4. /\ shares' = Burned(p.owner, p.asset, burned)
      /\ position' = [position EXCEPT ![i] = IF q.shares = 0 THEN Ended(q, "liquidated") ELSE q]
      /\ UNCHANGED counter
  BY <1>3 DEF LiquidatedBy
<1>5. /\ p \in Position /\ p.owner \in Users /\ p.asset \in Assets /\ p.shares \in Nat
      /\ burned \in Nat /\ burned <= p.shares
  BY <1>1, <1>3, PositionFields
<1>6. /\ q.status = p.status /\ q.mode = p.mode /\ q.owner = p.owner /\ q.asset = p.asset
      /\ q.shares = p.shares - burned
  BY <1>5 DEF Position
<1>7. /\ q.shares = 0 => position'[i].status = "liquidated"
      /\ q.shares # 0 => position'[i] = q
      /\ \A j \in Ids : j # i => position'[j] = position[j]
  <2>1. Ended(q, "liquidated").status = "liquidated"
    BY <1>5 DEF Ended, Position
  <2> HIDE DEF q
  <2> QED BY <1>1, <1>4, <2>1 DEF TypeOK
<1> HIDE DEF q
<1>8. Unopened'
  BY <1>1, <1>2, <1>4, <1>7, NothingOpened DEF IsOpen
<1>9. ASSUME NEW u, NEW a
      PROVE  SharesHeld(u, a)' = IF u = p.owner /\ a = p.asset
                                 THEN [SharesHeld(u, a) EXCEPT ![i] = SharesHeld(u, a)[i] - burned]
                                 ELSE SharesHeld(u, a)
  <2>1. SharesHeld(u, a)[i] = IF u = p.owner /\ a = p.asset THEN p.shares ELSE 0
    BY <1>2 DEF SharesHeld, IsOpen
  <2>2. SharesHeld(u, a)'[i] = IF u = p.owner /\ a = p.asset THEN p.shares - burned ELSE 0
    <3>1. CASE q.shares = 0
      BY <1>6, <1>7, <3>1 DEF SharesHeld, IsOpen
    <3>2. CASE q.shares # 0
      <4>1. IsOpen(i, "Legacy")' /\ position'[i].owner = p.owner /\ position'[i].asset = p.asset
            /\ position'[i].shares = p.shares - burned
        BY <1>2, <1>6, <1>7, <3>2 DEF IsOpen
      <4> QED BY <4>1 DEF SharesHeld
    <3> QED BY <3>1, <3>2
  <2>3. \A j \in Ids : j # i => SharesHeld(u, a)'[j] = SharesHeld(u, a)[j]
    BY <1>7 DEF SharesHeld, IsOpen
  <2>4. /\ SharesHeld(u, a) = [j \in Ids |-> SharesHeld(u, a)[j]]
        /\ SharesHeld(u, a)' = [j \in Ids |-> SharesHeld(u, a)'[j]]
    BY DEF SharesHeld
  <2> HIDE DEF p
  <2> QED BY <2>1, <2>2, <2>3, <2>4
<1>10. SharesLowered(i, p.owner, p.asset, burned)
  BY <1>4, <1>9 DEF SharesLowered
<1>11. burned <= SharesHeld(p.owner, p.asset)[i]
  BY <1>2, <1>5 DEF SharesHeld, IsOpen
<1> QED BY <1>1, <1>5, <1>8, <1>10, <1>11, LoweredMatch

\* What the MarginV2 operations do to the positions: nothing to a Legacy one.
LEMMA OpenPositionV2Match ==
    ASSUME SharesInv, NEW u \in Users, NEW c \in Assets, NEW b \in Assets, NEW n, NEW leverage,
           OpenPositionV2(u, c, b, n, leverage)
    PROVE  Unopened' /\ SharesMatch'
<1>1. TypeOK /\ Unopened /\ SharesMatch
  BY DEF SharesInv
<1>2. PICK s, r : Push(Opened("MarginV2", u, s, r, 0, n))
  BY DEF OpenPositionV2
<1>3. shares' = shares
  BY DEF OpenPositionV2
<1>4. Unopened' /\ position[counter + 1].status # "open"
  BY <1>1, <1>2, PushUnopened
<1>5. /\ position'[counter + 1].mode = "MarginV2"
      /\ \A i \in Ids : i # counter + 1 => position'[i] = position[i]
  BY <1>1, <1>2, PushId DEF Opened, TypeOK
<1>6. SharesUntouched
  BY <1>3, <1>4, <1>5 DEF SharesUntouched, IsOpen
<1> QED BY <1>1, <1>4, <1>6, UntouchedMatch

LEMMA EndV2Match ==
    ASSUME SharesInv, NEW i \in Ids, IsOpen(i, "MarginV2"), NEW status \in {"closed", "liquidated"},
           position' = [position EXCEPT ![i] = Ended(position[i], status)],
           UNCHANGED <<counter, shares>>
    PROVE  Unopened' /\ SharesMatch'
<1>1. TypeOK /\ Unopened /\ SharesMatch
  BY DEF SharesInv
<1>2. Ended(position[i], status).status = status
  BY <1>1, PositionFields DEF Ended, Position
<1>3. /\ position'[i].status # "open"
      /\ \A j \in Ids : j # i => position'[j] = position[j]
  BY <1>1, <1>2 DEF TypeOK
<1>4. SharesUntouched
  BY <1>3 DEF SharesUntouched, IsOpen
<1>5. Unopened'
  BY <1>1, <1>3, NothingOpened DEF IsOpen
<1> QED BY <1>1, <1>4, <1>5, UntouchedMatch

LEMMA KeptMatch ==
    ASSUME SharesInv, UNCHANGED <<counter, position, shares>>
    PROVE  Unopened' /\ SharesMatch'
<1>1. SharesUntouched
  BY DEF SharesUntouched
<1> QED BY <1>1, UntouchedMatch DEF SharesInv, Unopened

LEMMA LegacyMatch == ASSUME SharesInv, Legacy PROVE Unopened' /\ SharesMatch'
<1>1. TypeOK
  BY DEF SharesInv
<1>2. CASE \E u \in Users, c, b \in Assets, n \in Amounts, leverage \in 2..MaxLeverage :
            OpenPosition(u, c, b, n, leverage)
  BY <1>1, <1>2, BoundsNat, OpenPositionLoan, LoanMatch
<1>3. CASE \E u \in Users, c, d \in Assets, n, borrow \in Amounts, leverage \in 1..MaxLeverage :
            OpenPositionNoSwap(u, c, d, n, borrow, leverage)
  BY <1>1, <1>3, BoundsNat, OpenPositionNoSwapLoan, LoanMatch
<1>4. CASE \E i \in Ids : ClosePosition(i)
  BY <1>4, ClosePositionMatch
<1>5. CASE \E w \in Users \cup {Keeper}, i \in Ids : LiquidatePosition(w, i)
  BY <1>5, LiquidatePositionMatch
<1> QED BY <1>2, <1>3, <1>4, <1>5 DEF Legacy

LEMMA CustodialMatch == ASSUME SharesInv, Custodial PROVE Unopened' /\ SharesMatch'
<1>1. CASE \E u \in Users, a \in Assets, n \in Amounts :
            TransferSpotToMargin(u, a, n) \/ TransferMarginToSpot(u, a, n)
  BY <1>1, KeptMatch DEF TransferSpotToMargin, TransferMarginToSpot
<1>2. CASE \E u \in Users, c, b \in Assets, n \in Amounts, leverage \in 2..MaxLeverage :
            OpenPositionV2(u, c, b, n, leverage)
  BY <1>2, OpenPositionV2Match
<1>3. CASE \E i \in Ids : ClosePositionV2(i)
  BY <1>3, EndV2Match DEF ClosePositionV2
<1>4. CASE \E w \in Users \cup {Keeper}, i \in Ids : LiquidatePositionV2(w, i)
  BY <1>4, EndV2Match DEF LiquidatePositionV2
<1> QED BY <1>1, <1>2, <1>3, <1>4 DEF Custodial

LEMMA SpotKeepsBooks == ASSUME Spot PROVE UNCHANGED <<counter, position, shares>>
<1>1. ASSUME NEW u \in Users, NEW v \in Vaults, NEW n \in Amounts,
             \/ DepositCollateral(u, v, n) \/ Withdraw(u, v, n)
             \/ Borrow(u, v, n) \/ Repay(u, v, n)
      PROVE  UNCHANGED <<counter, position, shares>>
  <2>1. UNCHANGED books
    BY <1>1 DEF DepositCollateral, Withdraw, TakesOut, Borrow, Repay
  <2> QED BY <2>1 DEF books
<1>2. ASSUME NEW w, NEW u, NEW lent, NEW held, NEW n, LiquidateAccount(w, u, lent, held, n)
      PROVE  UNCHANGED <<counter, position, shares>>
  <2>1. UNCHANGED books
    BY <1>2 DEF LiquidateAccount
  <2> QED BY <2>1 DEF books
<1>3. ASSUME NEW u, NEW w, NEW a, NEW v, NEW n,
             WithdrawCollateral(u, a, n) \/ Transfer(u, w, v, n)
      PROVE  UNCHANGED <<counter, position, shares>>
  <2>1. UNCHANGED books
    BY <1>3 DEF WithdrawCollateral, Transfer, TakesOut
  <2> QED BY <2>1 DEF books
<1> QED BY <1>1, <1>2, <1>3 DEF Spot

LEMMA WorldKeepsBooks == ASSUME World PROVE UNCHANGED <<counter, position, shares>>
  BY DEF World, SetMarket, MovePrice, FallDue, Accrue, books

LEMMA StepMatch == ASSUME SharesInv, [Next]_vars PROVE SharesInv'
<1>1. TypeOK'
  BY StepType DEF SharesInv
<1>2. CASE Legacy
  BY <1>1, <1>2, LegacyMatch DEF SharesInv
<1>3. CASE Custodial
  BY <1>1, <1>3, CustodialMatch DEF SharesInv
<1>4. CASE Spot \/ World \/ UNCHANGED vars
  <2>1. UNCHANGED <<counter, position, shares>>
    BY <1>4, SpotKeepsBooks, WorldKeepsBooks DEF vars, books
  <2> QED BY <1>1, <2>1, KeptMatch DEF SharesInv
<1> QED BY <1>2, <1>3, <1>4 DEF Next

LEMMA InitMatch == Init => SharesInv
<1> SUFFICES ASSUME Init PROVE SharesInv
  OBVIOUS
<1>1. TypeOK
  BY InitType
<1>2. \A i \in Ids : position[i].status = "none"
  BY NobodysPosition DEF Init
<1>3. Unopened
  BY <1>2 DEF Unopened
<1>4. ASSUME NEW u \in Users, NEW a \in Assets
      PROVE  SumFunction(SharesHeld(u, a)) = shares[u][a]
  <2>1. DOMAIN SharesHeld(u, a) = Ids /\ \A i \in Ids : SharesHeld(u, a)[i] = 0
    BY <1>2 DEF SharesHeld, IsOpen
  <2>2. shares[u][a] = 0
    BY DEF Init
  <2> QED BY <2>1, <2>2, IdsFinite, SumZero DEF SumFunction
<1> QED BY <1>1, <1>3, <1>4 DEF SharesInv, SharesMatch

\* The shares of a user's open Legacy positions add up to the total by which her debt is
\* divided, for any number of positions. The strengthening is that an id not given yet
\* names no open position, so that a new one adds to the total without replacing shares.
THEOREM SharesExact == Spec => []SharesMatch
<1>1. SharesInv /\ [Next]_vars => SharesInv'
  BY StepMatch
<1>2. SharesInv => SharesMatch
  BY DEF SharesInv
<1> QED BY <1>1, <1>2, InitMatch, PTL DEF Spec

-----------------------------------------------------------------------------
(* How a position ends *)

LEMMA ReplacedOnly ==
    ASSUME TypeOK, NEW j, NEW p, position' = [position EXCEPT ![j] = p],
           NEW i \in Ids, i # j
    PROVE  position'[i] = position[i]
  BY DEF TypeOK

\* A position ends by an operation on itself only.
LEMMA OnlyItsOwnEnd ==
    ASSUME SharesInv, Next, NEW i \in Ids, position[i].status = "open"
    PROVE  \/ position'[i].status = "open"
           \/ ClosePosition(i) \/ ClosePositionV2(i)
           \/ \E w \in Users \cup {Keeper} : LiquidatePosition(w, i) \/ LiquidatePositionV2(w, i)
<1>1. TypeOK /\ Unopened
  BY DEF SharesInv
<1>2. ASSUME NEW p, Push(p) PROVE position'[i].status = "open"
  BY <1>1, <1>2, PushId, PushUnopened, ReplacedOnly
<1>3. CASE Legacy
  <2>1. CASE \E u \in Users, c, b \in Assets, n \in Amounts, leverage \in 2..MaxLeverage :
                OpenPosition(u, c, b, n, leverage)
    <3>1. LoanTaken
      BY <1>1, <2>1, BoundsNat, OpenPositionLoan
    <3> QED BY <1>2, <3>1 DEF LoanTaken
  <2>2. CASE \E u \in Users, c, d \in Assets, n, borrow \in Amounts,
                leverage \in 1..MaxLeverage : OpenPositionNoSwap(u, c, d, n, borrow, leverage)
    <3>1. LoanTaken
      BY <1>1, <2>2, BoundsNat, OpenPositionNoSwapLoan
    <3> QED BY <1>2, <3>1 DEF LoanTaken
  <2>3. ASSUME NEW j \in Ids, j # i, ClosePosition(j) PROVE position'[i].status = "open"
    <3>1. PICK p : position' = [position EXCEPT ![j] = p]
      BY <2>3 DEF ClosePosition
    <3> QED BY <1>1, <2>3, <3>1, ReplacedOnly
  <2>4. ASSUME NEW w, NEW j \in Ids, j # i, LiquidatePosition(w, j)
        PROVE  position'[i].status = "open"
    <3>1. PICK p : position' = [position EXCEPT ![j] = p]
      BY <2>4 DEF LiquidatePosition
    <3> QED BY <1>1, <2>4, <3>1, ReplacedOnly
  <2> QED BY <1>3, <2>1, <2>2, <2>3, <2>4 DEF Legacy
<1>4. CASE Custodial
  <2>1. CASE \E u \in Users, a \in Assets, n \in Amounts :
                TransferSpotToMargin(u, a, n) \/ TransferMarginToSpot(u, a, n)
    BY <2>1 DEF TransferSpotToMargin, TransferMarginToSpot
  <2>2. CASE \E u \in Users, c, b \in Assets, n \in Amounts, leverage \in 2..MaxLeverage :
                OpenPositionV2(u, c, b, n, leverage)
    <3>1. \E p : Push(p)
      BY <2>2 DEF OpenPositionV2
    <3> QED BY <1>2, <3>1
  <2>3. ASSUME NEW j \in Ids, j # i, ClosePositionV2(j) PROVE position'[i].status = "open"
    <3>1. PICK p : position' = [position EXCEPT ![j] = p]
      BY <2>3 DEF ClosePositionV2
    <3> QED BY <1>1, <2>3, <3>1, ReplacedOnly
  <2>4. ASSUME NEW w, NEW j \in Ids, j # i, LiquidatePositionV2(w, j)
        PROVE  position'[i].status = "open"
    <3>1. PICK p : position' = [position EXCEPT ![j] = p]
      BY <2>4 DEF LiquidatePositionV2
    <3> QED BY <1>1, <2>4, <3>1, ReplacedOnly
  <2> QED BY <1>4, <2>1, <2>2, <2>3, <2>4 DEF Custodial
<1>5. CASE Spot \/ World
  BY <1>5, SpotKeepsBooks, WorldKeepsBooks
<1> QED BY <1>3, <1>4, <1>5 DEF Next

\* Without unbooked interest a repayment of what was last booked leaves nothing.
LEMMA RepaidWhole ==
    ASSUME TypeOK, NEW i \in Ids, NEW vs, NEW g \in Accruals(vs), ~due[position[i].lent]
    PROVE  RepaidMargin(i, marginDebt[i], g)[i] = 0
<1>1. g[position[i].lent] = 0
  BY PositionFields, AccrualNat
<1>2. marginDebt[i] \in Nat
  BY DEF TypeOK
<1>3. GrownMarginDebt(g)[i] = marginDebt[i]
  BY <1>1, <1>2 DEF GrownMarginDebt, Grown
<1> QED BY <1>2, <1>3, RepaidMarginType

LEMMA StepSettles ==
    ASSUME SharesInv, [Next]_vars, NEW i \in Ids, IsOpen(i, "MarginV2"),
           position'[i].status # "open", ~due[position[i].lent]
    PROVE  marginDebt'[i] = 0
<1>1. TypeOK
  BY DEF SharesInv
<1>2. Next
  BY DEF vars, books, IsOpen
<1>3. ClosePositionV2(i) \/ \E w \in Users \cup {Keeper} : LiquidatePositionV2(w, i)
  BY <1>2, OnlyItsOwnEnd DEF IsOpen, ClosePosition, LiquidatePosition
<1>4. PICK vs, g : g \in Accruals(vs) /\ marginDebt' = RepaidMargin(i, marginDebt[i], g)
  <2>1. CASE ClosePositionV2(i)
    BY <2>1 DEF ClosePositionV2
  <2>2. CASE \E w \in Users \cup {Keeper} : LiquidatePositionV2(w, i)
    BY <2>2 DEF LiquidatePositionV2
  <2> QED BY <1>3, <2>1, <2>2
<1> QED BY <1>1, <1>4, RepaidWhole

\* A MarginV2 position that ends with its vault's interest booked leaves no debt behind,
\* whichever of the two ways it ends: close_position_v2 and liquidate_position_v2 repay
\* the whole of what was last booked, and nothing else ends a position.
THEOREM SettledStay == Spec => SettledOwesNothing
<1>1. SharesInv /\ [Next]_vars =>
        [\A i \in Ids :
            IsOpen(i, "MarginV2") /\ position'[i].status # "open" /\ ~due[position[i].lent]
                => marginDebt'[i] = 0]_vars
  BY StepSettles
<1>2. SharesInv /\ [Next]_vars => SharesInv'
  BY StepMatch
<1> QED BY <1>1, <1>2, InitMatch, PTL DEF Spec, SettledOwesNothing

\* What is left of a debt when a part of it, rounded up, has been paid.
LEMMA ShareLeft ==
    ASSUME NEW d \in Nat, NEW t \in Nat \ {0}, NEW k \in Nat, k < t
    PROVE  (d - CeilDiv(k * d, t)) * t <= d * (t - k)
<1> DEFINE c == CeilDiv(k * d, t)
<1>1. k * d \in Nat
  BY ProductNat
<1>2. c \in Nat /\ k * d <= c * t
  BY <1>1, CeilCovers
<1> HIDE DEF c
<1>3. (d - c) * t = d * t - c * t
  BY <1>2
<1>4. d * (t - k) = d * t - k * d
  OBVIOUS
<1>5. d * t \in Nat /\ c * t \in Nat
  BY <1>2, ProductNat
<1>6. (d - c) * t <= d * (t - k)
  BY <1>1, <1>2, <1>3, <1>4, <1>5
<1> QED BY <1>6 DEF c

LEMMA StepPaysItsShare ==
    ASSUME SharesInv, [Next]_vars, NEW i \in Ids, IsOpen(i, "Legacy"),
           position'[i].status = "closed", ~due[position[i].lent]
    PROVE  debt'[position[i].owner][position[i].lent] * shares[position[i].owner][position[i].asset]
            <= debt[position[i].owner][position[i].lent]
                * shares'[position[i].owner][position[i].asset]
<1> DEFINE p == position[i]
           u == p.owner
           owed == DebtFor(p)
           touched == OwedToo(u, {p.base, p.lent, p.held})
           total == shares[u][p.asset]
           d == debt[u][p.lent]
<1>1. TypeOK
  BY DEF SharesInv
<1>2. ClosePosition(i)
  <2>1. Next
    BY DEF vars, books, IsOpen
  <2>2. ASSUME NEW w, LiquidatePosition(w, i) PROVE position'[i].status # "closed"
    <3>1. PICK q : /\ q.status = p.status
                   /\ position' = [position EXCEPT ![i] =
                                    IF q.shares = 0 THEN Ended(q, "liquidated") ELSE q]
                   /\ q \in Position
      <4>1. PICK burned \in 0..p.shares, seized \in 0..p.ptokens, repay \in Nat,
                 g \in Accruals({p.lent}) : LiquidatedBy(w, i, burned, seized, repay, g)
        BY <1>1, <2>2, LiquidatePositionStep
      <4> DEFINE q == [p EXCEPT !.shares = @ - burned, !.ptokens = @ - seized]
      <4>2. p \in Position /\ p.shares \in Nat /\ p.ptokens \in Nat
        BY <1>1, PositionFields
      <4>3. q.status = p.status /\ q \in Position
        BY <4>1, <4>2, LessType
      <4> QED BY <4>1, <4>3 DEF LiquidatedBy
    <3>2. Ended(q, "liquidated").status = "liquidated"
      BY <3>1 DEF Ended, Position
    <3> QED BY <1>1, <3>1, <3>2 DEF TypeOK, IsOpen
  <2> QED BY <2>1, <2>2, OnlyItsOwnEnd DEF IsOpen, ClosePositionV2, LiquidatePositionV2
<1>3. /\ owed > 0
      /\ shares' = Burned(u, p.asset, p.shares)
      /\ \E g \in Accruals(touched) : debt' = [GrownDebt(g) EXCEPT ![u][p.lent] = @ - owed]
  BY <1>1, <1>2, ClosePositionStep
<1>4. /\ u \in Users /\ p.asset \in Assets /\ p.lent \in Vaults /\ p.shares \in Nat
      /\ total \in Nat /\ d \in Nat
  BY <1>1, PositionFields DEF TypeOK
<1>5. shares'[u][p.asset] = Minus(total, p.shares)
  BY <1>1, <1>3, <1>4 DEF Burned, TypeOK
<1>6. debt'[u][p.lent] = d - owed
  <2>1. PICK g \in Accruals(touched) : debt' = [GrownDebt(g) EXCEPT ![u][p.lent] = @ - owed]
    BY <1>3
  <2>2. g[p.lent] = 0
    BY <1>4, AccrualNat
  <2>3. GrownDebt(g)[u][p.lent] = d
    BY <1>4, <2>2 DEF GrownDebt, Grown
  <2>4. GrownDebt(g) \in [Users -> [Vaults -> Nat]]
    BY <1>1, GrownTypes
  <2> QED BY <1>4, <2>1, <2>3, <2>4
<1>7. owed = IF total = 0 \/ p.shares = 0 THEN 0
             ELSE IF p.shares >= total THEN d
             ELSE CeilDiv(p.shares * d, total)
  BY DEF DebtFor
<1>8. total # 0 /\ p.shares # 0
  BY <1>3, <1>7
<1> HIDE DEF p, owed, total, d
<1>9. CASE p.shares >= total
  <2>1. debt'[u][p.lent] = 0 /\ shares'[u][p.asset] \in Nat
    BY <1>4, <1>5, <1>6, <1>7, <1>8, <1>9 DEF Minus
  <2>2. 0 * total = 0 /\ d * shares'[u][p.asset] \in Nat
    BY <1>4, <2>1, ProductNat
  <2> QED BY <2>1, <2>2 DEF p, total, d
<1>10. CASE ~(p.shares >= total)
  <2>1. p.shares < total /\ shares'[u][p.asset] = total - p.shares
    BY <1>4, <1>5, <1>10 DEF Minus
  <2>2. (d - CeilDiv(p.shares * d, total)) * total <= d * (total - p.shares)
    BY <1>4, <1>8, <2>1, ShareLeft
  <2> QED BY <1>6, <1>7, <1>8, <1>10, <2>1, <2>2 DEF p, total, d
<1> QED BY <1>9, <1>10

\* A position that is closed with its vault's interest booked pays at least its part of
\* the debt, so that what a remaining share owes does not rise: the part is rounded up.
THEOREM ClosesPayTheirShare == Spec => CloseRepaysItsShares
<1>1. SharesInv /\ [Next]_vars =>
        [\A i \in Ids :
            LET p == position[i]
            IN IsOpen(i, "Legacy") /\ position'[i].status = "closed" /\ ~due[p.lent]
                => debt'[p.owner][p.lent] * shares[p.owner][p.asset]
                    <= debt[p.owner][p.lent] * shares'[p.owner][p.asset]]_vars
  BY StepPaysItsShare
<1>2. SharesInv /\ [Next]_vars => SharesInv'
  BY StepMatch
<1> QED BY <1>1, <1>2, InitMatch, PTL DEF Spec, CloseRepaysItsShares

-----------------------------------------------------------------------------
(* What comes and goes *)

Tokens == [Holders -> [Vaults -> Int]]

Gain(tok, h, v, n) == [tok EXCEPT ![h][v] = @ + n]
Lose(tok, h, v, n) == [tok EXCEPT ![h][v] = @ - n]

LEMMA AtMoved ==
    ASSUME NEW tok \in Tokens, NEW h \in Holders, NEW v \in Vaults, NEW n \in Int,
           NEW x \in Holders, NEW y \in Vaults
    PROVE  /\ Gain(tok, h, v, n) \in Tokens /\ Lose(tok, h, v, n) \in Tokens
           /\ tok[x][y] \in Int
           /\ Gain(tok, h, v, n)[x][y] = IF x = h /\ y = v THEN tok[x][y] + n ELSE tok[x][y]
           /\ Lose(tok, h, v, n)[x][y] = IF x = h /\ y = v THEN tok[x][y] - n ELSE tok[x][y]
  BY DEF Tokens, Gain, Lose

\* What others hold.
LEMMA Elsewhere ==
    ASSUME NEW tok \in Tokens, NEW h \in Holders, NEW v \in Vaults, NEW n \in Int,
           NEW x \in Holders, x # h, NEW y \in Vaults
    PROVE  /\ Gain(tok, h, v, n) \in Tokens /\ Gain(tok, h, v, n)[x][y] = tok[x][y]
           /\ Lose(tok, h, v, n) \in Tokens /\ Lose(tok, h, v, n)[x][y] = tok[x][y]
<1>1. Gain(tok, h, v, n) \in Tokens /\ Lose(tok, h, v, n) \in Tokens
  BY AtMoved
<1>2. Gain(tok, h, v, n)[x][y] = tok[x][y]
  BY AtMoved
<1>3. Lose(tok, h, v, n)[x][y] = tok[x][y]
  BY AtMoved
<1> QED BY <1>1, <1>2, <1>3

LEMMA AtPaid ==
    ASSUME NEW tok \in Tokens, NEW w, NEW v \in Vaults, NEW n \in Int,
           NEW x \in Holders, NEW y \in Vaults
    PROVE  /\ Paid(tok, w, v, n) \in Tokens
           /\ x = w /\ x \in Users /\ y = v => Paid(tok, w, v, n)[x][y] = tok[x][y] + n
           /\ ~(x = w /\ x \in Users /\ y = v) => Paid(tok, w, v, n)[x][y] = tok[x][y]
<1>1. CASE w \in Users
  <2>1. w \in Holders /\ Paid(tok, w, v, n) = Gain(tok, w, v, n)
    BY <1>1 DEF Paid, Holders, Gain
  <2> QED BY <1>1, <2>1, AtMoved
<1>2. CASE w \notin Users
  BY <1>2 DEF Paid
<1> QED BY <1>1, <1>2

\* The call of a liquidator gives pTokens to her, or to nobody who is modelled.
LEMMA PaidMore ==
    ASSUME NEW tok \in Tokens, NEW w, NEW v \in Vaults, NEW n \in Nat, NEW x \in Holders,
           NEW y \in Vaults
    PROVE  Paid(tok, w, v, n) \in Tokens /\ Paid(tok, w, v, n)[x][y] >= tok[x][y]
<1>1. n \in Int /\ tok[x][y] \in Int
  BY DEF Tokens
<1>2. /\ Paid(tok, w, v, n) \in Tokens
      /\ Paid(tok, w, v, n)[x][y] \in {tok[x][y], tok[x][y] + n}
  BY <1>1, AtPaid
<1> QED BY <1>1, <1>2

LEMMA TokensNow ==
    ASSUME TypeOK
    PROVE  /\ ptokens \in Tokens /\ Custody \in Holders /\ Custody \notin Users
           /\ \A x \in Holders, y \in Vaults : ptokens[x][y] \in Nat
           /\ Users \subseteq Holders
  BY MarginAssumption DEF TypeOK, Tokens, Holders

LEMMA TokensThen ==
    ASSUME TypeOK'
    PROVE  \A x \in Holders, y \in Vaults : ptokens'[x][y] \in Nat
  BY DEF TypeOK

-----------------------------------------------------------------------------
(* Locks *)

\* What the position p locks of u's pTokens in vault v.
LockIn(p, u, v) ==
    IF ~(p.status = "open" /\ p.mode = "Legacy" /\ p.owner = u) THEN 0
    ELSE (IF p.held = v THEN p.ptokens ELSE 0) + (IF p.base = v THEN p.lock ELSE 0)

LockOf(pos, u, v) == SumFunction([i \in Ids |-> LockIn(pos[i], u, v)])

LEMMA LockedIs ==
    ASSUME NEW u, NEW v
    PROVE  Locked(u, v) = LockOf(position, u, v) /\ Locked(u, v)' = LockOf(position', u, v)
  BY DEF Locked, LockOf, LockedBy, LockIn, IsOpen

LEMMA LockInNat ==
    ASSUME NEW p \in Position, NEW u, NEW v
    PROVE  LockIn(p, u, v) \in Nat
  BY DEF LockIn, Position

LEMMA LockPut ==
    ASSUME NEW pos \in [Ids -> Position], NEW k \in Ids, NEW p \in Position, NEW u, NEW v
    PROVE  /\ LockOf([pos EXCEPT ![k] = p], u, v)
                = LockOf(pos, u, v) + (LockIn(p, u, v) - LockIn(pos[k], u, v))
           /\ LockOf(pos, u, v) \in Nat
           /\ LockIn(p, u, v) \in Nat /\ LockIn(pos[k], u, v) \in Nat
<1> DEFINE f == [i \in Ids |-> LockIn(pos[i], u, v)]
           n == LockIn(p, u, v)
<1>1. n \in Nat /\ f \in [Ids -> Nat] /\ f[k] = LockIn(pos[k], u, v)
  BY LockInNat
<1>2. [i \in Ids |-> LockIn([pos EXCEPT ![k] = p][i], u, v)] = [f EXCEPT ![k] = n]
  OBVIOUS
<1>3. LockOf(pos, u, v) = SumFunction(f)
      /\ LockOf([pos EXCEPT ![k] = p], u, v) = SumFunction([f EXCEPT ![k] = n])
  BY <1>2 DEF LockOf
<1>4. f[k] \in Nat
  BY <1>1
<1> HIDE DEF f, n
<1>5. SumFunction([f EXCEPT ![k] = n]) = SumFunction(f) + (n - f[k]) /\ SumFunction(f) \in Nat
  BY <1>1, SumPut
<1> QED BY <1>1, <1>3, <1>4, <1>5 DEF n

\* One position changes, and the pTokens by no less than its lock.
LEMMA LockStep ==
    ASSUME TypeOK, TypeOK', NEW k \in Ids, NEW p, position' = [position EXCEPT ![k] = p],
           NEW u \in Users, NEW v \in Vaults, LockHeld(u, v),
           ptokens'[u][v] - ptokens[u][v] >= LockIn(p, u, v) - LockIn(position[k], u, v)
    PROVE  LockHeld(u, v)'
<1>1. position \in [Ids -> Position] /\ p \in Position
  BY DEF TypeOK
<1>2. /\ Locked(u, v)' = Locked(u, v) + (LockIn(p, u, v) - LockIn(position[k], u, v))
      /\ Locked(u, v) \in Nat
      /\ LockIn(p, u, v) \in Nat /\ LockIn(position[k], u, v) \in Nat
  <2>1. /\ LockOf([position EXCEPT ![k] = p], u, v)
            = LockOf(position, u, v) + (LockIn(p, u, v) - LockIn(position[k], u, v))
        /\ LockOf(position, u, v) \in Nat
        /\ LockIn(p, u, v) \in Nat /\ LockIn(position[k], u, v) \in Nat
    BY <1>1, LockPut
  <2>2. LockOf(position', u, v) = LockOf([position EXCEPT ![k] = p], u, v)
    OBVIOUS
  <2> QED BY <2>1, <2>2, LockedIs
<1>3. ptokens[u][v] \in Nat /\ ptokens'[u][v] \in Nat
  BY TokensNow, TokensThen
<1> QED BY <1>2, <1>3 DEF LockHeld

\* No position changes its lock, and no pTokens of u leave.
LEMMA LockSame ==
    ASSUME TypeOK, TypeOK', NEW u \in Users, NEW v \in Vaults, LockHeld(u, v),
           position' = position, ptokens'[u][v] >= ptokens[u][v]
    PROVE  LockHeld(u, v)'
<1>1. Locked(u, v)' = Locked(u, v) /\ Locked(u, v) \in Nat
  <2>1. 1 \in Ids /\ position \in [Ids -> Position] /\ position[1] \in Position
    BY IdsFinite DEF TypeOK, Ids
  <2> QED BY <2>1, LockPut, LockedIs
<1>2. ptokens[u][v] \in Nat /\ ptokens'[u][v] \in Nat
  BY TokensNow, TokensThen
<1> QED BY <1>1, <1>2 DEF LockHeld

\* A new position where none was open.
LEMMA LockPushed ==
    ASSUME TypeOK, TypeOK', Unopened, NEW p, Push(p),
           NEW u \in Users, NEW v \in Vaults, LockHeld(u, v),
           ptokens'[u][v] - ptokens[u][v] >= LockIn(p, u, v)
    PROVE  LockHeld(u, v)'
<1>1. /\ counter + 1 \in Ids /\ position' = [position EXCEPT ![counter + 1] = p]
      /\ position[counter + 1].status # "open"
  BY PushId, PushUnopened
<1>2. LockIn(position[counter + 1], u, v) = 0
  BY <1>1 DEF LockIn
<1>3. p \in Position
  BY <1>1 DEF TypeOK
<1>4. LockIn(p, u, v) \in Nat
  BY <1>3, LockInNat
<1>5. ptokens'[u][v] - ptokens[u][v] >= LockIn(p, u, v) - LockIn(position[counter + 1], u, v)
  BY <1>2, <1>4
<1> QED BY <1>1, <1>5, LockStep

LEMMA OpenPositionLocks ==
    ASSUME TypeOK, TypeOK', Unopened, NEW o \in Users, NEW c \in Assets, NEW b \in Assets,
           NEW n \in Nat, NEW leverage, OpenPosition(o, c, b, n, leverage),
           NEW u \in Users, NEW v \in Vaults, LockHeld(u, v)
    PROVE  LockHeld(u, v)'
<1>1. PICK s \in Sides(c, b) : \E r, new :
        /\ r \in SwapOutputs(s.asset, s.coll, Leveraged(s, c, n, leverage))
        /\ Push(Opened("Legacy", o, s, r, new, n))
        /\ ptokens' = Gain(Gain(ptokens, o, s.base, n), o, s.held, r)
  BY DEF OpenPosition, Gain
<1>2. PICK r, new :
        /\ r \in SwapOutputs(s.asset, s.coll, Leveraged(s, c, n, leverage))
        /\ Push(Opened("Legacy", o, s, r, new, n))
        /\ ptokens' = Gain(Gain(ptokens, o, s.base, n), o, s.held, r)
  BY <1>1
<1> DEFINE p == Opened("Legacy", o, s, r, new, n)
           deposited == Gain(ptokens, o, s.base, n)
<1>3. s.base \in Vaults /\ s.held \in Vaults /\ r \in Nat /\ r \in Int /\ n \in Int
  BY <1>2, SidesType, SwapNat
<1>4. LockIn(p, u, v) = IF u # o THEN 0
                        ELSE (IF s.held = v THEN r ELSE 0) + (IF s.base = v THEN n ELSE 0)
  BY DEF LockIn, Opened
<1>5. /\ deposited \in Tokens
      /\ deposited[u][v] = IF u = o /\ v = s.base THEN ptokens[u][v] + n ELSE ptokens[u][v]
      /\ ptokens[u][v] \in Nat
  BY <1>3, AtMoved, TokensNow
<1> HIDE DEF deposited
<1>6. ptokens'[u][v] = IF u = o /\ v = s.held THEN deposited[u][v] + r ELSE deposited[u][v]
  BY <1>2, <1>3, <1>5, AtMoved, TokensNow DEF deposited
<1> HIDE DEF p
<1>7. ptokens'[u][v] - ptokens[u][v] >= LockIn(p, u, v)
  BY <1>3, <1>4, <1>5, <1>6
<1> QED BY <1>2, <1>7, LockPushed DEF p

LEMMA OpenPositionNoSwapLocks ==
    ASSUME TypeOK, TypeOK', Unopened, NEW o \in Users, NEW c \in Assets, NEW d \in Assets,
           NEW n \in Nat, NEW borrow, NEW leverage,
           OpenPositionNoSwap(o, c, d, n, borrow, leverage),
           NEW u \in Users, NEW v \in Vaults, LockHeld(u, v)
    PROVE  LockHeld(u, v)'
<1> DEFINE s == [base |-> market[c], lent |-> market[d], held |-> market[c], asset |-> d,
                 coll |-> c]
<1>1. PICK new : /\ Push(Opened("Legacy", o, s, n, new, 0))
                 /\ ptokens' = Gain(ptokens, o, s.base, n)
  BY DEF OpenPositionNoSwap, Gain
<1>2. s.base \in Vaults /\ s.held = s.base /\ n \in Int
  BY MarketVault
<1>3. LockIn(Opened("Legacy", o, s, n, new, 0), u, v)
        = IF u # o THEN 0 ELSE (IF s.held = v THEN n ELSE 0) + (IF s.base = v THEN 0 ELSE 0)
  BY DEF LockIn, Opened
<1> HIDE DEF s
<1>4. /\ ptokens'[u][v] = IF u = o /\ v = s.base THEN ptokens[u][v] + n ELSE ptokens[u][v]
      /\ ptokens[u][v] \in Nat
  BY <1>1, <1>2, AtMoved, TokensNow
<1>5. ptokens'[u][v] - ptokens[u][v] >= LockIn(Opened("Legacy", o, s, n, new, 0), u, v)
  BY <1>2, <1>3, <1>4
<1> QED BY <1>1, <1>5, LockPushed

\* A position that has ended locks nothing.
LEMMA EndedLocksNothing ==
    ASSUME NEW p \in Position, NEW status \in {"closed", "liquidated"}, NEW u, NEW v
    PROVE  LockIn(Ended(p, status), u, v) = 0
  BY DEF LockIn, Ended, Position

LEMMA ClosePositionLocks ==
    ASSUME TypeOK, TypeOK', NEW i \in Ids, ClosePosition(i),
           NEW u \in Users, NEW v \in Vaults, LockHeld(u, v)
    PROVE  LockHeld(u, v)'
<1> DEFINE p == position[i]
           o == p.owner
           sold == Lose(ptokens, o, p.held, p.ptokens)
<1>1. /\ IsOpen(i, "Legacy")
      /\ ptokens' = Lose(sold, o, p.base, p.lock)
      /\ position' = [position EXCEPT ![i] = Ended(p, "closed")]
  BY ClosePositionStep DEF Lose
<1>2. /\ p \in Position /\ o \in Users /\ o \in Holders /\ p.held \in Vaults /\ p.base \in Vaults
      /\ p.ptokens \in Nat /\ p.lock \in Nat
  BY PositionFields
<1>3. LockIn(Ended(p, "closed"), u, v) = 0
  BY <1>2, EndedLocksNothing
<1>4. LockIn(p, u, v) = IF u # o THEN 0
                        ELSE (IF p.held = v THEN p.ptokens ELSE 0)
                           + (IF p.base = v THEN p.lock ELSE 0)
  BY <1>1 DEF LockIn, IsOpen
<1> HIDE DEF p, o
<1>5. /\ sold \in Tokens
      /\ sold[u][v] = IF u = o /\ v = p.held THEN ptokens[u][v] - p.ptokens ELSE ptokens[u][v]
      /\ ptokens[u][v] \in Nat
  BY <1>2, AtMoved, TokensNow
<1> HIDE DEF sold
<1>6. ptokens'[u][v] = IF u = o /\ v = p.base THEN sold[u][v] - p.lock ELSE sold[u][v]
  BY <1>1, <1>2, <1>5, AtMoved, TokensNow
<1>7. ptokens'[u][v] - ptokens[u][v] >= LockIn(Ended(p, "closed"), u, v) - LockIn(p, u, v)
  BY <1>2, <1>3, <1>4, <1>5, <1>6
<1> QED BY <1>1, <1>7, LockStep DEF p

LEMMA LiquidatePositionLocks ==
    ASSUME TypeOK, TypeOK', NEW w, NEW i \in Ids, LiquidatePosition(w, i),
           NEW u \in Users, NEW v \in Vaults, LockHeld(u, v)
    PROVE  LockHeld(u, v)'
<1> DEFINE p == position[i]
           o == p.owner
<1>1. PICK burned \in 0..p.shares, seized \in 0..p.ptokens, repay \in Nat,
           g \in Accruals({p.lent}) : LiquidatedBy(w, i, burned, seized, repay, g)
  BY LiquidatePositionStep
<1> DEFINE q == [p EXCEPT !.shares = @ - burned, !.ptokens = @ - seized]
           e == IF q.shares = 0 THEN Ended(q, "liquidated") ELSE q
           taken == Lose(ptokens, o, p.held, seized)
<1>2. /\ IsOpen(i, "Legacy")
      /\ position' = [position EXCEPT ![i] = e]
      /\ ptokens' = Paid(taken, w, p.held, LessFee(seized))
  BY <1>1, LiquidatePositionStep DEF LiquidatedBy, Lose
<1>3. /\ p \in Position /\ o \in Users /\ o \in Holders /\ p.held \in Vaults
      /\ p.ptokens \in Nat /\ p.lock \in Nat /\ seized \in Nat /\ seized <= p.ptokens
      /\ u \in Holders
  BY PositionFields, TokensNow
<1>4. /\ q \in Position
      /\ q.status = p.status /\ q.mode = p.mode /\ q.owner = o
      /\ q.held = p.held /\ q.base = p.base /\ q.lock = p.lock /\ q.ptokens = p.ptokens - seized
  BY <1>1, <1>3, LessType DEF Position
<1>5. LockIn(p, u, v) = IF u # o THEN 0
                        ELSE (IF p.held = v THEN p.ptokens ELSE 0)
                           + (IF p.base = v THEN p.lock ELSE 0)
  BY <1>2 DEF LockIn, IsOpen
<1>6. LockIn(e, u, v) <= IF u # o THEN 0
                         ELSE (IF p.held = v THEN p.ptokens - seized ELSE 0)
                            + (IF p.base = v THEN p.lock ELSE 0)
  <2>1. LockIn(q, u, v) = IF u # o THEN 0
                          ELSE (IF p.held = v THEN p.ptokens - seized ELSE 0)
                             + (IF p.base = v THEN p.lock ELSE 0)
    BY <1>2, <1>4 DEF LockIn, IsOpen
  <2>2. LockIn(Ended(q, "liquidated"), u, v) = 0
    BY <1>4, EndedLocksNothing
  <2> HIDE DEF q, p, o
  <2> QED BY <1>3, <2>1, <2>2
<1>7. e \in Position
  BY <1>4, EndedType
<1>8. LockIn(e, u, v) \in Nat
  BY <1>7, LockInNat
<1> HIDE DEF p, o, q, e
<1>9. /\ taken \in Tokens
      /\ taken[u][v] = IF u = o /\ v = p.held THEN ptokens[u][v] - seized ELSE ptokens[u][v]
      /\ ptokens[u][v] \in Nat
  BY <1>3, AtMoved, TokensNow
<1> HIDE DEF taken
<1>10. ptokens'[u][v] >= taken[u][v] /\ ptokens'[u][v] \in Nat
  <2>1. ptokens'[u][v] >= taken[u][v]
    BY <1>2, <1>3, <1>9, PaidMore, LessFeeNat
  <2> QED BY <1>3, <2>1, TokensThen
<1>11. ptokens'[u][v] - ptokens[u][v] >= LockIn(e, u, v) - LockIn(p, u, v)
  BY <1>3, <1>5, <1>6, <1>8, <1>9, <1>10
<1> QED BY <1>2, <1>11, LockStep DEF p

LEMMA LegacyLocks ==
    ASSUME TypeOK, TypeOK', Unopened, Legacy, NEW u \in Users, NEW v \in Vaults, LockHeld(u, v)
    PROVE  LockHeld(u, v)'
  BY BoundsNat, OpenPositionLocks, OpenPositionNoSwapLocks, ClosePositionLocks,
     LiquidatePositionLocks DEF Legacy

\* pTokens of u that leave with the consent of the lock.
LEMMA LeftLocked ==
    ASSUME TypeOK, TypeOK', NEW o \in Users, NEW x \in Vaults, NEW n \in Nat,
           LeavesLocked(o, x, n), position' = position,
           NEW u \in Users, NEW v \in Vaults, LockHeld(u, v),
           ptokens'[u][v] >= IF u = o /\ v = x THEN ptokens[u][v] - n ELSE ptokens[u][v]
    PROVE  LockHeld(u, v)'
<1>1. Locked(u, v)' = Locked(u, v) /\ Locked(u, v) \in Nat
  <2>1. 1 \in Ids /\ position \in [Ids -> Position] /\ position[1] \in Position
    BY IdsFinite DEF TypeOK, Ids
  <2>2. LockOf(position, u, v) \in Nat
    BY <2>1, LockPut
  <2> QED BY <2>2, LockedIs
<1>2. ptokens[u][v] \in Nat /\ ptokens'[u][v] \in Nat
  BY TokensNow, TokensThen
<1>3. CASE u = o /\ v = x
  BY <1>1, <1>2, <1>3 DEF LeavesLocked, LockHeld
<1>4. CASE ~(u = o /\ v = x)
  BY <1>1, <1>2, <1>4 DEF LockHeld
<1> QED BY <1>3, <1>4

LEMMA TransferLocks ==
    ASSUME TypeOK, TypeOK', NEW o \in Users, NEW a \in Assets, NEW n \in Nat,
           TransferSpotToMargin(o, a, n) \/ TransferMarginToSpot(o, a, n),
           NEW u \in Users, NEW v \in Vaults, LockHeld(u, v)
    PROVE  LockHeld(u, v)'
<1> DEFINE x == market[a]
<1>1. /\ x \in Vaults /\ n \in Int /\ o \in Holders /\ u \in Holders /\ Custody \in Holders
      /\ u # Custody /\ o # Custody
      /\ ptokens \in Tokens /\ ptokens[u][v] \in Nat
  BY MarketVault, TokensNow
<1>2. \A from, to : Transferred(from, to, x, n) = Gain(Lose(ptokens, from, x, n), to, x, n)
  BY DEF Transferred, Gain, Lose
<1>3. CASE TransferSpotToMargin(o, a, n)
  <2>1. /\ LeavesLocked(o, x, n) /\ position' = position
        /\ ptokens' = Gain(Lose(ptokens, o, x, n), Custody, x, n)
    BY <1>2, <1>3 DEF TransferSpotToMargin
  <2> HIDE DEF x
  <2>2. /\ Lose(ptokens, o, x, n) \in Tokens
        /\ Lose(ptokens, o, x, n)[u][v]
            = IF u = o /\ v = x THEN ptokens[u][v] - n ELSE ptokens[u][v]
    BY <1>1, AtMoved
  <2>3. ptokens'[u][v] = Lose(ptokens, o, x, n)[u][v]
    BY <1>1, <2>1, <2>2, AtMoved
  <2> QED BY <1>1, <2>1, <2>2, <2>3, LeftLocked
<1>4. CASE TransferMarginToSpot(o, a, n)
  <2>1. position' = position /\ ptokens' = Gain(Lose(ptokens, Custody, x, n), o, x, n)
    BY <1>2, <1>4 DEF TransferMarginToSpot
  <2> HIDE DEF x
  <2>2. Lose(ptokens, Custody, x, n) \in Tokens
        /\ Lose(ptokens, Custody, x, n)[u][v] = ptokens[u][v]
    BY <1>1, AtMoved
  <2>3. ptokens'[u][v] = IF u = o /\ v = x THEN ptokens[u][v] + n ELSE ptokens[u][v]
    BY <1>1, <2>1, <2>2, AtMoved
  <2>4. ptokens'[u][v] >= ptokens[u][v]
    BY <1>1, <2>3
  <2> QED BY <2>1, <2>4, LockSame
<1> QED BY <1>3, <1>4

\* A MarginV2 position locks nothing of its owner's.
LEMMA CustodialLocksNothing ==
    ASSUME NEW p, p.mode = "MarginV2", NEW u, NEW v
    PROVE  LockIn(p, u, v) = 0
  BY DEF LockIn

LEMMA OpenPositionV2Locks ==
    ASSUME TypeOK, TypeOK', Unopened, NEW o, NEW c \in Assets, NEW b \in Assets,
           NEW n, NEW leverage, OpenPositionV2(o, c, b, n, leverage),
           NEW u \in Users, NEW v \in Vaults, LockHeld(u, v)
    PROVE  LockHeld(u, v)'
<1>1. PICK s \in Sides(c, b) : \E r \in SwapOutputs(s.asset, s.coll, Leveraged(s, c, n, leverage)) :
        /\ Push(Opened("MarginV2", o, s, r, 0, n))
        /\ ptokens' = Gain(ptokens, Custody, s.held, r)
  BY DEF OpenPositionV2, Gain
<1>2. PICK r \in SwapOutputs(s.asset, s.coll, Leveraged(s, c, n, leverage)) :
        /\ Push(Opened("MarginV2", o, s, r, 0, n))
        /\ ptokens' = Gain(ptokens, Custody, s.held, r)
  BY <1>1
<1>3. LockIn(Opened("MarginV2", o, s, r, 0, n), u, v) = 0
  BY CustodialLocksNothing DEF Opened
<1>4. s.held \in Vaults /\ r \in Int
  BY SidesType, SwapNat
<1>5. ptokens'[u][v] = ptokens[u][v] /\ ptokens[u][v] \in Nat
  BY <1>2, <1>4, AtMoved, TokensNow
<1>6. ptokens'[u][v] - ptokens[u][v] >= LockIn(Opened("MarginV2", o, s, r, 0, n), u, v)
  BY <1>3, <1>5
<1> QED BY <1>2, <1>6, LockPushed

LEMMA EndV2Locks ==
    ASSUME TypeOK, TypeOK', NEW i \in Ids, IsOpen(i, "MarginV2"),
           NEW status \in {"closed", "liquidated"},
           position' = [position EXCEPT ![i] = Ended(position[i], status)],
           NEW u \in Users, NEW v \in Vaults, LockHeld(u, v), ptokens'[u][v] >= ptokens[u][v]
    PROVE  LockHeld(u, v)'
<1>1. LockIn(Ended(position[i], status), u, v) = 0 /\ LockIn(position[i], u, v) = 0
  BY PositionFields, EndedLocksNothing, CustodialLocksNothing DEF IsOpen
<1>2. ptokens[u][v] \in Nat /\ ptokens'[u][v] \in Nat
  BY TokensNow, TokensThen
<1>3. ptokens'[u][v] - ptokens[u][v]
        >= LockIn(Ended(position[i], status), u, v) - LockIn(position[i], u, v)
  BY <1>1, <1>2
<1> QED BY <1>3, LockStep

LEMMA ClosePositionV2Locks ==
    ASSUME TypeOK, TypeOK', NEW i \in Ids, ClosePositionV2(i),
           NEW u \in Users, NEW v \in Vaults, LockHeld(u, v)
    PROVE  LockHeld(u, v)'
<1> DEFINE p == position[i]
           sold == Lose(ptokens, Custody, p.held, p.ptokens)
<1>1. PICK r \in SwapOutputs(p.coll, p.asset, p.ptokens) :
        ptokens' = Gain(sold, Custody, p.lent, r - marginDebt[i])
  BY DEF ClosePositionV2, Gain, Lose
<1>2. IsOpen(i, "MarginV2") /\ position' = [position EXCEPT ![i] = Ended(p, "closed")]
  BY DEF ClosePositionV2
<1>3. /\ p.held \in Vaults /\ p.lent \in Vaults /\ p.ptokens \in Int
      /\ r - marginDebt[i] \in Int
  BY PositionFields, SwapNat DEF TypeOK
<1>4. sold \in Tokens /\ sold[u][v] = ptokens[u][v] /\ ptokens[u][v] \in Nat
  <2> HIDE DEF p
  <2>1. /\ ptokens \in Tokens /\ Custody \in Holders /\ u \in Holders /\ u # Custody
        /\ ptokens[u][v] \in Nat
    BY TokensNow
  <2> QED BY <1>3, <2>1, Elsewhere
<1> HIDE DEF sold, p
<1>5. ptokens'[u][v] = sold[u][v]
  BY <1>1, <1>3, <1>4, AtMoved, TokensNow
<1>6. ptokens'[u][v] >= ptokens[u][v]
  BY <1>4, <1>5
<1> QED BY <1>2, <1>6, EndV2Locks DEF p

LEMMA LiquidatePositionV2Locks ==
    ASSUME TypeOK, TypeOK', NEW w, NEW i \in Ids, LiquidatePositionV2(w, i),
           NEW u \in Users, NEW v \in Vaults, LockHeld(u, v)
    PROVE  LockHeld(u, v)'
<1> DEFINE p == position[i]
           seized == SeizedV2(p, marginDebt[i])
           out == Lose(ptokens, Custody, p.held, seized)
           bare == Lose(out, Custody, p.base, p.lock)
           once == Paid(bare, w, p.held, seized)
<1>1. ptokens' = Paid(once, w, p.base, p.lock)
  BY DEF LiquidatePositionV2, Lose
<1>2. IsOpen(i, "MarginV2") /\ position' = [position EXCEPT ![i] = Ended(p, "liquidated")]
  BY DEF LiquidatePositionV2
<1>3. /\ p.held \in Vaults /\ p.base \in Vaults /\ p.lock \in Nat /\ p.lock \in Int
      /\ seized \in Nat /\ seized \in Int /\ u \in Holders
  BY PositionFields, SeizedV2Nat, TokensNow
<1>4. out \in Tokens /\ out[u][v] = ptokens[u][v] /\ ptokens[u][v] \in Nat
  BY <1>3, AtMoved, TokensNow
<1> HIDE DEF out, seized, p
<1>5. bare \in Tokens /\ bare[u][v] = out[u][v]
  <2>1. /\ Custody \in Holders /\ u # Custody /\ u \in Holders /\ out \in Tokens
        /\ p.base \in Vaults /\ p.lock \in Int
    BY <1>3, <1>4, TokensNow
  <2>2. bare \in Tokens
    BY <2>1, Elsewhere
  <2>3. bare[u][v] = out[u][v]
    BY <2>1, Elsewhere
  <2> QED BY <2>2, <2>3
<1> HIDE DEF bare
<1>6. once \in Tokens /\ once[u][v] >= bare[u][v] /\ once[u][v] \in Int
  <2>1. once \in Tokens /\ once[u][v] >= bare[u][v]
    BY <1>3, <1>5, PaidMore
  <2> QED BY <1>3, <2>1 DEF Tokens
<1> HIDE DEF once
<1>7. ptokens'[u][v] >= once[u][v] /\ ptokens'[u][v] \in Nat
  BY <1>1, <1>3, <1>6, PaidMore, TokensThen
<1>8. ptokens'[u][v] >= ptokens[u][v]
  BY <1>4, <1>5, <1>6, <1>7
<1> QED BY <1>2, <1>8, EndV2Locks DEF p

LEMMA CustodialLocks ==
    ASSUME TypeOK, TypeOK', Unopened, Custodial,
           NEW u \in Users, NEW v \in Vaults, LockHeld(u, v)
    PROVE  LockHeld(u, v)'
  BY BoundsNat, TransferLocks, OpenPositionV2Locks, ClosePositionV2Locks,
     LiquidatePositionV2Locks DEF Custodial

\* Every withdrawal of pTokens consumes the bypass that it asked for: between calls
\* there is none.
NoBypass == \A h \in Holders, v \in Vaults : ~bypass[h][v]

LEMMA InitBypass == Init => NoBypass
  BY DEF Init, NoBypass

LEMMA WithdrawnKeeps ==
    ASSUME TypeOK, NoBypass, NEW h \in Holders, NEW v \in Vaults
    PROVE  Consumed(bypass, h, v) = bypass /\ Withdrawn(bypass, h, v) = bypass
  BY BypassConsumed DEF TypeOK, NoBypass

LEMMA StepKeepsBypass == ASSUME TypeOK, NoBypass, [Next]_vars PROVE bypass' = bypass
<1>1. /\ \A u \in Users : u \in Holders
      /\ Custody \in Holders
  BY TokensNow
<1>2. ASSUME NEW i \in Ids, ClosePosition(i) PROVE bypass' = bypass
  <2> DEFINE p == position[i]
  <2>1. p.owner \in Holders /\ p.held \in Vaults /\ p.base \in Vaults
    BY <1>1, PositionFields
  <2>2. bypass' = IF p.lock > 0 THEN Withdrawn(Withdrawn(bypass, p.owner, p.held), p.owner, p.base)
                  ELSE Withdrawn(bypass, p.owner, p.held)
    BY <1>2 DEF ClosePosition
  <2> HIDE DEF p
  <2> QED BY <2>1, <2>2, WithdrawnKeeps
<1>3. ASSUME NEW i \in Ids, ClosePositionV2(i) PROVE bypass' = bypass
  <2>1. bypass' = Withdrawn(bypass, Custody, position[i].held)
    BY <1>3 DEF ClosePositionV2
  <2> QED BY <1>1, <2>1, PositionFields, WithdrawnKeeps
<1>4. ASSUME NEW u \in Users, NEW v \in Vaults, NEW n, Withdraw(u, v, n) PROVE bypass' = bypass
  BY <1>1, <1>4, WithdrawnKeeps DEF Withdraw
<1>5. ASSUME NEW u \in Users, NEW a \in Assets, NEW n, WithdrawCollateral(u, a, n)
      PROVE  bypass' = bypass
  BY <1>1, <1>5, MarketVault, WithdrawnKeeps DEF WithdrawCollateral
<1>6. CASE Legacy
  <2>1. ASSUME NEW u, NEW c, NEW b, NEW n, NEW borrow, NEW leverage,
               \/ OpenPosition(u, c, b, n, leverage)
               \/ OpenPositionNoSwap(u, c, b, n, borrow, leverage)
        PROVE  bypass' = bypass
    BY <2>1 DEF OpenPosition, OpenPositionNoSwap
  <2>2. ASSUME NEW w, NEW i, LiquidatePosition(w, i) PROVE bypass' = bypass
    BY <2>2 DEF LiquidatePosition
  <2> QED BY <1>2, <1>6, <2>1, <2>2 DEF Legacy
<1>7. CASE Custodial
  BY <1>3, <1>7 DEF Custodial, TransferSpotToMargin, TransferMarginToSpot, OpenPositionV2,
     LiquidatePositionV2
<1>8. CASE Spot
  <2>1. ASSUME NEW u, NEW w, NEW v, NEW n,
               \/ DepositCollateral(u, v, n) \/ Borrow(u, v, n) \/ Repay(u, v, n)
               \/ Transfer(u, w, v, n)
        PROVE  bypass' = bypass
    BY <2>1 DEF DepositCollateral, Borrow, Repay, Transfer
  <2>2. ASSUME NEW w, NEW u, NEW lent, NEW held, NEW n, LiquidateAccount(w, u, lent, held, n)
        PROVE  bypass' = bypass
    BY <2>2 DEF LiquidateAccount
  <2> QED BY <1>4, <1>5, <1>8, <2>1, <2>2 DEF Spot
<1>9. CASE World \/ UNCHANGED vars
  BY <1>9 DEF World, SetMarket, MovePrice, FallDue, Accrue, vars, vault
<1> QED BY <1>6, <1>7, <1>8, <1>9 DEF Next

LocksInv == SharesInv /\ NoBypass

LEMMA StepLocksInv == ASSUME LocksInv, [Next]_vars PROVE LocksInv'
<1>1. TypeOK /\ SharesInv /\ NoBypass
  BY DEF LocksInv, SharesInv
<1>2. bypass' = bypass
  BY <1>1, StepKeepsBypass
<1>3. NoBypass'
  BY <1>1, <1>2 DEF NoBypass
<1>4. SharesInv'
  BY <1>1, StepMatch
<1> QED BY <1>3, <1>4 DEF LocksInv

LEMMA SpotLocks ==
    ASSUME TypeOK, TypeOK', NoBypass, Spot, NEW u \in Users, NEW v \in Vaults, LockHeld(u, v)
    PROVE  \/ LockHeld(u, v)'
           \/ \E w \in Users \cup {Keeper}, lent \in Vaults, n \in Amounts :
                LiquidateAccount(w, u, lent, v, n)
<1>1. /\ position' = position /\ u \in Holders
      /\ ptokens \in Tokens /\ ptokens[u][v] \in Nat /\ ptokens'[u][v] \in Nat
  BY SpotKeepsBooks, TokensNow, TokensThen
<1>2. ASSUME NEW o \in Users, NEW x \in Vaults, NEW n \in Amounts,
             \/ DepositCollateral(o, x, n) \/ Withdraw(o, x, n)
             \/ Borrow(o, x, n) \/ Repay(o, x, n)
      PROVE  LockHeld(u, v)'
  <2>1. n \in Nat /\ n \in Int /\ o \in Holders
    BY BoundsNat, TokensNow
  <2>2. CASE DepositCollateral(o, x, n)
    <3>1. ptokens' = Gain(ptokens, o, x, n)
      BY <2>2 DEF DepositCollateral, Gain
    <3>2. ptokens'[u][v] = IF u = o /\ v = x THEN ptokens[u][v] + n ELSE ptokens[u][v]
      BY <1>1, <2>1, <3>1, AtMoved
    <3>3. ptokens'[u][v] >= ptokens[u][v]
      BY <1>1, <2>1, <3>2
    <3> QED BY <1>1, <3>3, LockSame
  <2>3. CASE Withdraw(o, x, n)
    <3>1. ptokens' = Lose(ptokens, o, x, n) /\ LeavesLocked(o, x, n)
      BY <2>1, <2>3 DEF Withdraw, Lose, NoBypass
    <3>2. ptokens'[u][v] = IF u = o /\ v = x THEN ptokens[u][v] - n ELSE ptokens[u][v]
      BY <1>1, <2>1, <3>1, AtMoved
    <3> QED BY <1>1, <2>1, <3>1, <3>2, LeftLocked
  <2>4. CASE Borrow(o, x, n) \/ Repay(o, x, n)
    <3>1. ptokens' = ptokens
      BY <2>4 DEF Borrow, Repay
    <3>2. ptokens'[u][v] >= ptokens[u][v]
      BY <1>1, <3>1
    <3> QED BY <1>1, <3>2, LockSame
  <2> QED BY <1>2, <2>2, <2>3, <2>4
<1>3. ASSUME NEW w, NEW o \in Users, NEW lent \in Vaults, NEW held \in Vaults, NEW n \in Amounts,
             LiquidateAccount(w, o, lent, held, n), ~(u = o /\ v = held)
      PROVE  LockHeld(u, v)'
  <2> DEFINE seized == Seizure(o, lent, held, n, ptokens[o][held]).seized
             taken == Lose(ptokens, o, held, seized)
  <2>1. ptokens' = Paid(taken, w, held, LessFee(seized))
    BY <1>3 DEF LiquidateAccount, Lose
  <2>2. n \in Nat /\ o \in Holders /\ ptokens[o][held] \in Nat
    BY BoundsNat, TokensNow
  <2>3. seized \in Nat /\ seized \in Int
    <3>1. Seizure(o, lent, held, n, ptokens[o][held]).seized \in Nat
      BY <1>1, <2>2, SeizurePart
    <3> QED BY <3>1
  <2> HIDE DEF seized
  <2>4. taken \in Tokens /\ taken[u][v] = ptokens[u][v]
    BY <1>1, <1>3, <2>2, <2>3, AtMoved
  <2> HIDE DEF taken
  <2>5. ptokens'[u][v] >= ptokens[u][v]
    BY <1>1, <2>1, <2>3, <2>4, PaidMore, LessFeeNat
  <2> QED BY <1>1, <2>5, LockSame
<1>4. ASSUME NEW o \in Users, NEW a \in Assets, NEW n \in Amounts, WithdrawCollateral(o, a, n)
      PROVE  LockHeld(u, v)'
  <2> DEFINE x == market[a]
  <2>1. n \in Nat /\ n \in Int /\ o \in Holders /\ x \in Vaults
    BY BoundsNat, TokensNow, MarketVault
  <2>2. ptokens' = Lose(ptokens, o, x, n) /\ LeavesLocked(o, x, n)
    BY <1>4 DEF WithdrawCollateral, Lose
  <2> HIDE DEF x
  <2>3. ptokens'[u][v] = IF u = o /\ v = x THEN ptokens[u][v] - n ELSE ptokens[u][v]
    BY <1>1, <2>1, <2>2, AtMoved
  <2> QED BY <1>1, <2>1, <2>2, <2>3, LeftLocked
<1>5. ASSUME NEW o \in Users, NEW w, NEW x \in Vaults, NEW n \in Amounts, Transfer(o, w, x, n)
      PROVE  LockHeld(u, v)'
  <2> DEFINE taken == Lose(ptokens, o, x, n)
  <2>1. n \in Nat /\ n \in Int /\ o \in Holders
    BY BoundsNat, TokensNow
  <2>2. ptokens' = Paid(taken, w, x, n) /\ LeavesLocked(o, x, n)
    BY <1>5 DEF Transfer, Lose
  <2>3. /\ taken \in Tokens
        /\ taken[u][v] = IF u = o /\ v = x THEN ptokens[u][v] - n ELSE ptokens[u][v]
    BY <1>1, <2>1, AtMoved
  <2> HIDE DEF taken
  <2>4. ptokens'[u][v] >= taken[u][v]
    BY <1>1, <2>1, <2>2, <2>3, PaidMore
  <2> QED BY <1>1, <2>1, <2>2, <2>3, <2>4, LeftLocked
<1>6. CASE \E o \in Users, x \in Vaults, n \in Amounts :
            \/ DepositCollateral(o, x, n) \/ Withdraw(o, x, n)
            \/ Borrow(o, x, n) \/ Repay(o, x, n)
  BY <1>2, <1>6
<1>7. CASE \E w \in Users \cup {Keeper}, o \in Users, lent, held \in Vaults, n \in Amounts :
            LiquidateAccount(w, o, lent, held, n)
  <2>1. PICK w \in Users \cup {Keeper}, o \in Users, lent \in Vaults, held \in Vaults,
             n \in Amounts : LiquidateAccount(w, o, lent, held, n)
    BY <1>7
  <2> QED BY <1>3, <2>1
<1>8. CASE \E o \in Users, a \in Assets, n \in Amounts : WithdrawCollateral(o, a, n)
  BY <1>4, <1>8
<1>9. CASE \E o \in Users, w \in Users \cup {Keeper}, x \in Vaults, n \in Amounts :
            Transfer(o, w, x, n)
  BY <1>5, <1>9
<1> QED BY <1>6, <1>7, <1>8, <1>9 DEF Spot

LEMMA WorldLocks ==
    ASSUME TypeOK, TypeOK', World \/ UNCHANGED vars,
           NEW u \in Users, NEW v \in Vaults, LockHeld(u, v)
    PROVE  LockHeld(u, v)'
<1>1. position' = position /\ ptokens' = ptokens
  BY DEF World, SetMarket, MovePrice, FallDue, Accrue, vars, books, vault
<1>2. ptokens'[u][v] >= ptokens[u][v]
  BY <1>1, TokensNow
<1> QED BY <1>1, <1>2, LockSame

LEMMA StepLocks ==
    ASSUME LocksInv, [Next]_vars, NEW u \in Users, NEW v \in Vaults, LockHeld(u, v)
    PROVE  \/ LockHeld(u, v)'
           \/ \E w \in Users \cup {Keeper}, lent \in Vaults, n \in Amounts :
                LiquidateAccount(w, u, lent, v, n)
<1>1. TypeOK /\ TypeOK' /\ Unopened /\ NoBypass
  BY StepType DEF LocksInv, SharesInv
<1>2. CASE Legacy
  BY <1>1, <1>2, LegacyLocks
<1>3. CASE Custodial
  BY <1>1, <1>3, CustodialLocks
<1>4. CASE Spot
  BY <1>1, <1>4, SpotLocks
<1>5. CASE World \/ UNCHANGED vars
  BY <1>1, <1>5, WorldLocks
<1> QED BY <1>2, <1>3, <1>4, <1>5 DEF Next

\* What a user's open Legacy positions lock stays covered by her pTokens through every
\* call, her own and others', except where a liquidation of her whole account takes
\* pTokens of that vault, for any number of positions that share them: no call leaves a
\* bypass of the lock behind for a later one.
THEOREM LocksStay == Spec => LocksKept
<1>1. LocksInv /\ [Next]_vars =>
        [\A u \in Users, v \in Vaults :
            LockHeld(u, v) =>
                \/ LockHeld(u, v)'
                \/ \E w \in Users \cup {Keeper}, lent \in Vaults, n \in Amounts :
                    LiquidateAccount(w, u, lent, v, n)]_vars
  BY StepLocks
<1>2. LocksInv /\ [Next]_vars => LocksInv'
  BY StepLocksInv
<1>3. Init => LocksInv
  BY InitMatch, InitBypass DEF LocksInv
<1> QED BY <1>1, <1>2, <1>3, PTL DEF Spec, LocksKept

-----------------------------------------------------------------------------
(* Custody *)

\* What the position p claims of the pTokens in custody in vault v.
ClaimIn(p, v) ==
    IF ~(p.status = "open" /\ p.mode = "MarginV2") THEN 0
    ELSE (IF p.held = v THEN p.ptokens ELSE 0) + (IF p.base = v THEN p.lock ELSE 0)

ClaimSum(pos, v) == SumFunction([i \in Ids |-> ClaimIn(pos[i], v)])
BalanceSum(bal, v) == SumFunction([u \in Users |-> bal[u][v]])

LEMMA ClaimsAre ==
    ASSUME NEW v
    PROVE  /\ Claims(v) = BalanceSum(balance, v) + ClaimSum(position, v)
           /\ Claims(v)' = BalanceSum(balance', v) + ClaimSum(position', v)
  BY DEF Claims, BalanceSum, ClaimSum, ClaimOf, ClaimIn, IsOpen

LEMMA ClaimInNat ==
    ASSUME NEW p \in Position, NEW v
    PROVE  ClaimIn(p, v) \in Nat
  BY DEF ClaimIn, Position

LEMMA ClaimPut ==
    ASSUME NEW pos \in [Ids -> Position], NEW k \in Ids, NEW p \in Position, NEW v
    PROVE  /\ ClaimSum([pos EXCEPT ![k] = p], v)
                = ClaimSum(pos, v) + (ClaimIn(p, v) - ClaimIn(pos[k], v))
           /\ ClaimSum(pos, v) \in Nat
           /\ ClaimIn(p, v) \in Nat /\ ClaimIn(pos[k], v) \in Nat
<1> DEFINE f == [i \in Ids |-> ClaimIn(pos[i], v)]
           n == ClaimIn(p, v)
<1>1. n \in Nat /\ f \in [Ids -> Nat] /\ f[k] = ClaimIn(pos[k], v)
  BY ClaimInNat
<1>2. [i \in Ids |-> ClaimIn([pos EXCEPT ![k] = p][i], v)] = [f EXCEPT ![k] = n]
  OBVIOUS
<1>3. ClaimSum(pos, v) = SumFunction(f)
      /\ ClaimSum([pos EXCEPT ![k] = p], v) = SumFunction([f EXCEPT ![k] = n])
  BY <1>2 DEF ClaimSum
<1>4. f[k] \in Nat
  BY <1>1
<1> HIDE DEF f, n
<1>5. SumFunction([f EXCEPT ![k] = n]) = SumFunction(f) + (n - f[k]) /\ SumFunction(f) \in Nat
  BY <1>1, SumPut
<1> QED BY <1>1, <1>3, <1>4, <1>5 DEF n

LEMMA BalancePut ==
    ASSUME NEW bal \in [Users -> [Vaults -> Nat]], NEW new \in [Users -> [Vaults -> Nat]],
           NEW u \in Users, \A x \in Users \ {u} : new[x] = bal[x], NEW v \in Vaults
    PROVE  /\ BalanceSum(new, v) = BalanceSum(bal, v) + (new[u][v] - bal[u][v])
           /\ BalanceSum(bal, v) \in Nat
<1> DEFINE f == [x \in Users |-> bal[x][v]]
           g == [x \in Users |-> new[x][v]]
<1>1. /\ \A x \in Users : f[x] \in Nat /\ f[x] \in Int /\ g[x] \in Int
      /\ \A x \in Users \ {u} : g[x] = f[x]
      /\ f[u] = bal[u][v] /\ g[u] = new[u][v]
  OBVIOUS
<1>2. BalanceSum(bal, v) = SumFunctionOnSet(f, Users)
      /\ BalanceSum(new, v) = SumFunctionOnSet(g, Users)
  BY DEF BalanceSum, SumFunction
<1> HIDE DEF f, g
<1>3. SumFunctionOnSet(g, Users) = SumFunctionOnSet(f, Users) + (g[u] - f[u])
  <2>1. IsFiniteSet(Users)
    BY MarginAssumption
  <2>2. \A x \in Users : f[x] \in Int /\ g[x] \in Int
    BY <1>1
  <2>3. \A x \in Users \ {u} : g[x] = f[x]
    BY <1>1
  <2> QED BY <2>1, <2>2, <2>3, SumChange
<1>4. SumFunctionOnSet(f, Users) \in Nat
  BY <1>1, MarginAssumption, SumNat
<1> QED BY <1>1, <1>2, <1>3, <1>4

\* What custody holds beyond what is claimed.
Spare(v) == ptokens[Custody][v] - Claims(v)

\* One balance and one position change.
LEMMA SpareStep ==
    ASSUME TypeOK, TypeOK', NEW u \in Users, \A x \in Users \ {u} : balance'[x] = balance[x],
           NEW k \in Ids, NEW p, position' = [position EXCEPT ![k] = p], NEW v \in Vaults
    PROVE  /\ Spare(v)' = Spare(v) + ((ptokens'[Custody][v] - ptokens[Custody][v])
                - ((balance'[u][v] - balance[u][v]) + (ClaimIn(p, v) - ClaimIn(position[k], v))))
           /\ Spare(v) \in Int
           /\ ptokens[Custody][v] \in Nat /\ ptokens'[Custody][v] \in Nat
           /\ balance[u][v] \in Nat /\ balance'[u][v] \in Nat
           /\ ClaimIn(p, v) \in Nat /\ ClaimIn(position[k], v) \in Nat
<1>1. /\ position \in [Ids -> Position] /\ p \in Position
      /\ balance \in [Users -> [Vaults -> Nat]] /\ balance' \in [Users -> [Vaults -> Nat]]
  BY DEF TypeOK
<1>2. /\ ClaimSum(position', v)
            = ClaimSum(position, v) + (ClaimIn(p, v) - ClaimIn(position[k], v))
      /\ ClaimSum(position, v) \in Nat
      /\ ClaimIn(p, v) \in Nat /\ ClaimIn(position[k], v) \in Nat
  <2>1. /\ ClaimSum([position EXCEPT ![k] = p], v)
            = ClaimSum(position, v) + (ClaimIn(p, v) - ClaimIn(position[k], v))
        /\ ClaimSum(position, v) \in Nat
        /\ ClaimIn(p, v) \in Nat /\ ClaimIn(position[k], v) \in Nat
    BY <1>1, ClaimPut
  <2>2. ClaimSum(position', v) = ClaimSum([position EXCEPT ![k] = p], v)
    OBVIOUS
  <2> QED BY <2>1, <2>2
<1>3. /\ BalanceSum(balance', v) = BalanceSum(balance, v) + (balance'[u][v] - balance[u][v])
      /\ BalanceSum(balance, v) \in Nat
  BY <1>1, BalancePut
<1>4. balance[u][v] \in Nat /\ balance'[u][v] \in Nat
  BY <1>1
<1>5. ptokens[Custody][v] \in Nat /\ ptokens'[Custody][v] \in Nat
  BY TokensNow, TokensThen
<1>6. /\ Spare(v) = ptokens[Custody][v] - (BalanceSum(balance, v) + ClaimSum(position, v))
      /\ Spare(v)' = ptokens'[Custody][v] - (BalanceSum(balance', v) + ClaimSum(position', v))
  BY ClaimsAre DEF Spare
<1> QED BY <1>2, <1>3, <1>4, <1>5, <1>6

\* The positions stay as they are.
LEMMA SpareKept ==
    ASSUME TypeOK, TypeOK', NEW u \in Users, \A x \in Users \ {u} : balance'[x] = balance[x],
           position' = position, NEW v \in Vaults,
           ptokens'[Custody][v] - ptokens[Custody][v] = balance'[u][v] - balance[u][v]
    PROVE  Spare(v)' = Spare(v)
<1>1. ClaimSum(position', v) = ClaimSum(position, v) /\ ClaimSum(position, v) \in Nat
  <2>1. 1 \in Ids /\ position \in [Ids -> Position] /\ position[1] \in Position
    BY IdsFinite DEF TypeOK, Ids
  <2>2. ClaimSum(position, v) \in Nat
    BY <2>1, ClaimPut
  <2> QED BY <2>2
<1>2. /\ BalanceSum(balance', v) = BalanceSum(balance, v) + (balance'[u][v] - balance[u][v])
      /\ BalanceSum(balance, v) \in Nat
      /\ balance[u][v] \in Nat /\ balance'[u][v] \in Nat
  <2>1. balance \in [Users -> [Vaults -> Nat]] /\ balance' \in [Users -> [Vaults -> Nat]]
    BY DEF TypeOK
  <2> QED BY <2>1, BalancePut
<1>3. ptokens[Custody][v] \in Nat /\ ptokens'[Custody][v] \in Nat
  BY TokensNow, TokensThen
<1>4. /\ Spare(v) = ptokens[Custody][v] - (BalanceSum(balance, v) + ClaimSum(position, v))
      /\ Spare(v)' = ptokens'[Custody][v] - (BalanceSum(balance', v) + ClaimSum(position', v))
  BY ClaimsAre DEF Spare
<1> QED BY <1>1, <1>2, <1>3, <1>4

\* Nothing in custody is touched.
LEMMA SpareUntouched ==
    ASSUME TypeOK, TypeOK', UNCHANGED <<position, balance>>, NEW v \in Vaults,
           ptokens'[Custody][v] = ptokens[Custody][v]
    PROVE  Spare(v)' = Spare(v)
<1>1. PICK u \in Users : TRUE
  BY MarginAssumption
<1>2. balance[u][v] \in Nat /\ balance'[u][v] = balance[u][v] /\ ptokens[Custody][v] \in Nat
  BY TokensNow DEF TypeOK
<1>3. ptokens'[Custody][v] - ptokens[Custody][v] = balance'[u][v] - balance[u][v]
  BY <1>2
<1> QED BY <1>3, SpareKept

\* A Legacy position that changes, or takes the place of one that is not open.
LEMMA SpareLegacy ==
    ASSUME TypeOK, TypeOK', NEW k \in Ids, NEW p, position' = [position EXCEPT ![k] = p],
           balance' = balance, NEW v \in Vaults, ptokens'[Custody][v] = ptokens[Custody][v],
           ClaimIn(p, v) = 0, ClaimIn(position[k], v) = 0
    PROVE  Spare(v)' = Spare(v)
<1>1. PICK u \in Users : TRUE
  BY MarginAssumption
<1>2. /\ Spare(v)' = Spare(v) + ((ptokens'[Custody][v] - ptokens[Custody][v])
                - ((balance'[u][v] - balance[u][v]) + (ClaimIn(p, v) - ClaimIn(position[k], v))))
      /\ Spare(v) \in Int /\ ptokens[Custody][v] \in Nat /\ balance[u][v] \in Nat
      /\ balance'[u][v] = balance[u][v]
  BY SpareStep
<1> QED BY <1>2

LEMMA LegacyClaimsNothing ==
    ASSUME NEW p, p.mode = "Legacy" \/ p.status # "open", NEW v
    PROVE  ClaimIn(p, v) = 0
  BY DEF ClaimIn

LEMMA EndedClaimsNothing ==
    ASSUME NEW p \in Position, NEW status \in {"closed", "liquidated"}, NEW v
    PROVE  ClaimIn(Ended(p, status), v) = 0
  BY DEF ClaimIn, Ended, Position

\* The pTokens in custody that calls on users' accounts leave alone.
LEMMA CustodyUntouched ==
    ASSUME NEW tok \in Tokens, NEW h \in Users, NEW v \in Vaults, NEW n \in Int, NEW y \in Vaults
    PROVE  /\ Gain(tok, h, v, n)[Custody][y] = tok[Custody][y] /\ Gain(tok, h, v, n) \in Tokens
           /\ Lose(tok, h, v, n)[Custody][y] = tok[Custody][y] /\ Lose(tok, h, v, n) \in Tokens
<1>1. Custody \in Holders /\ h \in Holders /\ Custody # h
  BY MarginAssumption DEF Holders
<1> QED BY <1>1, Elsewhere

LEMMA CustodyNotPaid ==
    ASSUME NEW tok \in Tokens, NEW w, NEW v \in Vaults, NEW n \in Int, NEW y \in Vaults
    PROVE  Paid(tok, w, v, n)[Custody][y] = tok[Custody][y] /\ Paid(tok, w, v, n) \in Tokens
<1>1. Custody \in Holders /\ Custody \notin Users
  BY MarginAssumption DEF Holders
<1> QED BY <1>1, AtPaid

LEMMA PushedLegacySpare ==
    ASSUME TypeOK, TypeOK', Unopened, NEW p, p.mode = "Legacy", Push(p), balance' = balance,
           NEW v \in Vaults, ptokens'[Custody][v] = ptokens[Custody][v]
    PROVE  Spare(v)' = Spare(v)
<1>1. /\ counter + 1 \in Ids /\ position' = [position EXCEPT ![counter + 1] = p]
      /\ position[counter + 1].status # "open"
  BY PushId, PushUnopened
<1>2. ClaimIn(p, v) = 0 /\ ClaimIn(position[counter + 1], v) = 0
  BY <1>1, LegacyClaimsNothing
<1> QED BY <1>1, <1>2, SpareLegacy

LEMMA OpenPositionSpare ==
    ASSUME TypeOK, TypeOK', Unopened, NEW o \in Users, NEW c \in Assets, NEW b \in Assets,
           NEW n \in Nat, NEW leverage, OpenPosition(o, c, b, n, leverage), NEW v \in Vaults
    PROVE  Spare(v)' = Spare(v)
<1>1. PICK s \in Sides(c, b) : \E r, new :
        /\ r \in SwapOutputs(s.asset, s.coll, Leveraged(s, c, n, leverage))
        /\ Push(Opened("Legacy", o, s, r, new, n))
        /\ ptokens' = Gain(Gain(ptokens, o, s.base, n), o, s.held, r)
  BY DEF OpenPosition, Gain
<1>2. PICK r, new :
        /\ r \in SwapOutputs(s.asset, s.coll, Leveraged(s, c, n, leverage))
        /\ Push(Opened("Legacy", o, s, r, new, n))
        /\ ptokens' = Gain(Gain(ptokens, o, s.base, n), o, s.held, r)
  BY <1>1
<1>3. s.base \in Vaults /\ s.held \in Vaults /\ r \in Int /\ n \in Int
  BY <1>2, SidesType, SwapNat
<1>4. /\ Gain(ptokens, o, s.base, n)[Custody][v] = ptokens[Custody][v]
      /\ Gain(ptokens, o, s.base, n) \in Tokens
  BY <1>3, TokensNow, CustodyUntouched
<1>5. ptokens'[Custody][v] = ptokens[Custody][v]
  BY <1>2, <1>3, <1>4, CustodyUntouched
<1>6. balance' = balance /\ Opened("Legacy", o, s, r, new, n).mode = "Legacy"
  BY DEF OpenPosition, Opened
<1> QED BY <1>2, <1>5, <1>6, PushedLegacySpare

LEMMA OpenPositionNoSwapSpare ==
    ASSUME TypeOK, TypeOK', Unopened, NEW o \in Users, NEW c \in Assets, NEW d \in Assets,
           NEW n \in Nat, NEW borrow, NEW leverage,
           OpenPositionNoSwap(o, c, d, n, borrow, leverage), NEW v \in Vaults
    PROVE  Spare(v)' = Spare(v)
<1> DEFINE s == [base |-> market[c], lent |-> market[d], held |-> market[c], asset |-> d,
                 coll |-> c]
<1>1. PICK new : /\ Push(Opened("Legacy", o, s, n, new, 0))
                 /\ ptokens' = Gain(ptokens, o, s.base, n)
  BY DEF OpenPositionNoSwap, Gain
<1>2. s.base \in Vaults /\ n \in Int
  BY MarketVault
<1>3. balance' = balance /\ Opened("Legacy", o, s, n, new, 0).mode = "Legacy"
  BY DEF OpenPositionNoSwap, Opened
<1> HIDE DEF s
<1>4. ptokens'[Custody][v] = ptokens[Custody][v]
  BY <1>1, <1>2, TokensNow, CustodyUntouched
<1> QED BY <1>1, <1>3, <1>4, PushedLegacySpare

LEMMA ClosePositionSpare ==
    ASSUME TypeOK, TypeOK', NEW i \in Ids, ClosePosition(i), NEW v \in Vaults
    PROVE  Spare(v)' = Spare(v)
<1> DEFINE p == position[i]
           o == p.owner
           sold == Lose(ptokens, o, p.held, p.ptokens)
<1>1. /\ IsOpen(i, "Legacy") /\ balance' = balance
      /\ ptokens' = Lose(sold, o, p.base, p.lock)
      /\ position' = [position EXCEPT ![i] = Ended(p, "closed")]
  BY ClosePositionStep DEF Lose
<1>2. /\ p \in Position /\ o \in Users /\ p.held \in Vaults /\ p.base \in Vaults
      /\ p.ptokens \in Int /\ p.lock \in Int
  BY PositionFields
<1>3. ClaimIn(Ended(p, "closed"), v) = 0 /\ ClaimIn(p, v) = 0
  BY <1>1, <1>2, EndedClaimsNothing, LegacyClaimsNothing DEF IsOpen
<1> HIDE DEF p, o
<1>4. sold \in Tokens /\ sold[Custody][v] = ptokens[Custody][v]
  BY <1>2, TokensNow, CustodyUntouched
<1> HIDE DEF sold
<1>5. ptokens'[Custody][v] = ptokens[Custody][v]
  BY <1>1, <1>2, <1>4, CustodyUntouched
<1> QED BY <1>1, <1>3, <1>5, SpareLegacy DEF p

LEMMA LiquidatePositionSpare ==
    ASSUME TypeOK, TypeOK', NEW w, NEW i \in Ids, LiquidatePosition(w, i), NEW v \in Vaults
    PROVE  Spare(v)' = Spare(v)
<1> DEFINE p == position[i]
           o == p.owner
<1>1. PICK burned \in 0..p.shares, seized \in 0..p.ptokens, repay \in Nat,
           g \in Accruals({p.lent}) : LiquidatedBy(w, i, burned, seized, repay, g)
  BY LiquidatePositionStep
<1> DEFINE q == [p EXCEPT !.shares = @ - burned, !.ptokens = @ - seized]
           e == IF q.shares = 0 THEN Ended(q, "liquidated") ELSE q
           taken == Lose(ptokens, o, p.held, seized)
<1>2. /\ IsOpen(i, "Legacy") /\ balance' = balance
      /\ position' = [position EXCEPT ![i] = e]
      /\ ptokens' = Paid(taken, w, p.held, LessFee(seized))
  BY <1>1, LiquidatePositionStep DEF LiquidatedBy, Lose
<1>3. /\ p \in Position /\ o \in Users /\ p.held \in Vaults /\ p.ptokens \in Nat
      /\ seized \in Int /\ LessFee(seized) \in Int
  <2>1. p \in Position /\ o \in Users /\ p.held \in Vaults /\ p.ptokens \in Nat
    BY PositionFields
  <2>2. seized \in Nat
    BY <2>1
  <2> QED BY <2>1, <2>2, LessFeeNat
<1>4. q \in Position /\ q.mode = p.mode
  BY <1>1, <1>3, LessType DEF Position
<1>5. ClaimIn(e, v) = 0 /\ ClaimIn(p, v) = 0
  <2>1. ClaimIn(q, v) = 0 /\ ClaimIn(p, v) = 0
    BY <1>2, <1>4, LegacyClaimsNothing DEF IsOpen
  <2>2. ClaimIn(Ended(q, "liquidated"), v) = 0
    BY <1>4, EndedClaimsNothing
  <2> HIDE DEF q, p, o
  <2> QED BY <2>1, <2>2
<1> HIDE DEF p, o, q, e
<1>6. taken \in Tokens /\ taken[Custody][v] = ptokens[Custody][v]
  BY <1>3, TokensNow, CustodyUntouched
<1> HIDE DEF taken
<1>7. ptokens'[Custody][v] = ptokens[Custody][v]
  BY <1>2, <1>3, <1>6, CustodyNotPaid
<1> QED BY <1>2, <1>5, <1>7, SpareLegacy DEF p

LEMMA LegacySpare ==
    ASSUME TypeOK, TypeOK', Unopened, Legacy, NEW v \in Vaults
    PROVE  Spare(v)' = Spare(v)
  BY BoundsNat, OpenPositionSpare, OpenPositionNoSwapSpare, ClosePositionSpare,
     LiquidatePositionSpare DEF Legacy

LEMMA SpotSpare ==
    ASSUME TypeOK, TypeOK', Spot, NEW v \in Vaults
    PROVE  Spare(v)' = Spare(v)
<1>1. /\ ptokens \in Tokens /\ \A n \in Amounts : n \in Nat /\ n \in Int
      /\ \A x \in Users, y \in Vaults : ptokens[x][y] \in Nat
  BY TokensNow, BoundsNat
<1>2. position' = position
  BY SpotKeepsBooks
<1>3. balance' = balance /\ ptokens'[Custody][v] = ptokens[Custody][v]
  <2>1. ASSUME NEW o \in Users, NEW x \in Vaults, NEW n \in Amounts,
               \/ DepositCollateral(o, x, n) \/ Withdraw(o, x, n)
               \/ Borrow(o, x, n) \/ Repay(o, x, n)
        PROVE  balance' = balance /\ ptokens'[Custody][v] = ptokens[Custody][v]
    <3>1. balance' = balance
      BY <2>1 DEF DepositCollateral, Withdraw, TakesOut, Borrow, Repay, books
    <3>2. ptokens' \in {Gain(ptokens, o, x, n), Lose(ptokens, o, x, n), ptokens}
      BY <2>1 DEF DepositCollateral, Withdraw, Borrow, Repay, Gain, Lose
    <3> QED BY <1>1, <3>1, <3>2, CustodyUntouched
  <2>2. ASSUME NEW w, NEW o \in Users, NEW lent \in Vaults, NEW held \in Vaults,
               NEW n \in Amounts, LiquidateAccount(w, o, lent, held, n)
        PROVE  balance' = balance /\ ptokens'[Custody][v] = ptokens[Custody][v]
    <3> DEFINE seized == Seizure(o, lent, held, n, ptokens[o][held]).seized
               taken == Lose(ptokens, o, held, seized)
    <3>1. ptokens' = Paid(taken, w, held, LessFee(seized)) /\ balance' = balance
      BY <2>2 DEF LiquidateAccount, Lose, books
    <3>2. seized \in Int /\ LessFee(seized) \in Int
      <4>1. Seizure(o, lent, held, n, ptokens[o][held]).seized \in Nat
        BY <1>1, SeizurePart
      <4> QED BY <4>1, LessFeeNat
    <3> HIDE DEF seized
    <3>3. taken \in Tokens /\ taken[Custody][v] = ptokens[Custody][v]
      BY <1>1, <3>2, CustodyUntouched
    <3> HIDE DEF taken
    <3> QED BY <3>1, <3>2, <3>3, CustodyNotPaid
  <2>3. ASSUME NEW o \in Users, NEW a \in Assets, NEW n \in Amounts, WithdrawCollateral(o, a, n)
        PROVE  balance' = balance /\ ptokens'[Custody][v] = ptokens[Custody][v]
    <3>1. ptokens' = Lose(ptokens, o, market[a], n) /\ balance' = balance
      BY <2>3 DEF WithdrawCollateral, TakesOut, Lose, books
    <3> QED BY <1>1, <3>1, MarketVault, CustodyUntouched
  <2>4. ASSUME NEW o \in Users, NEW w, NEW x \in Vaults, NEW n \in Amounts,
               Transfer(o, w, x, n)
        PROVE  balance' = balance /\ ptokens'[Custody][v] = ptokens[Custody][v]
    <3> DEFINE taken == Lose(ptokens, o, x, n)
    <3>1. ptokens' = Paid(taken, w, x, n) /\ balance' = balance
      BY <2>4 DEF Transfer, TakesOut, Lose, books
    <3>2. taken \in Tokens /\ taken[Custody][v] = ptokens[Custody][v]
      BY <1>1, CustodyUntouched
    <3> HIDE DEF taken
    <3> QED BY <1>1, <3>1, <3>2, CustodyNotPaid
  <2> QED BY <2>1, <2>2, <2>3, <2>4 DEF Spot
<1> QED BY <1>2, <1>3, SpareUntouched

LEMMA WorldSpare ==
    ASSUME TypeOK, TypeOK', World \/ UNCHANGED vars, NEW v \in Vaults
    PROVE  Spare(v)' = Spare(v)
<1>1. position' = position /\ balance' = balance /\ ptokens' = ptokens
  BY DEF World, SetMarket, MovePrice, FallDue, Accrue, vars, books, vault
<1> QED BY <1>1, SpareUntouched

LEMMA TransferSpare ==
    ASSUME TypeOK, TypeOK', NEW o \in Users, NEW a \in Assets, NEW n \in Nat,
           TransferSpotToMargin(o, a, n) \/ TransferMarginToSpot(o, a, n), NEW v \in Vaults
    PROVE  Spare(v)' = Spare(v)
<1> DEFINE x == market[a]
<1>1. /\ x \in Vaults /\ n \in Int /\ o \in Holders /\ Custody \in Holders /\ o # Custody
      /\ ptokens \in Tokens /\ ptokens[Custody][v] \in Nat
      /\ balance \in [Users -> [Vaults -> Nat]] /\ balance[o][v] \in Nat
  BY MarketVault, TokensNow, BalanceNat
<1>2. \A from, to : Transferred(from, to, x, n) = Gain(Lose(ptokens, from, x, n), to, x, n)
  BY DEF Transferred, Gain, Lose
<1>3. CASE TransferSpotToMargin(o, a, n)
  <2>1. /\ position' = position /\ balance' = [balance EXCEPT ![o][x] = @ + n]
        /\ ptokens' = Gain(Lose(ptokens, o, x, n), Custody, x, n)
    BY <1>2, <1>3 DEF TransferSpotToMargin
  <2> HIDE DEF x
  <2>2. /\ Lose(ptokens, o, x, n) \in Tokens
        /\ Lose(ptokens, o, x, n)[Custody][v] = ptokens[Custody][v]
    BY <1>1, CustodyUntouched
  <2>3. ptokens'[Custody][v] = IF v = x THEN ptokens[Custody][v] + n ELSE ptokens[Custody][v]
    BY <1>1, <2>1, <2>2, AtMoved
  <2>4. /\ balance'[o][v] = IF v = x THEN balance[o][v] + n ELSE balance[o][v]
        /\ \A y \in Users \ {o} : balance'[y] = balance[y]
    BY <1>1, <2>1
  <2>5. ptokens'[Custody][v] - ptokens[Custody][v] = balance'[o][v] - balance[o][v]
    BY <1>1, <2>3, <2>4
  <2> QED BY <2>1, <2>4, <2>5, SpareKept
<1>4. CASE TransferMarginToSpot(o, a, n)
  <2>1. /\ position' = position /\ balance' = [balance EXCEPT ![o][x] = @ - n]
        /\ ptokens' = Gain(Lose(ptokens, Custody, x, n), o, x, n)
    BY <1>2, <1>4 DEF TransferMarginToSpot
  <2> HIDE DEF x
  <2>2. /\ Lose(ptokens, Custody, x, n) \in Tokens
        /\ Lose(ptokens, Custody, x, n)[Custody][v]
            = IF v = x THEN ptokens[Custody][v] - n ELSE ptokens[Custody][v]
    BY <1>1, AtMoved
  <2>3. ptokens'[Custody][v] = IF v = x THEN ptokens[Custody][v] - n ELSE ptokens[Custody][v]
    BY <1>1, <2>1, <2>2, CustodyUntouched
  <2>4. /\ balance'[o][v] = IF v = x THEN balance[o][v] - n ELSE balance[o][v]
        /\ \A y \in Users \ {o} : balance'[y] = balance[y]
    BY <1>1, <2>1
  <2>5. ptokens'[Custody][v] - ptokens[Custody][v] = balance'[o][v] - balance[o][v]
    BY <1>1, <2>3, <2>4
  <2> QED BY <2>1, <2>4, <2>5, SpareKept
<1> QED BY <1>3, <1>4

\* The collateral of a new MarginV2 position was a balance, what it bought is new.
LEMMA OpenPositionV2Spare ==
    ASSUME TypeOK, TypeOK', Unopened, NEW o \in Users, NEW c \in Assets, NEW b \in Assets,
           NEW n \in Nat, NEW leverage, OpenPositionV2(o, c, b, n, leverage), NEW v \in Vaults
    PROVE  Spare(v)' = Spare(v)
<1>1. PICK s \in Sides(c, b) : \E r \in SwapOutputs(s.asset, s.coll, Leveraged(s, c, n, leverage)) :
        /\ Push(Opened("MarginV2", o, s, r, 0, n))
        /\ balance' = [balance EXCEPT ![o][s.base] = @ - n]
        /\ ptokens' = Gain(ptokens, Custody, s.held, r)
  BY DEF OpenPositionV2, Gain
<1>2. PICK r \in SwapOutputs(s.asset, s.coll, Leveraged(s, c, n, leverage)) :
        /\ Push(Opened("MarginV2", o, s, r, 0, n))
        /\ balance' = [balance EXCEPT ![o][s.base] = @ - n]
        /\ ptokens' = Gain(ptokens, Custody, s.held, r)
  BY <1>1
<1> DEFINE p == Opened("MarginV2", o, s, r, 0, n)
           k == counter + 1
<1>3. s.base \in Vaults /\ s.held \in Vaults /\ r \in Nat /\ r \in Int
  BY SidesType, SwapNat
<1>4. k \in Ids /\ position' = [position EXCEPT ![k] = p] /\ position[k].status # "open"
  BY <1>2, PushId, PushUnopened
<1>5. ClaimIn(position[k], v) = 0
  BY <1>4, LegacyClaimsNothing
<1>6. ClaimIn(p, v) = (IF s.held = v THEN r ELSE 0) + (IF s.base = v THEN n ELSE 0)
  BY DEF ClaimIn, Opened
<1> HIDE DEF p, k
<1>7. /\ balance'[o][v] = IF v = s.base THEN balance[o][v] - n ELSE balance[o][v]
      /\ \A x \in Users \ {o} : balance'[x] = balance[x]
  BY <1>2, <1>3, BalanceNat
<1>8. ptokens'[Custody][v]
        = IF v = s.held THEN ptokens[Custody][v] + r ELSE ptokens[Custody][v]
  BY <1>2, <1>3, TokensNow, AtMoved
<1>9. /\ Spare(v)' = Spare(v) + ((ptokens'[Custody][v] - ptokens[Custody][v])
                - ((balance'[o][v] - balance[o][v]) + (ClaimIn(p, v) - ClaimIn(position[k], v))))
      /\ Spare(v) \in Int /\ ptokens[Custody][v] \in Nat /\ balance[o][v] \in Nat
  BY <1>4, <1>7, SpareStep
<1>10. ptokens'[Custody][v] - ptokens[Custody][v] = IF s.held = v THEN r ELSE 0
  BY <1>3, <1>8, <1>9
<1>11. balance'[o][v] - balance[o][v] = IF s.base = v THEN 0 - n ELSE 0
  BY <1>7, <1>9
<1>12. ClaimIn(p, v) - ClaimIn(position[k], v)
         = (IF s.held = v THEN r ELSE 0) + (IF s.base = v THEN n ELSE 0)
  BY <1>3, <1>5, <1>6
<1>13. Spare(v) \in Int /\ r \in Int
  BY <1>3, <1>9
<1>14. Spare(v)' = Spare(v) + ((IF s.held = v THEN r ELSE 0)
                - ((IF s.base = v THEN 0 - n ELSE 0)
                    + ((IF s.held = v THEN r ELSE 0) + (IF s.base = v THEN n ELSE 0))))
  BY <1>9, <1>10, <1>11, <1>12
<1> QED BY <1>13, <1>14

\* What an open MarginV2 position claims.
LEMMA OpenClaims ==
    ASSUME NEW i, IsOpen(i, "MarginV2"), NEW v
    PROVE  ClaimIn(position[i], v)
            = (IF position[i].held = v THEN position[i].ptokens ELSE 0)
                + (IF position[i].base = v THEN position[i].lock ELSE 0)
  BY DEF ClaimIn, IsOpen

\* The lock and the surplus of the sale return to the balance, the rest is sold.
LEMMA ClosePositionV2Spare ==
    ASSUME TypeOK, TypeOK', NEW i \in Ids, ClosePositionV2(i), NEW v \in Vaults
    PROVE  Spare(v)' = Spare(v)
<1> DEFINE p == position[i]
           u == p.owner
           sold == Lose(ptokens, Custody, p.held, p.ptokens)
           unlocked == [balance EXCEPT ![u][p.base] = @ + p.lock]
<1>1. PICK r \in SwapOutputs(p.coll, p.asset, p.ptokens) :
        /\ ptokens' = Gain(sold, Custody, p.lent, r - marginDebt[i])
        /\ balance' = [unlocked EXCEPT ![u][p.lent] = @ + (r - marginDebt[i])]
  BY DEF ClosePositionV2, Gain, Lose
<1> DEFINE gain == r - marginDebt[i]
<1>2. IsOpen(i, "MarginV2") /\ position' = [position EXCEPT ![i] = Ended(p, "closed")]
  BY DEF ClosePositionV2
<1>3. /\ p \in Position /\ p.held \in Vaults /\ p.lent \in Vaults /\ p.base \in Vaults
      /\ p.ptokens \in Int /\ p.ptokens \in Nat /\ p.lock \in Nat /\ gain \in Int /\ u \in Users
  BY PositionFields, SwapNat DEF TypeOK
<1>4. ClaimIn(Ended(p, "closed"), v) = 0
  BY <1>3, EndedClaimsNothing
<1>5. ClaimIn(p, v) = (IF p.held = v THEN p.ptokens ELSE 0) + (IF p.base = v THEN p.lock ELSE 0)
  BY <1>2, OpenClaims
<1> HIDE DEF gain, p, u
<1>6. /\ sold \in Tokens
      /\ sold[Custody][v]
            = IF v = p.held THEN ptokens[Custody][v] - p.ptokens ELSE ptokens[Custody][v]
  BY <1>3, TokensNow, AtMoved
<1>7. /\ \A x \in Users \ {u} : unlocked[x] = balance[x]
      /\ unlocked \in [Users -> [Vaults -> Nat]]
      /\ unlocked[u][v] = IF v = p.base THEN balance[u][v] + p.lock ELSE balance[u][v]
  BY <1>3, BalanceNat
<1> HIDE DEF sold, unlocked
<1>8. ptokens'[Custody][v]
        = IF v = p.lent THEN sold[Custody][v] + gain ELSE sold[Custody][v]
  <2>1. ptokens' = Gain(sold, Custody, p.lent, gain)
    BY <1>1 DEF gain
  <2> QED BY <1>3, <1>6, <2>1, TokensNow, AtMoved
<1>9. /\ \A x \in Users \ {u} : balance'[x] = balance[x]
      /\ balance'[u][v] = IF v = p.lent THEN unlocked[u][v] + gain ELSE unlocked[u][v]
  BY <1>1, <1>3, <1>7 DEF gain
<1>10. /\ Spare(v)' = Spare(v) + ((ptokens'[Custody][v] - ptokens[Custody][v])
            - ((balance'[u][v] - balance[u][v]) + (ClaimIn(Ended(p, "closed"), v) - ClaimIn(p, v))))
       /\ Spare(v) \in Int /\ ptokens[Custody][v] \in Nat /\ balance[u][v] \in Nat
  BY <1>2, <1>3, <1>9, SpareStep DEF p
<1> DEFINE bought == IF v = p.lent THEN gain ELSE 0
           held == IF v = p.held THEN p.ptokens ELSE 0
           base == IF v = p.base THEN p.lock ELSE 0
<1>11. bought \in Int /\ held \in Int /\ base \in Int
  BY <1>3
<1>12. ptokens'[Custody][v] = ptokens[Custody][v] - held + bought
  BY <1>3, <1>6, <1>8, <1>10
<1>13. balance'[u][v] = balance[u][v] + base + bought
  BY <1>3, <1>7, <1>9, <1>10
<1>14. ClaimIn(p, v) = held + base
  BY <1>3, <1>5
<1> HIDE DEF bought, held, base
<1> QED BY <1>4, <1>10, <1>11, <1>12, <1>13, <1>14

\* A liquidation takes the lock whole, and what it does not seize of the rest is spare.
LEMMA LiquidatePositionV2Spare ==
    ASSUME TypeOK, TypeOK', NEW w, NEW i \in Ids, LiquidatePositionV2(w, i), NEW v \in Vaults
    PROVE  \/ Spare(v)' = Spare(v)
           \/ Spare(v)' > Spare(v) /\ IsOpen(i, "MarginV2") /\ position[i].held = v
              /\ position'[i].status = "liquidated"
<1> DEFINE p == position[i]
           seized == SeizedV2(p, marginDebt[i])
           out == Lose(ptokens, Custody, p.held, seized)
           bare == Lose(out, Custody, p.base, p.lock)
           once == Paid(bare, w, p.held, seized)
<1>1. ptokens' = Paid(once, w, p.base, p.lock) /\ balance' = balance
  BY DEF LiquidatePositionV2, Lose
<1>2. IsOpen(i, "MarginV2") /\ position' = [position EXCEPT ![i] = Ended(p, "liquidated")]
  BY DEF LiquidatePositionV2
<1>3. /\ p \in Position /\ p.held \in Vaults /\ p.base \in Vaults /\ p.owner \in Users
      /\ p.ptokens \in Nat /\ p.lock \in Nat /\ p.lock \in Int
      /\ seized \in Nat /\ seized \in Int
  BY PositionFields, SeizedV2Nat
<1>4. seized <= p.ptokens
  BY <1>3 DEF SeizedV2, Least
<1>5. ClaimIn(Ended(p, "liquidated"), v) = 0 /\ Ended(p, "liquidated").status = "liquidated"
  BY <1>3, EndedClaimsNothing DEF Ended, Position
<1>6. ClaimIn(p, v) = (IF p.held = v THEN p.ptokens ELSE 0) + (IF p.base = v THEN p.lock ELSE 0)
  BY <1>2, OpenClaims
<1>7. position'[i].status = "liquidated"
  BY <1>2, <1>5 DEF TypeOK
<1> HIDE DEF p, seized
<1>8. /\ out \in Tokens
      /\ out[Custody][v]
            = IF v = p.held THEN ptokens[Custody][v] - seized ELSE ptokens[Custody][v]
  BY <1>3, TokensNow, AtMoved
<1> HIDE DEF out
<1>9. /\ bare \in Tokens
      /\ bare[Custody][v] = IF v = p.base THEN out[Custody][v] - p.lock ELSE out[Custody][v]
  BY <1>3, <1>8, TokensNow, AtMoved
<1> HIDE DEF bare
<1>10. once \in Tokens /\ once[Custody][v] = bare[Custody][v]
  BY <1>3, <1>9, CustodyNotPaid
<1> HIDE DEF once
<1>11. ptokens'[Custody][v] = once[Custody][v]
  BY <1>1, <1>3, <1>10, CustodyNotPaid
<1>12. /\ Spare(v)' = Spare(v) + ((ptokens'[Custody][v] - ptokens[Custody][v])
            - ((balance'[p.owner][v] - balance[p.owner][v])
                + (ClaimIn(Ended(p, "liquidated"), v) - ClaimIn(p, v))))
       /\ Spare(v) \in Int /\ ptokens[Custody][v] \in Nat /\ balance[p.owner][v] \in Nat
  <2>1. \A x \in Users \ {p.owner} : balance'[x] = balance[x]
    BY <1>1
  <2> QED BY <1>2, <1>3, <2>1, SpareStep DEF p
<1>13. Spare(v)' = Spare(v) + (IF v = p.held THEN p.ptokens - seized ELSE 0)
  BY <1>1, <1>3, <1>5, <1>6, <1>8, <1>9, <1>10, <1>11, <1>12
<1> QED BY <1>2, <1>3, <1>4, <1>7, <1>12, <1>13 DEF p

LEMMA StepStrands ==
    ASSUME SharesInv, [Next]_vars, NEW v \in Vaults
    PROVE  \/ Spare(v)' = Spare(v)
           \/ /\ Spare(v)' > Spare(v)
              /\ \E i \in Ids : /\ IsOpen(i, "MarginV2") /\ position[i].held = v
                                /\ position'[i].status = "liquidated"
<1>1. TypeOK /\ TypeOK' /\ Unopened
  BY StepType DEF SharesInv
<1>2. CASE Legacy
  BY <1>1, <1>2, LegacySpare
<1>3. CASE Custodial
  <2>1. CASE \E u \in Users, a \in Assets, n \in Amounts :
                TransferSpotToMargin(u, a, n) \/ TransferMarginToSpot(u, a, n)
    BY <1>1, <2>1, BoundsNat, TransferSpare
  <2>2. CASE \E u \in Users, c, b \in Assets, n \in Amounts, leverage \in 2..MaxLeverage :
                OpenPositionV2(u, c, b, n, leverage)
    BY <1>1, <2>2, BoundsNat, OpenPositionV2Spare
  <2>3. CASE \E i \in Ids : ClosePositionV2(i)
    BY <1>1, <2>3, ClosePositionV2Spare
  <2>4. CASE \E w \in Users \cup {Keeper}, i \in Ids : LiquidatePositionV2(w, i)
    <3>1. PICK w \in Users \cup {Keeper}, i \in Ids : LiquidatePositionV2(w, i)
      BY <2>4
    <3> QED BY <1>1, <3>1, LiquidatePositionV2Spare
  <2> QED BY <1>3, <2>1, <2>2, <2>3, <2>4 DEF Custodial
<1>4. CASE Spot
  BY <1>1, <1>4, SpotSpare
<1>5. CASE World \/ UNCHANGED vars
  BY <1>1, <1>5, WorldSpare
<1> QED BY <1>2, <1>3, <1>4, <1>5 DEF Next

\* What custody holds beyond what balances and open MarginV2 positions claim never
\* changes, whatever is opened, closed, sold or moved, except that the liquidation of a
\* position strands what it does not seize: for any number of users and positions.
THEOREM CustodyExact == Spec => OnlyLiquidationStrands
<1>1. SharesInv /\ [Next]_vars =>
        [\A v \in Vaults :
            \/ ptokens'[Custody][v] - Claims(v)' = ptokens[Custody][v] - Claims(v)
            \/ /\ ptokens'[Custody][v] - Claims(v)' > ptokens[Custody][v] - Claims(v)
               /\ \E i \in Ids : /\ IsOpen(i, "MarginV2") /\ position[i].held = v
                                 /\ position'[i].status = "liquidated"]_vars
  BY StepStrands DEF Spare
<1>2. SharesInv /\ [Next]_vars => SharesInv'
  BY StepMatch
<1> QED BY <1>1, <1>2, InitMatch, PTL DEF Spec, OnlyLiquidationStrands

=============================================================================
