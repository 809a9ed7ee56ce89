------------------------ MODULE ReceiptVaultProofs ------------------------
(***************************************************************************)
(* Proofs about one lending market: its types, the backing of its cash,    *)
(* where a deficit of its reserves and fees can come from, the empty pool, *)
(* the growth of the exchange rate, the supply of pTokens, that no call    *)
(* pushes a covered account into a shortfall, and that the rounded debts   *)
(* stay below the total; then about the interest rate model and what the   *)
(* market gets from it: when the model may refuse what the market asks,    *)
(* and which parameters keep its answer within what the market accepts.    *)
(***************************************************************************)
EXTENDS ReceiptVault, Arithmetic

-----------------------------------------------------------------------------
(* Integer division *)

\* Two shares of one sum, each rounded down, take no more than the sum.
LEMMA SharesFit ==
    ASSUME NEW i \in Nat, NEW f \in Nat, NEW g \in Nat, NEW s \in Nat \ {0}, f + g <= s
    PROVE  (i * f) \div s + (i * g) \div s <= i
<1> DEFINE p == (i * f) \div s
           q == (i * g) \div s
<1>1. p \in Nat /\ q \in Nat /\ p * s <= i * f /\ q * s <= i * g
  BY DivNat, ProductNat
<1>2. i * f + i * g <= i * s
  OBVIOUS
<1>3. (p + q) * s = p * s + q * s
  BY <1>1
<1> HIDE DEF p, q
<1>4. (p + q) * s <= i * s
  BY <1>1, <1>2, <1>3, ProductNat
<1>5. p + q <= i
  BY <1>1, <1>4, CancelFactor
<1> QED BY <1>5 DEF p, q

-----------------------------------------------------------------------------
(* Types of the operators *)

\* The market after an accrual is a market, and only its debts, its index, its claims
\* and its clock have moved, the first four never down.
LEMMA AccruedType ==
    ASSUME TypeOK, NEW rate \in BorrowRates
    PROVE  /\ Accrued(rate) \in Markets
           /\ Interest(rate) \in Nat
           /\ Accrued(rate).cash = market.cash
           /\ Accrued(rate).live = market.live
           /\ Accrued(rate).supply = market.supply
           /\ Accrued(rate).borrowed = market.borrowed + Interest(rate)
           /\ Accrued(rate).reserves
                = market.reserves + Share(Interest(rate), config.reserveFactor)
           /\ Accrued(rate).fees = market.fees + Share(Interest(rate), config.adminFee)
           /\ Accrued(rate).index >= market.index
<1> USE ScaleAssumption, ParameterAssumption
<1>1. rate \in Nat /\ market \in Markets /\ config \in Configs
  BY DEF TypeOK
<1>2. Interest(rate) \in Nat
  BY <1>1, DivNat, ProductNat DEF Interest, Markets
<1>3. \A f \in 0..Scale : Share(Interest(rate), f) \in Nat
  BY <1>2, DivNat, ProductNat DEF Share
<1>4. IndexGrowth(Interest(rate)) \in Nat
  BY <1>1, <1>2, DivNat, ProductNat DEF IndexGrowth, Markets
<1>5. config.reserveFactor \in 0..Scale /\ config.adminFee \in 0..Scale
  BY <1>1 DEF Configs
<1> DEFINE i == Interest(rate)
           c == IF market.borrowed = 0 \/ rate = 0 \/ i > 0 THEN 0 ELSE market.pending
           d == IndexGrowth(i)
           r == Share(i, config.reserveFactor)
           f == Share(i, config.adminFee)
<1>6. Accrued(rate) = [market EXCEPT !.borrowed = @ + i, !.index = @ + d, !.reserves = @ + r,
                                     !.fees = @ + f, !.pending = c]
  BY <1>1 DEF Accrued, Markets
<1>7. i \in Nat /\ d \in Nat /\ r \in Nat /\ f \in Nat
  BY <1>2, <1>3, <1>4, <1>5
<1>8. c \in Nat
  BY <1>1 DEF Markets
<1> HIDE DEF i, c, d, r, f
<1>9. Accrued(rate) \in Markets
  <2>1. /\ market.borrowed + i \in Nat /\ market.index + d \in Nat \ {0}
        /\ market.reserves + r \in Nat /\ market.fees + f \in Nat
    BY <1>1, <1>7 DEF Markets
  <2> QED BY <1>1, <1>6, <1>8, <2>1, Zenon DEF Markets
<1>10. /\ Accrued(rate).cash = market.cash
       /\ Accrued(rate).live = market.live
       /\ Accrued(rate).supply = market.supply
       /\ Accrued(rate).borrowed = market.borrowed + i
       /\ Accrued(rate).reserves = market.reserves + r
       /\ Accrued(rate).fees = market.fees + f
       /\ Accrued(rate).index = market.index + d
  BY <1>1, <1>6 DEF Markets
<1> QED BY <1>1, <1>7, <1>9, <1>10 DEF i, r, f, Markets

LEMMA MinusNat ==
    ASSUME NEW a \in Nat, NEW b \in Nat
    PROVE  /\ Minus(a, b) \in Nat
           /\ Minus(a, b) <= a
           /\ a <= Minus(a, b) + b
           /\ a >= b => Minus(a, b) = a - b
           /\ a <= b => Minus(a, b) = 0
  BY DEF Minus

LEMMA TotalUnderlyingNat ==
    ASSUME NEW m \in Markets
    PROVE  TotalUnderlying(m) \in Nat /\ AvailableLiquidity(m) \in Nat
<1>1. m.cash + m.borrowed \in Nat /\ m.reserves \in Nat /\ m.fees \in Nat /\ m.borrowed \in Nat
  BY DEF Markets
<1>2. TotalUnderlying(m) \in Nat
  BY <1>1, MinusNat DEF TotalUnderlying
<1> QED BY <1>1, <1>2, MinusNat DEF AvailableLiquidity

LEMMA ExchangeRateNat ==
    ASSUME NEW m \in Markets
    PROVE  ExchangeRate(m) \in Nat
  BY ScaleAssumption, TotalUnderlyingNat, ProductNat, DivNat DEF ExchangeRate, Markets

LEMMA UnderlyingNat ==
    ASSUME NEW m \in Markets, NEW n \in Nat
    PROVE  Underlying(n, m) \in Nat
  BY ScaleAssumption, ExchangeRateNat, ProductNat, DivNat DEF Underlying

LEMMA MintedNat ==
    ASSUME NEW m \in Markets, NEW n \in Nat, ExchangeRate(m) > 0
    PROVE  Minted(n, m) \in Nat
  BY ScaleAssumption, ExchangeRateNat, ProductNat, DivNat DEF Minted

LEMMA DebtNat ==
    ASSUME TypeOK, NEW u \in Users, NEW m \in Markets
    PROVE  Debt(u, m) \in Nat
<1>1. snapshot[u].principal \in Nat
  BY DEF TypeOK, Snapshots, NoSnapshot
<1>2. CASE snapshot[u].principal = 0
  BY <1>2 DEF Debt
<1>3. CASE snapshot[u].principal # 0
  <2>1. snapshot[u].index \in Nat \ {0}
    BY <1>3 DEF TypeOK, Snapshots, NoSnapshot
  <2> QED BY <1>1, <1>3, <2>1, ProductNat, DivNat DEF Debt, Markets
<1> QED BY <1>2, <1>3

LEMMA PaymentNat ==
    ASSUME TypeOK, NEW u \in Users, NEW amount \in Nat, NEW m \in Markets
    PROVE  Payment(u, amount, m) \in Nat /\ Payment(u, amount, m) <= Debt(u, m)
<1>1. market \in Markets
  BY DEF TypeOK
<1> QED BY <1>1, DebtNat DEF Payment, Least

LEMMA TokensInType ==
    ASSUME NEW m \in Markets, NEW n \in Nat
    PROVE  TokensIn(m, n) \in Markets
<1>1. m.live + n \in Nat /\ m.cash + n \in Nat
  BY DEF Markets
<1> QED BY <1>1, Zenon DEF TokensIn, Markets

LEMMA TokensOutType ==
    ASSUME NEW m \in Markets, NEW n \in Nat, n <= m.live
    PROVE  TokensOut(m, n) \in Markets
  BY MinusNat DEF TokensOut, Markets

\* What follows from the types of two functions that an action updates.
LEMMA WriteSnapshotType ==
    ASSUME TypeOK, NEW u \in Users, NEW principal \in Nat, NEW m \in Markets,
           WriteSnapshot(u, principal, m)
    PROVE  /\ snapshot' \in [Users -> Snapshots \cup {NoSnapshot}]
           /\ hasBorrowed' \in [Users -> {"unset", "no", "yes"}]
<1>1. m.index \in Nat \ {0}
  BY DEF Markets
<1>2. [principal |-> principal, index |-> m.index] \in Snapshots
  BY <1>1 DEF Snapshots
<1> QED BY <1>2 DEF WriteSnapshot, TypeOK

LEMMA EnsureFlagsType ==
    ASSUME TypeOK, NEW us \in SUBSET Users, EnsureFlags(us)
    PROVE  hasBorrowed' \in [Users -> {"unset", "no", "yes"}]
<1>1. \A u \in Users : FlagAfter(u) \in {"unset", "no", "yes"}
  BY DEF FlagAfter, TypeOK
<1> QED BY <1>1 DEF EnsureFlags, TypeOK

\* A balance that moves between accounts stays a natural number.
LEMMA MoveType ==
    ASSUME ptokens \in [Users -> Nat], NEW a \in Users, NEW b \in Users, NEW n \in Nat,
           n <= ptokens[a]
    PROVE  Move(a, b, n) \in [Users -> Nat]
<1> DEFINE taken == [ptokens EXCEPT ![a] = @ - n]
<1>1. taken \in [Users -> Nat]
  OBVIOUS
<1> HIDE DEF taken
<1>2. [taken EXCEPT ![b] = @ + n] \in [Users -> Nat]
  BY <1>1
<1> QED BY <1>2 DEF taken, Move

LEMMA SeizedType ==
    ASSUME ptokens \in [Users -> Nat], NEW a \in Users, NEW b \in Users, NEW c \in Users,
           NEW n \in Nat, NEW fee \in Nat, fee <= n, n <= ptokens[a]
    PROVE  Seized(a, b, c, n, fee) \in [Users -> Nat]
<1> DEFINE charged == [ptokens EXCEPT ![a] = @ - n]
           paid == [charged EXCEPT ![c] = @ + fee]
<1>1. charged \in [Users -> Nat]
  OBVIOUS
<1>2. paid \in [Users -> Nat]
  <2> HIDE DEF charged
  <2> QED BY <1>1
<1>3. n - fee \in Nat
  OBVIOUS
<1> HIDE DEF charged, paid
<1>4. [paid EXCEPT ![b] = @ + (n - fee)] \in [Users -> Nat]
  BY <1>2, <1>3
<1> QED BY <1>4 DEF charged, paid, Seized

-----------------------------------------------------------------------------
(* Every step keeps the types *)

LEMMA DepositType ==
    ASSUME TypeOK, NEW u \in Users, NEW amount \in Amounts, Deposit(u, amount)
    PROVE  TypeOK'
<1>1. PICK rate \in BorrowRates :
        /\ ExchangeRate(Accrued(rate)) > 0
        /\ market' = [TokensIn(Accrued(rate), amount)
                        EXCEPT !.supply = @ + Minted(amount, Accrued(rate))]
        /\ ptokens' = [ptokens EXCEPT ![u] = @ + Minted(amount, Accrued(rate))]
        /\ EnsureFlags({u})
        /\ UNCHANGED <<snapshot, principalTotal, config, other>>
  BY DEF Deposit
<1> DEFINE m == Accrued(rate)
<1>2. amount \in Nat /\ m \in Markets
  BY ParameterAssumption, AccruedType
<1>3. Minted(amount, m) \in Nat
  BY <1>1, <1>2, MintedNat
<1>4. TokensIn(m, amount) \in Markets
  BY <1>2, TokensInType
<1> HIDE DEF m
<1>5. market' \in Markets
  <2>1. TokensIn(m, amount).supply + Minted(amount, m) \in Nat
    BY <1>3, <1>4 DEF Markets
  <2> QED BY <1>1, <1>4, <2>1, Zenon DEF Markets, m
<1>6. ptokens' \in [Users -> Nat]
  BY <1>1, <1>3 DEF m, TypeOK
<1> QED BY <1>1, <1>5, <1>6, EnsureFlagsType DEF TypeOK

LEMMA WithdrawType ==
    ASSUME TypeOK, NEW u \in Users, NEW n \in PTokenAmounts, Withdraw(u, n)
    PROVE  TypeOK'
<1>1. PICK rate \in BorrowRates :
        /\ n <= ptokens[u] /\ n <= Accrued(rate).supply
        /\ Accrued(rate).live >= Underlying(n, Accrued(rate))
        /\ market' = [TokensOut(Accrued(rate), Underlying(n, Accrued(rate)))
                        EXCEPT !.supply = @ - n]
        /\ ptokens' = [ptokens EXCEPT ![u] = @ - n]
        /\ EnsureFlags({u})
        /\ UNCHANGED <<snapshot, principalTotal, config, other>>
  BY DEF Withdraw
<1> DEFINE m == Accrued(rate)
           paid == Underlying(n, m)
<1>2. n \in Nat /\ m \in Markets
  BY ParameterAssumption, AccruedType
<1>3. paid \in Nat
  BY <1>2, UnderlyingNat
<1> HIDE DEF m
<1>4. TokensOut(m, paid) \in Markets /\ TokensOut(m, paid).supply = m.supply
  <2>1. m.live >= paid
    BY <1>1 DEF m
  <2>2. paid <= m.live
    BY <1>2, <1>3, <2>1 DEF Markets
  <2> QED BY <1>2, <1>3, <2>2, TokensOutType DEF TokensOut, Markets
<1>5. market' \in Markets
  <2>1. TokensOut(m, paid).supply - n \in Nat
    BY <1>1, <1>2, <1>4 DEF Markets, m
  <2> QED BY <1>1, <1>4, <2>1, Zenon DEF Markets, m
<1>6. ptokens' \in [Users -> Nat]
  BY <1>1, <1>2 DEF TypeOK
<1> QED BY <1>1, <1>5, <1>6, EnsureFlagsType DEF TypeOK

LEMMA TransferType ==
    ASSUME TypeOK, NEW a \in Users, NEW b \in Users, NEW n \in PTokenAmounts,
           Transfer(a, b, n)
    PROVE  TypeOK'
<1>1. PICK rate \in BorrowRates :
        /\ n <= ptokens[a]
        /\ market' = Accrued(rate)
        /\ ptokens' = Move(a, b, n)
        /\ EnsureFlags({a, b})
        /\ UNCHANGED <<snapshot, principalTotal, config, other>>
  BY DEF Transfer
<1>2. market' \in Markets
  BY <1>1, AccruedType
<1>3. ptokens' \in [Users -> Nat]
  BY <1>1, ParameterAssumption, MoveType DEF TypeOK
<1> QED BY <1>1, <1>2, <1>3, EnsureFlagsType DEF TypeOK

LEMMA BorrowType ==
    ASSUME TypeOK, NEW u \in Users, NEW amount \in Amounts, Borrow(u, amount)
    PROVE  TypeOK'
<1>1. PICK rate \in BorrowRates :
        /\ Accrued(rate).live >= amount
        /\ market' = [TokensOut(Accrued(rate), amount) EXCEPT !.borrowed = @ + amount]
        /\ WriteSnapshot(u, Debt(u, Accrued(rate)) + amount, Accrued(rate))
        /\ principalTotal' = IF config.borrowCap > 0 THEN principalTotal + amount
                             ELSE principalTotal
        /\ UNCHANGED <<ptokens, config, other>>
  BY DEF Borrow
<1> DEFINE m == Accrued(rate)
<1>2. amount \in Nat /\ m \in Markets
  BY ParameterAssumption, AccruedType
<1>3. Debt(u, m) + amount \in Nat
  BY <1>2, DebtNat
<1> HIDE DEF m
<1>4. TokensOut(m, amount) \in Markets
  <2>1. amount <= m.live
    BY <1>1, <1>2 DEF m, Markets
  <2> QED BY <1>2, <2>1, TokensOutType
<1>5. market' \in Markets
  <2>1. TokensOut(m, amount).borrowed + amount \in Nat
    BY <1>2, <1>4 DEF Markets
  <2> QED BY <1>1, <1>4, <2>1, Zenon DEF Markets, m
<1>6. principalTotal' \in Nat
  BY <1>1, <1>2 DEF TypeOK
<1>7. /\ snapshot' \in [Users -> Snapshots \cup {NoSnapshot}]
      /\ hasBorrowed' \in [Users -> {"unset", "no", "yes"}]
  BY <1>1, <1>2, <1>3, WriteSnapshotType DEF m
<1> QED BY <1>1, <1>5, <1>6, <1>7 DEF TypeOK

LEMMA RepayDebtType ==
    ASSUME TypeOK, NEW u \in Users, NEW amount \in Amounts, RepayDebt(u, amount)
    PROVE  TypeOK'
<1>1. PICK rate \in BorrowRates :
        /\ Accrued(rate).borrowed >= Payment(u, amount, Accrued(rate))
        /\ market' = [TokensIn(Accrued(rate), Payment(u, amount, Accrued(rate)))
                        EXCEPT !.borrowed = @ - Payment(u, amount, Accrued(rate))]
        /\ WriteSnapshot(u, Debt(u, Accrued(rate)) - Payment(u, amount, Accrued(rate)),
                         Accrued(rate))
        /\ principalTotal' =
             IF config.borrowCap > 0
             THEN Minus(principalTotal,
                        PrincipalPart(u, Debt(u, Accrued(rate)),
                                      Payment(u, amount, Accrued(rate))))
             ELSE principalTotal
        /\ UNCHANGED <<ptokens, config, other>>
  BY DEF RepayDebt
<1> DEFINE m == Accrued(rate)
           paid == Payment(u, amount, m)
           debt == Debt(u, m)
<1>2. amount \in Nat /\ m \in Markets
  BY ParameterAssumption, AccruedType
<1>3. debt \in Nat /\ paid \in Nat /\ debt - paid \in Nat
  BY <1>2, DebtNat, PaymentNat
<1> HIDE DEF m
<1>4. TokensIn(m, paid) \in Markets /\ TokensIn(m, paid).borrowed = m.borrowed
  BY <1>2, <1>3, TokensInType DEF TokensIn, Markets
<1>5. market' \in Markets
  <2>1. TokensIn(m, paid).borrowed - paid \in Nat
    BY <1>1, <1>2, <1>3, <1>4 DEF Markets, m
  <2> QED BY <1>1, <1>4, <2>1, Zenon DEF Markets, m
<1>6. principalTotal' \in Nat
  <2>1. snapshot[u].principal \in Nat
    BY DEF TypeOK, Snapshots, NoSnapshot
  <2>2. PrincipalPart(u, debt, paid) \in Nat
    BY <1>3, <2>1, MinusNat DEF PrincipalPart, Least
  <2> QED BY <1>1, <2>2, MinusNat DEF TypeOK, m
<1>7. /\ snapshot' \in [Users -> Snapshots \cup {NoSnapshot}]
      /\ hasBorrowed' \in [Users -> {"unset", "no", "yes"}]
  BY <1>1, <1>2, <1>3, WriteSnapshotType DEF m
<1> QED BY <1>1, <1>5, <1>6, <1>7 DEF TypeOK

LEMMA RepayNothingType ==
    ASSUME TypeOK, NEW u \in Users, RepayNothing(u)
    PROVE  TypeOK'
  BY AccruedType, EnsureFlagsType DEF RepayNothing, TypeOK

LEMMA FlashLoanType ==
    ASSUME TypeOK, NEW amount \in FlashAmounts, NEW extra \in Extras,
           FlashLoan(amount, extra)
    PROVE  TypeOK'
<1> DEFINE fee == (amount * config.flashFee) \div Scale
<1>1. PICK rate \in BorrowRates :
        /\ Accrued(rate).live >= amount
        /\ market' = [TokensIn(TokensOut(Accrued(rate), amount), amount + fee + extra)
                        EXCEPT !.reserves = @ + fee + extra]
        /\ UNCHANGED <<ptokens, snapshot, hasBorrowed, principalTotal, config, other>>
  BY DEF FlashLoan
<1> DEFINE m == Accrued(rate)
           back == TokensIn(TokensOut(m, amount), amount + fee + extra)
<1>2. amount \in Nat /\ extra \in Nat /\ m \in Markets
  BY ParameterAssumption, AccruedType
<1>3. fee \in Nat
  <2>1. config.flashFee \in Nat
    BY DEF TypeOK, Configs
  <2> QED BY <1>2, <2>1, ScaleAssumption, ProductNat, DivNat
<1> HIDE DEF m, fee
<1>4. back \in Markets
  <2>1. amount <= m.live
    BY <1>1, <1>2 DEF m, Markets
  <2>2. amount + fee + extra \in Nat
    BY <1>2, <1>3
  <2> QED BY <1>2, <2>1, <2>2, TokensOutType, TokensInType
<1>5. market' \in Markets
  <2>1. back.reserves + fee + extra \in Nat
    BY <1>2, <1>3, <1>4 DEF Markets
  <2> HIDE DEF back
  <2>2. market' = [back EXCEPT !.reserves = @ + fee + extra]
    BY <1>1 DEF back, m
  <2> QED BY <1>4, <2>1, <2>2, Zenon DEF Markets
<1> QED BY <1>1, <1>5 DEF TypeOK

LEMMA SeizeType ==
    ASSUME TypeOK, NEW a \in Users, NEW b \in Users, NEW c \in Users,
           NEW n \in PTokenAmounts, NEW fee \in PTokenAmounts, Seize(a, b, c, n, fee)
    PROVE  TypeOK'
<1>1. n \in Nat /\ fee \in Nat
  BY ParameterAssumption
<1> QED BY <1>1, SeizedType DEF Seize, TypeOK

LEMMA ReduceType ==
    ASSUME TypeOK, NEW amount \in Amounts, ReduceReserves(amount) \/ ReduceAdminFees(amount)
    PROVE  TypeOK'
<1>1. amount \in Nat /\ market \in Markets
  BY ParameterAssumption DEF TypeOK
<1> DEFINE out == TokensOut(market, amount)
<1>2. /\ amount <= market.live
      /\ UNCHANGED <<ptokens, snapshot, hasBorrowed, principalTotal, config, other>>
  BY DEF ReduceReserves, ReduceAdminFees
<1>3. out \in Markets /\ out.reserves = market.reserves /\ out.fees = market.fees
  BY <1>1, <1>2, TokensOutType DEF TokensOut, Markets
<1> HIDE DEF out
<1>4. market' \in Markets
  <2>1. CASE ReduceReserves(amount)
    <3>1. out.reserves - amount \in Nat
      BY <1>1, <1>3, <2>1 DEF ReduceReserves, Markets
    <3>2. market' = [out EXCEPT !.reserves = @ - amount]
      BY <2>1 DEF ReduceReserves, out
    <3> QED BY <1>3, <3>1, <3>2, Zenon DEF Markets
  <2>2. CASE ReduceAdminFees(amount)
    <3>1. out.fees - amount \in Nat
      BY <1>1, <1>3, <2>2 DEF ReduceAdminFees, Markets
    <3>2. market' = [out EXCEPT !.fees = @ - amount]
      BY <2>2 DEF ReduceAdminFees, out
    <3> QED BY <1>3, <3>1, <3>2, Zenon DEF Markets
  <2> QED BY <2>1, <2>2
<1> QED BY <1>2, <1>4 DEF TypeOK

LEMMA AdminType ==
    ASSUME TypeOK, AdminStep
    PROVE  TypeOK'
<1> USE ParameterAssumption
<1>1. ASSUME NEW a \in Amounts, ReduceReserves(a) \/ ReduceAdminFees(a) PROVE TypeOK'
  BY <1>1, ReduceType
<1>2. ASSUME NEW f \in ReserveFactors, SetReserveFactor(f) PROVE TypeOK'
  BY <1>2 DEF SetReserveFactor, Configure, TypeOK, Configs
<1>3. ASSUME NEW f \in AdminFees, SetAdminFee(f) PROVE TypeOK'
  BY <1>3 DEF SetAdminFee, Configure, TypeOK, Configs
<1>4. ASSUME NEW cap \in SupplyCaps, SetSupplyCap(cap) PROVE TypeOK'
  BY <1>4 DEF SetSupplyCap, Configure, TypeOK, Configs
<1>5. ASSUME NEW cap \in BorrowCaps, SetBorrowCap(cap) PROVE TypeOK'
  <2>1. principalTotal' \in Nat
    BY <1>5 DEF SetBorrowCap, TypeOK, Markets
  <2>2. config' \in Configs
    BY <1>5 DEF SetBorrowCap, Configure, TypeOK, Configs
  <2> QED BY <1>5, <2>1, <2>2 DEF SetBorrowCap, Configure, TypeOK
<1>6. ASSUME EnableRates PROVE TypeOK'
  BY <1>6 DEF EnableRates, Configure, TypeOK, Configs
<1>7. ASSUME NEW c \in Controllers, SetPeridottroller(c) PROVE TypeOK'
  <2>1. PICK f \in CollateralFactors \cup {config.collateralFactor} :
          config' = [config EXCEPT !.wired = TRUE, !.collateralFactor = f]
    BY <1>7 DEF SetPeridottroller
  <2>2. f \in 0..Scale
    BY <2>1 DEF TypeOK, Configs
  <2>3. config' \in Configs
    BY <2>1, <2>2 DEF TypeOK, Configs
  <2> QED BY <1>7, <2>3 DEF SetPeridottroller, TypeOK
<1>8. ASSUME NEW f \in FlashFees, SetFlashLoanFee(f) PROVE TypeOK'
  BY <1>8 DEF SetFlashLoanFee, Configure, TypeOK, Configs
<1>9. ASSUME NEW f \in CollateralFactors, SetCollateralFactor(f) PROVE TypeOK'
  BY <1>9 DEF SetCollateralFactor, Configure, TypeOK, Configs
<1> QED BY <1>1, <1>2, <1>3, <1>4, <1>5, <1>6, <1>7, <1>8, <1>9 DEF AdminStep

LEMMA WorldType ==
    ASSUME TypeOK, Tick \/ Donate \/ \E u \in Users : OtherMarketsMove(u)
    PROVE  TypeOK'
<1>1. CASE Tick
  <2>1. market.pending + 1 \in Nat
    BY DEF TypeOK, Markets
  <2>2. market' \in Markets
    BY <1>1, <2>1, Zenon DEF Tick, TypeOK, Markets
  <2> QED BY <1>1, <2>2 DEF Tick, TypeOK
<1>2. CASE Donate
  <2>1. market.live + 1 \in Nat
    BY DEF TypeOK, Markets
  <2>2. market' \in Markets
    BY <1>2, <2>1, Zenon DEF Donate, TypeOK, Markets
  <2> QED BY <1>2, <2>2 DEF Donate, TypeOK
<1>3. ASSUME NEW u \in Users, OtherMarketsMove(u) PROVE TypeOK'
  BY <1>3 DEF OtherMarketsMove, TypeOK
<1> QED BY <1>1, <1>2, <1>3

LEMMA InitType == Init => TypeOK
<1>1. Scale \div 2 \in 0..Scale
  BY ScaleAssumption
<1> QED BY <1>1, ScaleAssumption DEF Init, TypeOK, Markets, Configs

LEMMA NextType ==
    ASSUME TypeOK, [Next]_vars
    PROVE  TypeOK'
<1>1. ASSUME NEW u \in Users, UserStep(u) PROVE TypeOK'
  BY <1>1, DepositType, BorrowType, RepayDebtType, RepayNothingType, WithdrawType,
     TransferType DEF UserStep, Repay
<1>2. ASSUME NEW u \in Users, LiquidationStep(u) PROVE TypeOK'
  BY <1>2, RepayDebtType, RepayNothingType, SeizeType DEF LiquidationStep, RepayOnBehalf
<1>3. ASSUME NEW a \in FlashAmounts, NEW extra \in Extras, FlashLoan(a, extra) PROVE TypeOK'
  BY <1>3, FlashLoanType
<1>4. CASE UpdateInterest
  BY <1>4, AccruedType DEF UpdateInterest, TypeOK
<1>5. CASE AdminStep
  BY <1>5, AdminType
<1>6. CASE Tick \/ Donate \/ \E u \in Users : OtherMarketsMove(u)
  BY <1>6, WorldType
<1>7. CASE UNCHANGED vars
  BY <1>7 DEF vars, TypeOK
<1> QED BY <1>1, <1>2, <1>3, <1>4, <1>5, <1>6, <1>7 DEF Next

\* The vault's state keeps its types in every reachable state: no call drives a balance,
\* a total or an index out of range.
THEOREM TypeCorrect == Spec => []TypeOK
<1>1. TypeOK /\ [Next]_vars => TypeOK'
  BY NextType
<1> QED BY InitType, <1>1, PTL DEF Spec

-----------------------------------------------------------------------------
(* The books: what one step does to the market's totals                     *)

\* A call works on the market as stored or, if it accrues first, as accrued.
Bases == {market} \cup {Accrued(rate) : rate \in BorrowRates}

Books(cash, live, borrowed, reserves, fees, supply) ==
    /\ market'.cash = cash /\ market'.live = live
    /\ market'.borrowed = borrowed
    /\ market'.reserves = reserves /\ market'.fees = fees
    /\ market'.supply = supply

\* No tokens move, or somebody gives some away.
Kept(m) == \E live \in Nat :
    live >= m.live /\ Books(m.cash, live, m.borrowed, m.reserves, m.fees, m.supply)

Deposited(m, n) ==
    /\ RateDefined(m) /\ ExchangeRate(m) > 0 /\ Minted(n, m) > 0
    /\ Books(m.cash + n, m.live + n, m.borrowed, m.reserves, m.fees,
             m.supply + Minted(n, m))

Withdrawn(m, n) ==
    /\ n <= m.supply /\ RateDefined(m)
    /\ Underlying(n, m) <= AvailableLiquidity(m) /\ Underlying(n, m) <= m.live
    /\ LeavesNoValue(n, m)
    /\ Books(Minus(m.cash, Underlying(n, m)), m.live - Underlying(n, m), m.borrowed,
             m.reserves, m.fees, m.supply - n)

Lent(m, n) ==
    /\ n <= AvailableLiquidity(m) /\ n <= m.live
    /\ Books(Minus(m.cash, n), m.live - n, m.borrowed + n, m.reserves, m.fees, m.supply)

Repaid(m, n) ==
    /\ n <= m.borrowed
    /\ Books(m.cash + n, m.live + n, m.borrowed - n, m.reserves, m.fees, m.supply)

Flashed(m, n, gain) ==
    /\ n > 0 /\ n <= AvailableLiquidity(m) /\ n <= m.live
    /\ Books(Minus(m.cash, n) + (n + gain), (m.live - n) + (n + gain), m.borrowed,
             m.reserves + gain, m.fees, m.supply)

ReservesPaid(m, n) ==
    /\ n <= m.reserves /\ n <= m.live
    /\ Books(Minus(m.cash, n), m.live - n, m.borrowed, m.reserves - n, m.fees, m.supply)

FeesPaid(m, n) ==
    /\ n <= m.fees /\ n <= m.live
    /\ Books(Minus(m.cash, n), m.live - n, m.borrowed, m.reserves, m.fees - n, m.supply)

Posting(m) ==
    \/ Kept(m)
    \/ \E n \in Nat : Deposited(m, n) \/ Withdrawn(m, n) \/ Lent(m, n) \/ Repaid(m, n)
    \/ \E n \in Nat : ReservesPaid(m, n) \/ FeesPaid(m, n)
    \/ \E n, gain \in Nat : Flashed(m, n, gain)

LEMMA TokenFields ==
    ASSUME NEW m \in Markets, NEW n \in Nat
    PROVE  /\ TokensIn(m, n).cash = m.cash + n
           /\ TokensIn(m, n).live = m.live + n
           /\ TokensOut(m, n).cash = Minus(m.cash, n)
           /\ TokensOut(m, n).live = m.live - n
           /\ \A k \in {TokensIn(m, n), TokensOut(m, n)} :
                /\ k.borrowed = m.borrowed /\ k.reserves = m.reserves
                /\ k.fees = m.fees /\ k.supply = m.supply /\ k.index = m.index
                /\ DOMAIN k = DOMAIN m
  BY DEF TokensIn, TokensOut, Markets

LEMMA DepositPosting ==
    ASSUME TypeOK, NEW u \in Users, NEW n \in Amounts, Deposit(u, n)
    PROVE  \E m \in Bases :
             Posting(m) /\ market'.index = m.index /\ market'.borrowed = m.borrowed
<1>1. PICK rate \in BorrowRates :
        /\ RateDefined(Accrued(rate)) /\ ExchangeRate(Accrued(rate)) > 0
        /\ Minted(n, Accrued(rate)) > 0
        /\ market' = [TokensIn(Accrued(rate), n) EXCEPT !.supply = @ + Minted(n, Accrued(rate))]
  BY DEF Deposit
<1> DEFINE m == Accrued(rate)
<1>2. n \in Nat /\ m \in Markets /\ m \in Bases
  BY ParameterAssumption, AccruedType DEF Bases
<1> HIDE DEF m
<1>3. TokensIn(m, n) \in Markets
  BY <1>2, TokensInType
<1>4. Deposited(m, n) /\ market'.index = m.index
  <2> DEFINE k == TokensIn(m, n)
  <2>1. k \in Markets /\ market' = [k EXCEPT !.supply = k.supply + Minted(n, m)]
    BY <1>1, <1>3 DEF m
  <2>2. /\ k.cash = m.cash + n /\ k.live = m.live + n /\ k.borrowed = m.borrowed
        /\ k.reserves = m.reserves /\ k.fees = m.fees /\ k.supply = m.supply
        /\ k.index = m.index
    BY <1>2, TokenFields
  <2> HIDE DEF k
  <2> QED BY <1>1, <2>1, <2>2 DEF Deposited, Books, Markets, m
<1> QED BY <1>2, <1>4 DEF Posting, Deposited, Books

LEMMA WithdrawPosting ==
    ASSUME TypeOK, NEW u \in Users, NEW n \in PTokenAmounts, Withdraw(u, n)
    PROVE  \E m \in Bases :
             /\ Posting(m) /\ market'.index = m.index /\ market'.borrowed = m.borrowed
             /\ Covered(u, Remaining(u, n), Debt(u, m), m)
<1>1. PICK rate \in BorrowRates :
        /\ n <= Accrued(rate).supply /\ RateDefined(Accrued(rate))
        /\ AvailableLiquidity(Accrued(rate)) >= Underlying(n, Accrued(rate))
        /\ Accrued(rate).live >= Underlying(n, Accrued(rate))
        /\ LeavesNoValue(n, Accrued(rate))
        /\ Covered(u, Remaining(u, n), Debt(u, Accrued(rate)), Accrued(rate))
        /\ market' = [TokensOut(Accrued(rate), Underlying(n, Accrued(rate)))
                        EXCEPT !.supply = @ - n]
  BY DEF Withdraw
<1> DEFINE m == Accrued(rate)
           paid == Underlying(n, m)
<1>2. n \in Nat /\ m \in Markets /\ m \in Bases
  BY ParameterAssumption, AccruedType DEF Bases
<1>3. paid \in Nat /\ paid <= m.live /\ paid <= AvailableLiquidity(m)
  BY <1>1, <1>2, UnderlyingNat, TotalUnderlyingNat DEF Markets
<1> HIDE DEF m
<1>4. Withdrawn(m, n) /\ market'.index = m.index
  <2> DEFINE k == TokensOut(m, paid)
  <2>1. k \in Markets /\ market' = [k EXCEPT !.supply = k.supply - n]
    BY <1>1, <1>2, <1>3, TokensOutType DEF m
  <2>2. /\ k.cash = Minus(m.cash, paid) /\ k.live = m.live - paid /\ k.borrowed = m.borrowed
        /\ k.reserves = m.reserves /\ k.fees = m.fees /\ k.supply = m.supply
        /\ k.index = m.index
    BY <1>2, <1>3, TokenFields
  <2> HIDE DEF k
  <2> QED BY <1>1, <1>3, <2>1, <2>2 DEF Withdrawn, Books, Markets, m
<1> QED BY <1>1, <1>2, <1>4 DEF Posting, Withdrawn, Books, m

LEMMA BorrowPosting ==
    ASSUME TypeOK, NEW u \in Users, NEW n \in Amounts, Borrow(u, n)
    PROVE  \E m \in Bases :
             /\ Posting(m) /\ market'.index = m.index /\ market'.borrowed = m.borrowed + n
             /\ Covered(u, ptokens[u], Debt(u, m) + n, m)
             /\ WriteSnapshot(u, Debt(u, m) + n, m)
<1>1. PICK rate \in BorrowRates :
        /\ AvailableLiquidity(Accrued(rate)) >= n
        /\ Accrued(rate).live >= n
        /\ Covered(u, ptokens[u], Debt(u, Accrued(rate)) + n, Accrued(rate))
        /\ WriteSnapshot(u, Debt(u, Accrued(rate)) + n, Accrued(rate))
        /\ market' = [TokensOut(Accrued(rate), n) EXCEPT !.borrowed = @ + n]
  BY DEF Borrow
<1> DEFINE m == Accrued(rate)
<1>2. n \in Nat /\ m \in Markets /\ m \in Bases
  BY ParameterAssumption, AccruedType DEF Bases
<1> HIDE DEF m
<1>3. n <= m.live /\ n <= AvailableLiquidity(m)
  BY <1>1, <1>2, TotalUnderlyingNat DEF m, Markets
<1>4. Lent(m, n) /\ market'.index = m.index
  <2> DEFINE k == TokensOut(m, n)
  <2>1. k \in Markets /\ market' = [k EXCEPT !.borrowed = k.borrowed + n]
    BY <1>1, <1>2, <1>3, TokensOutType DEF m
  <2>2. /\ k.cash = Minus(m.cash, n) /\ k.live = m.live - n /\ k.borrowed = m.borrowed
        /\ k.reserves = m.reserves /\ k.fees = m.fees /\ k.supply = m.supply
        /\ k.index = m.index
    BY <1>2, <1>3, TokenFields
  <2> HIDE DEF k
  <2> QED BY <1>3, <2>1, <2>2 DEF Lent, Books, Markets
<1> QED BY <1>1, <1>2, <1>4 DEF Posting, Lent, Books, m

LEMMA RepayPosting ==
    ASSUME TypeOK, NEW u \in Users, NEW amount \in Amounts, RepayDebt(u, amount)
    PROVE  \E m \in Bases :
             /\ Posting(m) /\ market'.index = m.index
             /\ market'.borrowed = m.borrowed - Payment(u, amount, m)
             /\ Payment(u, amount, m) \in Nat /\ Payment(u, amount, m) <= m.borrowed
             /\ WriteSnapshot(u, Debt(u, m) - Payment(u, amount, m), m)
<1>1. PICK rate \in BorrowRates :
        /\ Accrued(rate).borrowed >= Payment(u, amount, Accrued(rate))
        /\ market' = [TokensIn(Accrued(rate), Payment(u, amount, Accrued(rate)))
                        EXCEPT !.borrowed = @ - Payment(u, amount, Accrued(rate))]
        /\ WriteSnapshot(u, Debt(u, Accrued(rate)) - Payment(u, amount, Accrued(rate)),
                         Accrued(rate))
  BY DEF RepayDebt
<1> DEFINE m == Accrued(rate)
           n == Payment(u, amount, m)
<1>2. amount \in Nat /\ m \in Markets /\ m \in Bases
  BY ParameterAssumption, AccruedType DEF Bases
<1>3. n \in Nat
  BY <1>2, PaymentNat
<1> HIDE DEF m, n
<1>4. n <= m.borrowed
  BY <1>1, <1>2, <1>3 DEF m, n, Markets
<1>5. Repaid(m, n) /\ market'.index = m.index
  <2> DEFINE k == TokensIn(m, n)
  <2>1. k \in Markets /\ market' = [k EXCEPT !.borrowed = k.borrowed - n]
    BY <1>1, <1>2, <1>3, TokensInType DEF m, n
  <2>2. /\ k.cash = m.cash + n /\ k.live = m.live + n /\ k.borrowed = m.borrowed
        /\ k.reserves = m.reserves /\ k.fees = m.fees /\ k.supply = m.supply
        /\ k.index = m.index
    BY <1>2, <1>3, TokenFields
  <2> HIDE DEF k
  <2> QED BY <1>4, <2>1, <2>2 DEF Repaid, Books, Markets
<1> QED BY <1>1, <1>2, <1>3, <1>4, <1>5 DEF Posting, Repaid, Books, m, n

LEMMA FlashPosting ==
    ASSUME TypeOK, NEW n \in FlashAmounts, NEW extra \in Extras, FlashLoan(n, extra)
    PROVE  \E m \in Bases :
             Posting(m) /\ market'.index = m.index /\ market'.borrowed = m.borrowed
<1> DEFINE fee == (n * config.flashFee) \div Scale
<1>1. PICK rate \in BorrowRates :
        /\ n > 0 /\ AvailableLiquidity(Accrued(rate)) >= n /\ Accrued(rate).live >= n
        /\ market' = [TokensIn(TokensOut(Accrued(rate), n), n + fee + extra)
                        EXCEPT !.reserves = @ + fee + extra]
  BY DEF FlashLoan
<1> DEFINE m == Accrued(rate)
           gain == fee + extra
<1>2. n \in Nat /\ extra \in Nat /\ m \in Markets /\ m \in Bases
  BY ParameterAssumption, AccruedType DEF Bases
<1>3. fee \in Nat /\ gain \in Nat
  <2>1. config.flashFee \in Nat
    BY DEF TypeOK, Configs
  <2> QED BY <1>2, <2>1, ScaleAssumption, ProductNat, DivNat
<1> HIDE DEF m, fee
<1>4. n <= m.live /\ n <= AvailableLiquidity(m)
  BY <1>1, <1>2, TotalUnderlyingNat DEF m, Markets
<1>5. Flashed(m, n, gain) /\ market'.index = m.index
  <2> DEFINE j == TokensOut(m, n)
             k == TokensIn(j, n + fee + extra)
  <2>1. j \in Markets
    BY <1>2, <1>4, TokensOutType
  <2>2. n + fee + extra \in Nat
    BY <1>2, <1>3
  <2>3. /\ j.cash = Minus(m.cash, n) /\ j.live = m.live - n /\ j.borrowed = m.borrowed
        /\ j.reserves = m.reserves /\ j.fees = m.fees /\ j.supply = m.supply
        /\ j.index = m.index
    BY <1>2, TokenFields
  <2> HIDE DEF j
  <2>4. k \in Markets
    BY <2>1, <2>2, TokensInType
  <2>5. /\ k.cash = j.cash + (n + fee + extra) /\ k.live = j.live + (n + fee + extra)
        /\ k.borrowed = j.borrowed
        /\ k.reserves = j.reserves /\ k.fees = j.fees /\ k.supply = j.supply
        /\ k.index = j.index
    BY <2>1, <2>2, TokenFields
  <2> HIDE DEF k
  <2>6. market' = [k EXCEPT !.reserves = k.reserves + fee + extra]
    BY <1>1 DEF j, k, m
  <2>7. /\ market'.cash = k.cash /\ market'.live = k.live /\ market'.borrowed = k.borrowed
        /\ market'.reserves = k.reserves + fee + extra
        /\ market'.fees = k.fees /\ market'.supply = k.supply /\ market'.index = k.index
    BY <2>4, <2>6 DEF Markets
  <2>8. n + fee + extra = n + gain /\ k.reserves + fee + extra = m.reserves + gain
    BY <1>2, <1>3, <2>3, <2>5 DEF Markets
  <2> QED BY <1>1, <1>4, <2>3, <2>5, <2>7, <2>8 DEF Flashed, Books
<1> QED BY <1>2, <1>3, <1>5 DEF Posting, Flashed, Books

LEMMA ReducePosting ==
    ASSUME TypeOK, NEW n \in Amounts, ReduceReserves(n) \/ ReduceAdminFees(n)
    PROVE  /\ Posting(market) /\ market'.index = market.index
           /\ market'.borrowed = market.borrowed
<1>1. n \in Nat /\ market \in Markets /\ market \in Bases /\ n <= market.live
  BY ParameterAssumption DEF TypeOK, Bases, ReduceReserves, ReduceAdminFees
<1> DEFINE k == TokensOut(market, n)
<1>2. k \in Markets
  BY <1>1, TokensOutType
<1>3. /\ k.cash = Minus(market.cash, n) /\ k.live = market.live - n
      /\ k.borrowed = market.borrowed /\ k.reserves = market.reserves
      /\ k.fees = market.fees /\ k.supply = market.supply /\ k.index = market.index
  BY <1>1, TokenFields
<1> HIDE DEF k
<1>4. CASE ReduceReserves(n)
  <2>1. market' = [k EXCEPT !.reserves = k.reserves - n] /\ n <= market.reserves
    BY <1>4 DEF ReduceReserves, k
  <2>2. ReservesPaid(market, n) /\ market'.index = market.index
    BY <1>1, <1>2, <1>3, <2>1 DEF ReservesPaid, Books, Markets
  <2> QED BY <1>1, <2>2 DEF Posting, ReservesPaid, Books
<1>5. CASE ReduceAdminFees(n)
  <2>1. market' = [k EXCEPT !.fees = k.fees - n] /\ n <= market.fees
    BY <1>5 DEF ReduceAdminFees, k
  <2>2. FeesPaid(market, n) /\ market'.index = market.index
    BY <1>1, <1>2, <1>3, <2>1 DEF FeesPaid, Books, Markets
  <2> QED BY <1>1, <2>2 DEF Posting, FeesPaid, Books
<1> QED BY <1>4, <1>5

LEMMA KeptPosting ==
    ASSUME TypeOK, NEW m \in Bases, market' = m
    PROVE  Posting(m)
<1>1. m \in Markets
  BY AccruedType DEF Bases, TypeOK
<1>2. Kept(m)
  BY <1>1 DEF Kept, Books, Markets
<1> QED BY <1>2 DEF Posting

LEMMA WorldPosting ==
    ASSUME TypeOK, Tick \/ Donate
    PROVE  Posting(market)
<1>1. market \in Markets /\ market.live \in Nat
  BY DEF TypeOK, Markets
<1>2. CASE Tick
  <2>1. Kept(market)
    BY <1>1, <1>2 DEF Tick, Kept, Books, Markets
  <2> QED BY <2>1 DEF Posting
<1>3. CASE Donate
  <2>1. /\ market'.live = market.live + 1 /\ market'.cash = market.cash
        /\ market'.borrowed = market.borrowed /\ market'.reserves = market.reserves
        /\ market'.fees = market.fees /\ market'.supply = market.supply
    BY <1>1, <1>3 DEF Donate, Markets
  <2>2. Kept(market)
    BY <1>1, <2>1 DEF Kept, Books
  <2> QED BY <2>2 DEF Posting
<1> QED BY <1>2, <1>3

\* Every step posts one entry to the stored or to the accrued books.
LEMMA NextPosting ==
    ASSUME TypeOK, [Next]_vars
    PROVE  \E m \in Bases : Posting(m)
<1>1. ASSUME NEW u \in Users, UserStep(u) PROVE \E m \in Bases : Posting(m)
  <2>1. ASSUME NEW a \in Users, NEW b \in Users, NEW n \in PTokenAmounts, Transfer(a, b, n)
        PROVE  \E m \in Bases : Posting(m)
    BY <2>1, KeptPosting DEF Transfer, Bases
  <2>2. ASSUME RepayNothing(u) PROVE \E m \in Bases : Posting(m)
    BY <2>2, KeptPosting DEF RepayNothing, Bases
  <2> QED BY <1>1, <2>1, <2>2, DepositPosting, BorrowPosting, RepayPosting,
             WithdrawPosting DEF UserStep, Repay
<1>2. ASSUME NEW u \in Users, LiquidationStep(u) PROVE \E m \in Bases : Posting(m)
  <2>1. CASE market' = market
    BY <2>1, KeptPosting DEF Bases
  <2>2. ASSUME RepayNothing(u) PROVE \E m \in Bases : Posting(m)
    BY <2>2, KeptPosting DEF RepayNothing, Bases
  <2> QED BY <1>2, <2>1, <2>2, RepayPosting DEF LiquidationStep, RepayOnBehalf, Seize
<1>3. ASSUME NEW n \in FlashAmounts, NEW extra \in Extras, FlashLoan(n, extra)
      PROVE  \E m \in Bases : Posting(m)
  BY <1>3, FlashPosting
<1>4. CASE UpdateInterest
  BY <1>4, KeptPosting DEF UpdateInterest, Bases
<1>5. CASE AdminStep
  <2>1. CASE market' = market
    BY <2>1, KeptPosting DEF Bases
  <2>2. market \in Bases
    BY DEF Bases
  <2> QED BY <1>5, <2>1, <2>2, ReducePosting DEF AdminStep, SetReserveFactor, SetAdminFee,
             SetFlashLoanFee,
             SetCollateralFactor, SetSupplyCap, SetBorrowCap, EnableRates, SetPeridottroller, Configure
<1>6. CASE Tick \/ Donate
  BY <1>6, WorldPosting DEF Bases
<1>7. CASE UNCHANGED vars \/ \E u \in Users : OtherMarketsMove(u)
  BY <1>7, KeptPosting DEF vars, OtherMarketsMove, Bases
<1> QED BY <1>1, <1>2, <1>3, <1>4, <1>5, <1>6, <1>7 DEF Next

-----------------------------------------------------------------------------
(* Cash is backed *)

Backed(m) == m.cash <= m.live

LEMMA PostingBacked ==
    ASSUME NEW m \in Markets, Backed(m), Posting(m)
    PROVE  ManagedCashBacked'
<1>1. m.cash \in Nat /\ m.live \in Nat /\ m.cash <= m.live
  BY DEF Markets, Backed
<1>2. ASSUME NEW n \in Nat, n <= m.live
      PROVE  Minus(m.cash, n) <= m.live - n /\ Minus(m.cash, n) \in Nat
  BY <1>1, <1>2 DEF Minus
<1>3. CASE Kept(m)
  BY <1>1, <1>3 DEF Kept, Books, ManagedCashBacked
<1>4. ASSUME NEW n \in Nat, Deposited(m, n) \/ Repaid(m, n) PROVE ManagedCashBacked'
  BY <1>1, <1>4 DEF Deposited, Repaid, Books, ManagedCashBacked
<1>5. ASSUME NEW n \in Nat, Lent(m, n) \/ ReservesPaid(m, n) \/ FeesPaid(m, n)
      PROVE  ManagedCashBacked'
  BY <1>2, <1>5 DEF Lent, ReservesPaid, FeesPaid, Books, ManagedCashBacked
<1>6. ASSUME NEW n \in Nat, Withdrawn(m, n) PROVE ManagedCashBacked'
  BY <1>2, <1>6, UnderlyingNat DEF Withdrawn, Books, ManagedCashBacked
<1>7. ASSUME NEW n \in Nat, NEW gain \in Nat, Flashed(m, n, gain) PROVE ManagedCashBacked'
  BY <1>1, <1>2, <1>7 DEF Flashed, Books, ManagedCashBacked
<1> QED BY <1>3, <1>4, <1>5, <1>6, <1>7 DEF Posting

\* The accounting never counts cash the vault does not hold: every payment changes
\* ManagedCash with the token balance, and gifts only widen the gap.
THEOREM CashBacked == Spec => []ManagedCashBacked
<1>1. Init => ManagedCashBacked
  BY DEF Init, ManagedCashBacked
<1>2. TypeOK /\ ManagedCashBacked /\ [Next]_vars => ManagedCashBacked'
  <2> SUFFICES ASSUME TypeOK, ManagedCashBacked, [Next]_vars PROVE ManagedCashBacked'
    OBVIOUS
  <2>1. PICK m \in Bases : Posting(m)
    BY NextPosting
  <2>2. m \in Markets /\ Backed(m)
    BY AccruedType DEF Bases, TypeOK, Backed, ManagedCashBacked
  <2> QED BY <2>1, <2>2, PostingBacked
<1> QED BY <1>1, <1>2, TypeCorrect, PTL DEF Spec

-----------------------------------------------------------------------------
(* Reserves and fees are covered, unless an accrual books more than it charges *)

\* Under factors that fit, an accrual books no more for reserves and fees than it charges
\* the borrowers.
LEMMA AccruedClaims ==
    ASSUME TypeOK, FactorsFit, NEW rate \in BorrowRates
    PROVE  LET m == Accrued(rate)
           IN (m.reserves + m.fees) - (market.reserves + market.fees)
                <= m.borrowed - market.borrowed
<1> DEFINE i == Interest(rate)
           f == config.reserveFactor
           g == config.adminFee
<1>1. f \in Nat /\ g \in Nat /\ f + g <= Scale
  BY DEF TypeOK, Configs, FactorsFit
<1>2. i \in Nat
  BY AccruedType
<1>3. /\ (i * f) \div Scale \in Nat /\ (i * g) \div Scale \in Nat
      /\ (i * f) \div Scale + (i * g) \div Scale <= i
  <2> HIDE DEF i, f, g
  <2> QED BY <1>1, <1>2, ScaleAssumption, SharesFit, DivNat, ProductNat
<1>4. /\ Accrued(rate).reserves = market.reserves + (i * f) \div Scale
      /\ Accrued(rate).fees = market.fees + (i * g) \div Scale
      /\ Accrued(rate).borrowed = market.borrowed + i
  BY AccruedType DEF Share
<1>5. market.reserves \in Nat /\ market.fees \in Nat /\ market.borrowed \in Nat
  BY DEF TypeOK, Markets
<1> HIDE DEF i, f, g
<1> QED BY <1>2, <1>3, <1>4, <1>5

Claimed(m) == m.reserves + m.fees <= m.cash + m.borrowed

\* Without a deficit the saturating subtractions are exact.
LEMMA ClaimedUnderlying ==
    ASSUME NEW m \in Markets, Claimed(m)
    PROVE  TotalUnderlying(m) = m.cash + m.borrowed - m.reserves - m.fees
<1>1. /\ m.cash \in Nat /\ m.borrowed \in Nat /\ m.reserves \in Nat /\ m.fees \in Nat
      /\ m.reserves + m.fees <= m.cash + m.borrowed
  BY DEF Markets, Claimed
<1> QED BY <1>1 DEF TotalUnderlying, Minus

\* Tokens that leave through withdraw, borrow or a flash loan are cash above the claims.
LEMMA AvailableIsCash ==
    ASSUME NEW m \in Markets, Claimed(m), NEW n \in Nat, n <= AvailableLiquidity(m), n > 0
    PROVE  n + m.reserves + m.fees <= m.cash
<1>1. m.cash \in Nat /\ m.borrowed \in Nat /\ m.reserves \in Nat /\ m.fees \in Nat
  BY DEF Markets
<1>2. TotalUnderlying(m) = m.cash + m.borrowed - m.reserves - m.fees
  BY ClaimedUnderlying
<1> QED BY <1>1, <1>2 DEF AvailableLiquidity, Minus

\* In a deficit the pool shows as empty, and nothing is available.
LEMMA UnclaimedIsEmpty ==
    ASSUME NEW m \in Markets, ~Claimed(m)
    PROVE  TotalUnderlying(m) = 0 /\ AvailableLiquidity(m) = 0
<1>1. /\ m.cash \in Nat /\ m.borrowed \in Nat /\ m.reserves \in Nat /\ m.fees \in Nat
      /\ m.reserves + m.fees > m.cash + m.borrowed
  BY DEF Markets, Claimed
<1> QED BY <1>1 DEF TotalUnderlying, AvailableLiquidity, Minus

LEMMA DeficitNat ==
    ASSUME NEW m \in Markets
    PROVE  Deficit(m) \in Nat
<1>1. m.cash \in Nat /\ m.borrowed \in Nat /\ m.reserves \in Nat /\ m.fees \in Nat
  BY DEF Markets
<1> QED BY <1>1 DEF Deficit, Minus

\* Under factors that fit, an accrual leaves the pool no less and opens no deficit.
LEMMA BaseWorth ==
    ASSUME TypeOK, FactorsFit, NEW m \in Bases
    PROVE  /\ TotalUnderlying(market) <= TotalUnderlying(m)
           /\ Deficit(m) <= Deficit(market)
<1>1. CASE m = market
  <2>1. TotalUnderlying(market) \in Nat /\ Deficit(market) \in Nat
    BY TotalUnderlyingNat, DeficitNat DEF TypeOK
  <2> QED BY <1>1, <2>1
<1>2. ASSUME NEW rate \in BorrowRates, m = Accrued(rate)
      PROVE  /\ TotalUnderlying(market) <= TotalUnderlying(m)
             /\ Deficit(m) <= Deficit(market)
  <2>1. m \in Markets /\ market \in Markets /\ m.cash = market.cash
    BY <1>2, AccruedType DEF TypeOK
  <2>2. (m.reserves + m.fees) - (market.reserves + market.fees)
          <= m.borrowed - market.borrowed
    BY <1>2, AccruedClaims
  <2>3. /\ market.cash \in Nat /\ market.borrowed \in Nat /\ market.reserves \in Nat
        /\ market.fees \in Nat
        /\ m.borrowed \in Nat /\ m.reserves \in Nat /\ m.fees \in Nat
    BY <2>1 DEF Markets
  <2> QED BY <2>1, <2>2, <2>3 DEF TotalUnderlying, Deficit, Minus
<1> QED BY <1>1, <1>2 DEF Bases

\* Each entry keeps covered claims covered.
LEMMA PostingClaimed ==
    ASSUME NEW m \in Markets, Claimed(m), Posting(m)
    PROVE  Claimed(market')
<1>1. /\ m.cash \in Nat /\ m.borrowed \in Nat /\ m.reserves \in Nat /\ m.fees \in Nat
      /\ m.reserves + m.fees <= m.cash + m.borrowed
  BY DEF Markets, Claimed
<1>2. CASE Kept(m)
  BY <1>1, <1>2 DEF Kept, Books, Claimed
<1>3. ASSUME NEW n \in Nat, Deposited(m, n) \/ Repaid(m, n) PROVE Claimed(market')
  BY <1>1, <1>3 DEF Deposited, Repaid, Books, Claimed
<1>4. ASSUME NEW n \in Nat, Withdrawn(m, n) PROVE Claimed(market')
  <2> DEFINE paid == Underlying(n, m)
  <2>1. paid \in Nat /\ paid <= AvailableLiquidity(m)
    BY <1>4, UnderlyingNat DEF Withdrawn
  <2>2. /\ market'.cash = Minus(m.cash, paid) /\ market'.borrowed = m.borrowed
        /\ market'.reserves = m.reserves /\ market'.fees = m.fees
    BY <1>4 DEF Withdrawn, Books
  <2> HIDE DEF paid
  <2>3. CASE paid = 0
    BY <1>1, <2>2, <2>3 DEF Minus, Claimed
  <2>4. CASE paid > 0
    <3>1. paid + m.reserves + m.fees <= m.cash
      BY <2>1, <2>4, AvailableIsCash
    <3> QED BY <1>1, <2>1, <2>2, <3>1 DEF Minus, Claimed
  <2> QED BY <2>1, <2>3, <2>4
<1>5. ASSUME NEW n \in Nat, Lent(m, n) PROVE Claimed(market')
  BY <1>1, <1>5 DEF Lent, Books, Minus, Claimed
<1>6. ASSUME NEW n \in Nat, ReservesPaid(m, n) \/ FeesPaid(m, n) PROVE Claimed(market')
  BY <1>1, <1>6 DEF ReservesPaid, FeesPaid, Books, Minus, Claimed
<1>7. ASSUME NEW n \in Nat, NEW gain \in Nat, Flashed(m, n, gain) PROVE Claimed(market')
  BY <1>1, <1>7 DEF Flashed, Books, Minus, Claimed
<1> QED BY <1>2, <1>3, <1>4, <1>5, <1>6, <1>7 DEF Posting

\* No entry opens or deepens a deficit.
LEMMA PostingDeficit ==
    ASSUME NEW m \in Markets, Posting(m), market' \in Markets
    PROVE  Deficit(market') <= Deficit(m)
<1>1. /\ m.cash \in Nat /\ m.borrowed \in Nat /\ m.reserves \in Nat /\ m.fees \in Nat
  BY DEF Markets
<1>2. /\ market'.cash \in Nat /\ market'.borrowed \in Nat
      /\ market'.reserves \in Nat /\ market'.fees \in Nat
  BY DEF Markets
<1>3. CASE Claimed(m)
  BY <1>1, <1>2, <1>3, PostingClaimed DEF Claimed, Deficit, Minus
<1>4. CASE ~Claimed(m)
  <2>1. ASSUME NEW n \in Nat, n <= AvailableLiquidity(m) PROVE n = 0
    BY <1>4, <2>1, UnclaimedIsEmpty
  <2>2. CASE Kept(m)
    BY <1>1, <2>2 DEF Kept, Books, Deficit, Minus
  <2>3. ASSUME NEW n \in Nat, Deposited(m, n) \/ Repaid(m, n) PROVE Deficit(market') <= Deficit(m)
    BY <1>1, <2>3 DEF Deposited, Repaid, Books, Deficit, Minus
  <2>4. ASSUME NEW n \in Nat, Withdrawn(m, n) PROVE Deficit(market') <= Deficit(m)
    <3>1. Underlying(n, m) = 0
      BY <2>1, <2>4, UnderlyingNat DEF Withdrawn
    <3> QED BY <1>1, <2>4, <3>1 DEF Withdrawn, Books, Deficit, Minus
  <2>5. ASSUME NEW n \in Nat, Lent(m, n) PROVE Deficit(market') <= Deficit(m)
    BY <1>1, <2>1, <2>5 DEF Lent, Books, Deficit, Minus
  <2>6. ASSUME NEW n \in Nat, ReservesPaid(m, n) \/ FeesPaid(m, n)
        PROVE  Deficit(market') <= Deficit(m)
    BY <1>1, <2>6 DEF ReservesPaid, FeesPaid, Books, Deficit, Minus
  <2>7. ASSUME NEW n \in Nat, NEW gain \in Nat, Flashed(m, n, gain) PROVE FALSE
    BY <2>1, <2>7 DEF Flashed
  <2> QED BY <2>2, <2>3, <2>4, <2>5, <2>6, <2>7 DEF Posting
<1> QED BY <1>3, <1>4

\* Whatever the admin sets: reserves and admin fees outgrow cash and loans only by an
\* accrual under factors above one, by no more than that accrual adds, and never by a call
\* that moves tokens.
THEOREM DeficitsComeFromFactors == Spec => NoHiddenDeficit
<1>1. TypeOK /\ TypeOK' /\ [Next]_vars =>
        [\/ Deficit(market') <= Deficit(market)
         \/ ~FactorsFit /\ \E rate \in BorrowRates :
              Deficit(market') <= Deficit(Accrued(rate))]_vars
  <2> SUFFICES ASSUME TypeOK, TypeOK', [Next]_vars
               PROVE  \/ Deficit(market') <= Deficit(market)
                      \/ ~FactorsFit /\ \E rate \in BorrowRates :
                           Deficit(market') <= Deficit(Accrued(rate))
    OBVIOUS
  <2>1. PICK m \in Bases : Posting(m)
    BY NextPosting
  <2>2. m \in Markets /\ market \in Markets /\ market' \in Markets
    BY AccruedType DEF Bases, TypeOK
  <2>3. Deficit(market') <= Deficit(m)
    BY <2>1, <2>2, PostingDeficit
  <2>4. CASE FactorsFit
    <3>1. Deficit(m) <= Deficit(market)
      BY <2>4, BaseWorth
    <3>2. Deficit(m) \in Nat /\ Deficit(market) \in Nat /\ Deficit(market') \in Nat
      BY <2>2, DeficitNat
    <3> QED BY <2>3, <3>1, <3>2
  <2>5. CASE ~FactorsFit
    BY <2>3, <2>5 DEF Bases
  <2> QED BY <2>4, <2>5
<1> QED BY <1>1, TypeCorrect, PTL DEF Spec, NoHiddenDeficit

-----------------------------------------------------------------------------
(* A market without pTokens is empty *)

EmptyPool(m) == m.supply = 0 => m.borrowed = 0 /\ m.cash = m.reserves + m.fees

LEMMA NothingUnderlying ==
    ASSUME NEW m \in Markets, EmptyPool(m), m.supply = 0
    PROVE  TotalUnderlying(m) = 0
<1>1. m.cash \in Nat /\ m.borrowed \in Nat /\ m.reserves \in Nat /\ m.fees \in Nat
  BY DEF Markets
<1> QED BY <1>1 DEF TotalUnderlying, Minus, EmptyPool

LEMMA BaseEmpty ==
    ASSUME TypeOK, EmptyPool(market), NEW m \in Bases
    PROVE  m \in Markets /\ EmptyPool(m)
<1>1. CASE m = market
  BY <1>1 DEF TypeOK
<1>2. ASSUME NEW rate \in BorrowRates, m = Accrued(rate), m.supply = 0
      PROVE  m.borrowed = 0 /\ m.cash = m.reserves + m.fees
  <2>1. market.borrowed = 0 /\ market.cash = market.reserves + market.fees
    BY <1>2, AccruedType DEF EmptyPool
  <2>2. rate \in Nat /\ market.pending \in Nat
    BY ParameterAssumption DEF TypeOK, Markets
  <2>3. market.borrowed * rate * market.pending = 0
    BY <2>1, <2>2
  <2>4. Interest(rate) = 0
    BY <2>3, ScaleAssumption DEF Interest
  <2>5. \A f \in 0..Scale : Share(0, f) = 0
    BY ScaleAssumption DEF Share
  <2>6. config.reserveFactor \in 0..Scale /\ config.adminFee \in 0..Scale
    BY DEF TypeOK, Configs
  <2>7. market \in Markets
    BY DEF TypeOK
  <2> QED BY <1>2, <2>1, <2>4, <2>5, <2>6, <2>7, AccruedType DEF Markets
<1> QED BY <1>1, <1>2, AccruedType DEF Bases, EmptyPool

LEMMA PostingEmpty ==
    ASSUME NEW m \in Markets, EmptyPool(m), Posting(m)
    PROVE  EmptyPool(market')
<1>1. /\ m.cash \in Nat /\ m.borrowed \in Nat /\ m.reserves \in Nat /\ m.fees \in Nat
      /\ m.supply \in Nat
  BY DEF Markets
<1>2. CASE Kept(m)
  BY <1>2 DEF Kept, Books, EmptyPool
<1>3. ASSUME NEW n \in Nat, Deposited(m, n) PROVE EmptyPool(market')
  BY <1>1, <1>3, MintedNat DEF Deposited, Books, EmptyPool
<1>4. ASSUME NEW n \in Nat, Repaid(m, n) PROVE EmptyPool(market')
  BY <1>1, <1>4 DEF Repaid, Books, EmptyPool
<1>5. ASSUME NEW n \in Nat, Withdrawn(m, n), market'.supply = 0
      PROVE  market'.borrowed = 0 /\ market'.cash = market'.reserves + market'.fees
  <2> DEFINE paid == Underlying(n, m)
  <2>1. m.supply = n
    BY <1>1, <1>5 DEF Withdrawn, Books
  <2>2. m.borrowed = 0 /\ TotalUnderlying(m) <= paid /\ paid \in Nat
    BY <1>5, <2>1, UnderlyingNat DEF Withdrawn, LeavesNoValue
  <2>3. market'.cash = Minus(m.cash, paid) /\ market'.borrowed = m.borrowed
        /\ market'.reserves = m.reserves /\ market'.fees = m.fees
    BY <1>5 DEF Withdrawn, Books
  <2> HIDE DEF paid
  <2>4. TotalUnderlying(m) = paid
    <3>1. paid <= AvailableLiquidity(m)
      BY <1>5 DEF Withdrawn, paid
    <3>2. TotalUnderlying(m) \in Nat
      BY TotalUnderlyingNat
    <3> QED BY <1>1, <2>2, <3>1, <3>2 DEF AvailableLiquidity, Minus
  <2>5. RateDefined(m) /\ (n = 0 => paid = 0)
    <3>1. Underlying(0, m) = 0
      BY ExchangeRateNat, ScaleAssumption DEF Underlying
    <3> QED BY <1>5, <3>1 DEF Withdrawn, paid
  <2>6. m.cash = paid + m.reserves + m.fees
    <3>1. CASE m.supply = 0
      BY <1>1, <2>1, <2>5, <3>1 DEF EmptyPool
    <3>2. CASE m.supply # 0
      <4>1. TotalUnderlying(m) # 0
        BY <2>5, <3>2 DEF RateDefined
      <4> QED BY <1>1, <2>2, <2>4, <4>1 DEF TotalUnderlying, Minus
    <3> QED BY <3>1, <3>2
  <2> QED BY <1>1, <2>2, <2>3, <2>6 DEF Minus
<1>6. ASSUME NEW n \in Nat, m.supply = 0, n <= AvailableLiquidity(m) PROVE n = 0
  BY <1>1, <1>6, NothingUnderlying DEF EmptyPool, AvailableLiquidity, Minus
<1>7. ASSUME NEW n \in Nat, Lent(m, n) PROVE EmptyPool(market')
  BY <1>1, <1>6, <1>7 DEF Lent, Books, EmptyPool, Minus
<1>8. ASSUME NEW n \in Nat, ReservesPaid(m, n) \/ FeesPaid(m, n) PROVE EmptyPool(market')
  BY <1>1, <1>8 DEF ReservesPaid, FeesPaid, Books, EmptyPool, Minus
<1>9. ASSUME NEW n \in Nat, NEW gain \in Nat, Flashed(m, n, gain) PROVE EmptyPool(market')
  BY <1>1, <1>6, <1>9 DEF Flashed, Books, EmptyPool
<1> QED BY <1>2, <1>3, <1>4, <1>5, <1>7, <1>8, <1>9 DEF Posting, EmptyPool

\* A market whose last pToken was burnt holds what reserves and fees claim, no more and no
\* less, so the next depositor starts at the initial exchange rate, owns what he pays in, and
\* is never locked out by "non-empty vault at zero supply".
THEOREM EmptyWithoutSupply == Spec => []ZeroSupplyIsEmpty
<1>1. ZeroSupplyIsEmpty <=> EmptyPool(market)
  BY DEF ZeroSupplyIsEmpty, EmptyPool
<1>2. Init => EmptyPool(market)
  BY DEF Init, EmptyPool
<1>3. TypeOK /\ EmptyPool(market) /\ [Next]_vars => EmptyPool(market)'
  BY NextPosting, BaseEmpty, PostingEmpty
<1> QED BY <1>1, <1>2, <1>3, TypeCorrect, PTL DEF Spec

-----------------------------------------------------------------------------
(* The exchange rate never falls *)

\* At the quoted rate the pTokens are worth no more than the pool holds.
LEMMA RateTimesSupply ==
    ASSUME NEW m \in Markets, m.supply > 0
    PROVE  /\ ExchangeRate(m) = (TotalUnderlying(m) * Scale) \div m.supply
           /\ ExchangeRate(m) * m.supply <= TotalUnderlying(m) * Scale
           /\ TotalUnderlying(m) * Scale \in Nat
           /\ m.supply \in Nat \ {0}
<1>1. m.supply \in Nat \ {0}
  BY DEF Markets
<1>2. TotalUnderlying(m) * Scale \in Nat
  BY TotalUnderlyingNat, ScaleAssumption, ProductNat
<1>3. ExchangeRate(m) = (TotalUnderlying(m) * Scale) \div m.supply
  BY <1>1 DEF ExchangeRate
<1> QED BY <1>1, <1>2, <1>3, DivNat

LEMMA RateFromValue ==
    ASSUME NEW m \in Markets, m.supply > 0, NEW r \in Nat,
           r * m.supply <= TotalUnderlying(m) * Scale
    PROVE  r <= ExchangeRate(m)
  BY RateTimesSupply, DivAtLeast

\* More value behind the same supply.
LEMMA RateOfMoreValue ==
    ASSUME NEW m \in Markets, NEW k \in Markets, m.supply > 0, k.supply = m.supply,
           TotalUnderlying(m) <= TotalUnderlying(k)
    PROVE  ExchangeRate(m) <= ExchangeRate(k)
<1>1. TotalUnderlying(m) * Scale <= TotalUnderlying(k) * Scale
  BY TotalUnderlyingNat, ScaleAssumption
<1> QED BY <1>1, RateTimesSupply, DivMonotone

\* A deposit at the floored number of pTokens.
LEMMA RateAfterMint ==
    ASSUME NEW m \in Markets, NEW k \in Markets, NEW n \in Nat, m.supply > 0,
           ExchangeRate(m) > 0,
           k.supply = m.supply + Minted(n, m),
           TotalUnderlying(k) = TotalUnderlying(m) + n
    PROVE  ExchangeRate(m) <= ExchangeRate(k)
<1> DEFINE r == ExchangeRate(m)
           t == TotalUnderlying(m)
           new == Minted(n, m)
<1>1. r \in Nat \ {0} /\ t \in Nat /\ new \in Nat /\ m.supply \in Nat /\ Scale \in Nat
  BY ExchangeRateNat, TotalUnderlyingNat, MintedNat, ScaleAssumption DEF Markets
<1>2. r * m.supply <= t * Scale
  BY RateTimesSupply
<1>3. new * r <= n * Scale
  BY <1>1, DivNat, ProductNat DEF Minted
<1>4. r * k.supply <= TotalUnderlying(k) * Scale
  <2> HIDE DEF r, t, new
  <2>1. r * (m.supply + new) = r * m.supply + new * r /\ (t + n) * Scale = t * Scale + n * Scale
    BY <1>1
  <2>2. /\ r * m.supply \in Nat /\ new * r \in Nat /\ t * Scale \in Nat /\ n * Scale \in Nat
    BY <1>1, ProductNat
  <2>3. r * (m.supply + new) <= (t + n) * Scale
    BY <1>2, <1>3, <2>1, <2>2
  <2> QED BY <2>3 DEF t, new
<1>5. k.supply > 0
  BY <1>1
<1> QED BY <1>1, <1>4, <1>5, RateFromValue

\* A withdrawal of the floored amount.
LEMMA RateAfterBurn ==
    ASSUME NEW m \in Markets, NEW k \in Markets, NEW n \in Nat, n <= m.supply,
           k.supply = m.supply - n, k.supply > 0,
           TotalUnderlying(k) = TotalUnderlying(m) - Underlying(n, m)
    PROVE  ExchangeRate(m) <= ExchangeRate(k)
<1> DEFINE r == ExchangeRate(m)
           t == TotalUnderlying(m)
           paid == Underlying(n, m)
<1>1. r \in Nat /\ t \in Nat /\ paid \in Nat /\ m.supply \in Nat /\ Scale \in Nat /\ k.supply \in Nat
  BY ExchangeRateNat, TotalUnderlyingNat, UnderlyingNat, ScaleAssumption DEF Markets
<1>2. m.supply > 0
  BY <1>1
<1>3. r * m.supply <= t * Scale
  BY <1>2, RateTimesSupply
<1>4. paid * Scale <= n * r
  BY <1>1, ScaleAssumption, DivNat, ProductNat DEF Underlying
<1>5. r * k.supply <= TotalUnderlying(k) * Scale
  <2> HIDE DEF r, t, paid
  <2>1. r * (m.supply - n) = r * m.supply - n * r /\ (t - paid) * Scale = t * Scale - paid * Scale
    BY <1>1
  <2>2. /\ r * m.supply \in Nat /\ n * r \in Nat /\ t * Scale \in Nat /\ paid * Scale \in Nat
    BY <1>1, ProductNat
  <2>3. r * (m.supply - n) <= (t - paid) * Scale
    BY <1>3, <1>4, <2>1, <2>2
  <2> QED BY <2>3 DEF t, paid
<1> QED BY <1>1, <1>5, RateFromValue

LEMMA BaseRate ==
    ASSUME TypeOK, FactorsFit, NEW m \in Bases, market.supply > 0
    PROVE  ExchangeRate(market) <= ExchangeRate(m)
<1>1. m \in Markets /\ market \in Markets /\ m.supply = market.supply
  BY AccruedType DEF Bases, TypeOK
<1> QED BY <1>1, BaseWorth, RateOfMoreValue

LEMMA ClaimedPostingRate ==
    ASSUME NEW m \in Markets, Claimed(m), Posting(m), market' \in Markets,
           m.supply > 0, market'.supply > 0
    PROVE  ExchangeRate(m) <= ExchangeRate(market')
<1> DEFINE k == market'
           Value(x) == x.cash + x.borrowed - x.reserves - x.fees
<1>1. /\ m.cash \in Nat /\ m.borrowed \in Nat /\ m.reserves \in Nat /\ m.fees \in Nat
      /\ m.supply \in Nat
  BY DEF Markets
<1>2. Claimed(k)
  BY PostingClaimed
<1>3. TotalUnderlying(m) = Value(m) /\ TotalUnderlying(k) = Value(k)
  BY <1>2, ClaimedUnderlying
<1>4. ASSUME k.supply = m.supply, Value(m) <= Value(k)
      PROVE  ExchangeRate(m) <= ExchangeRate(k)
  BY <1>3, <1>4, RateOfMoreValue
<1>5. CASE Kept(m)
  BY <1>1, <1>4, <1>5 DEF Kept, Books
<1>6. ASSUME NEW n \in Nat, Deposited(m, n) PROVE ExchangeRate(m) <= ExchangeRate(k)
  <2>1. /\ Value(k) = Value(m) + n /\ k.supply = m.supply + Minted(n, m)
        /\ ExchangeRate(m) > 0
    BY <1>1, <1>6 DEF Deposited, Books
  <2> QED BY <1>3, <2>1, RateAfterMint
<1>7. ASSUME NEW n \in Nat, Withdrawn(m, n) PROVE ExchangeRate(m) <= ExchangeRate(k)
  <2> DEFINE paid == Underlying(n, m)
  <2>1. paid \in Nat /\ paid <= AvailableLiquidity(m)
    BY <1>7, UnderlyingNat DEF Withdrawn
  <2>2. /\ k.cash = Minus(m.cash, paid) /\ k.borrowed = m.borrowed
        /\ k.reserves = m.reserves /\ k.fees = m.fees
        /\ k.supply = m.supply - n /\ n <= m.supply
    BY <1>7 DEF Withdrawn, Books
  <2>3. paid <= m.cash
    <3> HIDE DEF paid
    <3> QED BY <1>1, <2>1, AvailableIsCash
  <2>4. Value(k) = Value(m) - paid
    <3> HIDE DEF paid
    <3> QED BY <1>1, <2>1, <2>2, <2>3 DEF Minus
  <2> QED BY <1>3, <2>2, <2>4, RateAfterBurn
<1>8. ASSUME NEW n \in Nat, Repaid(m, n) PROVE ExchangeRate(m) <= ExchangeRate(k)
  BY <1>1, <1>4, <1>8 DEF Repaid, Books
<1>9. ASSUME NEW n \in Nat, n <= AvailableLiquidity(m) PROVE n <= m.cash
  BY <1>1, <1>9, AvailableIsCash
<1>10. ASSUME NEW n \in Nat, Lent(m, n) PROVE ExchangeRate(m) <= ExchangeRate(k)
  BY <1>1, <1>4, <1>9, <1>10 DEF Lent, Books, Minus
<1>11. ASSUME NEW n \in Nat, ReservesPaid(m, n) \/ FeesPaid(m, n)
       PROVE  ExchangeRate(m) <= ExchangeRate(k)
  BY <1>1, <1>4, <1>11 DEF ReservesPaid, FeesPaid, Books, Minus
<1>12. ASSUME NEW n \in Nat, NEW gain \in Nat, Flashed(m, n, gain)
       PROVE  ExchangeRate(m) <= ExchangeRate(k)
  BY <1>1, <1>4, <1>9, <1>12 DEF Flashed, Books, Minus
<1> QED BY <1>5, <1>6, <1>7, <1>8, <1>10, <1>11, <1>12 DEF Posting

LEMMA PostingRate ==
    ASSUME NEW m \in Markets, Posting(m), market' \in Markets,
           m.supply > 0, market'.supply > 0
    PROVE  ExchangeRate(m) <= ExchangeRate(market')
<1>1. CASE Claimed(m)
  BY <1>1, ClaimedPostingRate
<1>2. CASE ~Claimed(m)
  <2>1. TotalUnderlying(m) = 0 /\ m.supply \in Nat
    BY <1>2, UnclaimedIsEmpty DEF Markets
  <2>2. ExchangeRate(m) = 0
    BY <2>1, ScaleAssumption DEF ExchangeRate
  <2> QED BY <2>2, ExchangeRateNat
<1> QED BY <1>1, <1>2

\* Whatever the admin sets, no step of anybody lowers the exchange rate while pTokens exist,
\* but for an accrual under factors above one: each conversion rounds in favour of the pool.
THEOREM RateMonotone == Spec => RateNeverFalls
<1>1. TypeOK /\ TypeOK' /\ [Next]_vars =>
        [market.supply > 0 /\ market'.supply > 0 =>
           \/ ExchangeRate(market') >= ExchangeRate(market)
           \/ ~FactorsFit /\ \E rate \in BorrowRates :
                ExchangeRate(market') >= ExchangeRate(Accrued(rate))]_vars
  <2> SUFFICES ASSUME TypeOK, TypeOK', [Next]_vars,
                      market.supply > 0, market'.supply > 0
               PROVE  \/ ExchangeRate(market') >= ExchangeRate(market)
                      \/ ~FactorsFit /\ \E rate \in BorrowRates :
                           ExchangeRate(market') >= ExchangeRate(Accrued(rate))
    OBVIOUS
  <2>1. PICK m \in Bases : Posting(m)
    BY NextPosting
  <2>2. /\ m \in Markets /\ market \in Markets /\ market' \in Markets
        /\ m.supply = market.supply
    BY AccruedType DEF Bases, TypeOK
  <2>3. /\ ExchangeRate(m) \in Nat /\ ExchangeRate(market) \in Nat
        /\ ExchangeRate(market') \in Nat
    BY <2>2, ExchangeRateNat
  <2>4. ExchangeRate(market') >= ExchangeRate(m)
    BY <2>1, <2>2, <2>3, PostingRate
  <2>5. CASE FactorsFit
    BY <2>3, <2>4, <2>5, BaseRate
  <2>6. CASE ~FactorsFit
    BY <2>4, <2>6 DEF Bases
  <2> QED BY <2>5, <2>6
<1> QED BY <1>1, TypeCorrect, PTL DEF Spec, RateNeverFalls

-----------------------------------------------------------------------------
(* The supply is what the users hold *)

LEMMA UnitsOf ==
    ASSUME NEW f \in [Users -> Nat], NEW x
    PROVE  x \in Units(f) <=> \E u \in Users, i \in Nat : x = <<u, i>> /\ 1 <= i /\ i <= f[u]
<1>1. \A u \in Users : f[u] \in Nat
  OBVIOUS
<1> QED BY <1>1 DEF Units

\* n units of u, from the a-th on.
Block(u, a, n) == {<<u, i>> : i \in a + 1..a + n}

LEMMA BlockSize ==
    ASSUME NEW u, NEW a \in Nat, NEW n \in Nat
    PROVE  IsFiniteSet(Block(u, a, n)) /\ Cardinality(Block(u, a, n)) = n
<1> DEFINE S == a + 1..a + n
           b == [i \in S |-> <<u, i>>]
<1>1. IsFiniteSet(S) /\ Cardinality(S) = n
  <2>1. a + 1 \in Int /\ a + n \in Int
    OBVIOUS
  <2>2. IsFiniteSet(S) /\ Cardinality(S) = IF a + 1 > a + n THEN 0 ELSE (a + n) - (a + 1) + 1
    BY <2>1, FS_Interval
  <2> QED BY <2>2
<1>2. b \in Bijection(S, Block(u, a, n))
  BY DEF Block, Bijection, Injection, Surjection, IsInjective
<1>3. ExistsBijection(S, Block(u, a, n))
  BY <1>2 DEF ExistsBijection
<1> HIDE DEF S
<1> QED BY <1>1, <1>3, FS_Bijection

LEMMA UnitsRaised ==
    ASSUME NEW f \in [Users -> Nat], IsFiniteSet(Units(f)), NEW u \in Users, NEW n \in Nat
    PROVE  /\ IsFiniteSet(Units([f EXCEPT ![u] = f[u] + n]))
           /\ Cardinality(Units([f EXCEPT ![u] = f[u] + n])) = Cardinality(Units(f)) + n
<1> DEFINE h == [f EXCEPT ![u] = f[u] + n]
           B == Block(u, f[u], n)
<1>1. f[u] \in Nat /\ h \in [Users -> Nat]
  OBVIOUS
<1>2. h[u] = f[u] + n /\ \A v \in Users : v # u => h[v] = f[v]
  OBVIOUS
<1> HIDE DEF h
<1>3. \A x : x \in B <=> \E i \in Nat : x = <<u, i>> /\ f[u] < i /\ i <= f[u] + n
  BY <1>1 DEF Block
<1>4. Units(h) = Units(f) \cup B
  <2>1. ASSUME NEW x \in Units(h) PROVE x \in Units(f) \cup B
    <3>1. PICK v \in Users, i \in Nat : x = <<v, i>> /\ 1 <= i /\ i <= h[v]
      BY <1>1, <2>1, UnitsOf
    <3> QED BY <1>1, <1>2, <1>3, <3>1, UnitsOf
  <2>2. ASSUME NEW x \in Units(f) PROVE x \in Units(h)
    <3>1. PICK v \in Users, i \in Nat : x = <<v, i>> /\ 1 <= i /\ i <= f[v]
      BY <2>2, UnitsOf
    <3>2. i <= h[v]
      BY <1>1, <1>2, <3>1
    <3> QED BY <1>1, <3>1, <3>2, UnitsOf
  <2>3. ASSUME NEW x \in B PROVE x \in Units(h)
    <3>1. PICK i \in Nat : x = <<u, i>> /\ f[u] < i /\ i <= f[u] + n
      BY <1>3, <2>3
    <3>2. 1 <= i /\ i <= h[u]
      BY <1>1, <1>2, <3>1
    <3> QED BY <1>1, <3>1, <3>2, UnitsOf
  <2> QED BY <2>1, <2>2, <2>3
<1>5. Units(f) \cap B = {}
  <2> SUFFICES ASSUME NEW x \in Units(f), x \in B PROVE FALSE
    OBVIOUS
  <2>1. PICK v \in Users, i \in Nat : x = <<v, i>> /\ 1 <= i /\ i <= f[v]
    BY UnitsOf
  <2>2. PICK j \in Nat : x = <<u, j>> /\ f[u] < j
    BY <1>3
  <2> QED BY <1>1, <2>1, <2>2
<1>6. IsFiniteSet(B) /\ Cardinality(B) = n
  BY <1>1, BlockSize
<1> HIDE DEF B
<1>7. Cardinality(Units(f)) \in Nat /\ Cardinality(Units(f) \cap B) = 0
  BY <1>5, FS_EmptySet, FS_CardinalityType
<1>8. IsFiniteSet(Units(f) \cup B)
      /\ Cardinality(Units(f) \cup B)
            = Cardinality(Units(f)) + Cardinality(B) - Cardinality(Units(f) \cap B)
  BY <1>6, FS_Union
<1>9. IsFiniteSet(Units(h)) /\ Cardinality(Units(h)) = Cardinality(Units(f)) + n
  BY <1>4, <1>6, <1>7, <1>8
<1> QED BY <1>9 DEF h

LEMMA UnitsLowered ==
    ASSUME NEW f \in [Users -> Nat], IsFiniteSet(Units(f)), NEW u \in Users, NEW n \in Nat,
           n <= f[u]
    PROVE  /\ IsFiniteSet(Units([f EXCEPT ![u] = f[u] - n]))
           /\ Cardinality(Units([f EXCEPT ![u] = f[u] - n])) = Cardinality(Units(f)) - n
<1> DEFINE h == [f EXCEPT ![u] = f[u] - n]
<1>1. f[u] \in Nat /\ f[u] - n \in Nat
  OBVIOUS
<1>2. h \in [Users -> Nat]
  BY <1>1
<1>3. h[u] + n = f[u] /\ \A v \in Users : v # u => h[v] = f[v]
  BY <1>1
<1>4. \A v \in Users : h[v] <= f[v] /\ h[v] \in Nat /\ f[v] \in Nat
  BY <1>1
<1> HIDE DEF h
<1>5. Units(h) \subseteq Units(f)
  <2> SUFFICES ASSUME NEW x \in Units(h) PROVE x \in Units(f)
    OBVIOUS
  <2>1. PICK v \in Users, i \in Nat : x = <<v, i>> /\ 1 <= i /\ i <= h[v]
    BY <1>2, UnitsOf
  <2>2. i <= f[v]
    BY <1>4, <2>1
  <2> QED BY <2>1, <2>2, UnitsOf
<1>6. IsFiniteSet(Units(h))
  BY <1>5, FS_Subset
<1>7. Cardinality(Units(f)) = Cardinality(Units(h)) + n
  <2>1. f = [h EXCEPT ![u] = h[u] + n]
    BY <1>2, <1>3
  <2> QED BY <1>2, <1>6, <2>1, UnitsRaised
<1>8. Cardinality(Units(h)) \in Nat
  BY <1>6, FS_CardinalityType
<1> QED BY <1>6, <1>7, <1>8 DEF h

\* The balances f have a finite number of pTokens, s in all.
Held(f, s) == f \in [Users -> Nat] /\ IsFiniteSet(Units(f)) /\ Cardinality(Units(f)) = s

LEMMA HeldMore ==
    ASSUME NEW f, NEW s \in Nat, Held(f, s), NEW u \in Users, NEW n \in Nat
    PROVE  Held([f EXCEPT ![u] = @ + n], s + n)
<1>1. f \in [Users -> Nat] /\ [f EXCEPT ![u] = @ + n] = [f EXCEPT ![u] = f[u] + n]
      /\ f[u] + n \in Nat
  BY DEF Held
<1> QED BY <1>1, UnitsRaised DEF Held

LEMMA HeldLess ==
    ASSUME NEW f, NEW s \in Nat, Held(f, s), NEW u \in Users, NEW n \in Nat, n <= f[u]
    PROVE  Held([f EXCEPT ![u] = @ - n], s - n) /\ s - n \in Nat
<1>1. f \in [Users -> Nat] /\ [f EXCEPT ![u] = @ - n] = [f EXCEPT ![u] = f[u] - n]
  BY DEF Held
<1>2. f[u] - n \in Nat
  BY <1>1
<1>3. [f EXCEPT ![u] = f[u] - n] \in [Users -> Nat]
  BY <1>1, <1>2
<1>4. IsFiniteSet(Units([f EXCEPT ![u] = f[u] - n]))
      /\ Cardinality(Units([f EXCEPT ![u] = f[u] - n])) = s - n
  BY <1>1, UnitsLowered DEF Held
<1>5. s - n \in Nat
  BY <1>4, FS_CardinalityType
<1> QED BY <1>1, <1>3, <1>4, <1>5 DEF Held

\* The market's supply is the number of pTokens the users hold.
SupplyInv == TypeOK /\ Held(ptokens, market.supply)

LEMMA DepositHeld ==
    ASSUME SupplyInv, NEW u \in Users, NEW amount \in Amounts, Deposit(u, amount)
    PROVE  Held(ptokens, market.supply)'
<1>1. TypeOK /\ Held(ptokens, market.supply) /\ amount \in Nat
  BY ParameterAssumption DEF SupplyInv
<1>2. PICK rate \in BorrowRates :
        /\ ExchangeRate(Accrued(rate)) > 0
        /\ market' = [TokensIn(Accrued(rate), amount)
                        EXCEPT !.supply = @ + Minted(amount, Accrued(rate))]
        /\ ptokens' = [ptokens EXCEPT ![u] = @ + Minted(amount, Accrued(rate))]
  BY DEF Deposit
<1> DEFINE m == Accrued(rate)
           n == Minted(amount, m)
           k == TokensIn(m, amount)
<1>3. m \in Markets /\ m.supply = market.supply /\ n \in Nat
  BY <1>1, <1>2, AccruedType, MintedNat
<1>4. ptokens' = [ptokens EXCEPT ![u] = @ + n]
  BY <1>2
<1>5. market'.supply = market.supply + n
  <2>1. market' = [k EXCEPT !.supply = k.supply + n]
    BY <1>2
  <2> HIDE DEF m, n
  <2>2. k \in Markets /\ k.supply = m.supply
    BY <1>1, <1>3, TokensInType, TokenFields
  <2> HIDE DEF k
  <2> QED BY <1>3, <2>1, <2>2 DEF Markets
<1> HIDE DEF n
<1>6. market.supply \in Nat
  BY <1>1 DEF TypeOK, Markets
<1>7. Held([ptokens EXCEPT ![u] = @ + n], market.supply + n)
  BY <1>1, <1>3, <1>6, HeldMore
<1> QED BY <1>4, <1>5, <1>7

LEMMA WithdrawHeld ==
    ASSUME SupplyInv, NEW u \in Users, NEW n \in PTokenAmounts, Withdraw(u, n)
    PROVE  Held(ptokens, market.supply)'
<1>1. TypeOK /\ Held(ptokens, market.supply) /\ n \in Nat /\ market.supply \in Nat
  BY ParameterAssumption DEF SupplyInv, TypeOK, Markets
<1>2. PICK rate \in BorrowRates :
        /\ n <= ptokens[u]
        /\ Accrued(rate).live >= Underlying(n, Accrued(rate))
        /\ market' = [TokensOut(Accrued(rate), Underlying(n, Accrued(rate)))
                        EXCEPT !.supply = @ - n]
        /\ ptokens' = [ptokens EXCEPT ![u] = @ - n]
  BY DEF Withdraw
<1> DEFINE m == Accrued(rate)
           paid == Underlying(n, m)
           k == TokensOut(m, paid)
<1>3. m \in Markets /\ m.supply = market.supply /\ paid \in Nat /\ paid <= m.live
  BY <1>1, <1>2, AccruedType, UnderlyingNat DEF Markets
<1>4. market'.supply = market.supply - n
  <2>1. market' = [k EXCEPT !.supply = k.supply - n]
    BY <1>2
  <2> HIDE DEF m, paid
  <2>2. k \in Markets /\ k.supply = m.supply
    BY <1>3, TokensOutType, TokenFields
  <2> HIDE DEF k
  <2> QED BY <1>3, <2>1, <2>2 DEF Markets
<1>5. Held([ptokens EXCEPT ![u] = @ - n], market.supply - n)
  BY <1>1, <1>2, HeldLess
<1> QED BY <1>2, <1>4, <1>5

LEMMA MoveHeld ==
    ASSUME NEW s \in Nat, Held(ptokens, s), NEW a \in Users, NEW b \in Users,
           NEW n \in Nat, n <= ptokens[a]
    PROVE  Held(Move(a, b, n), s)
<1> DEFINE taken == [ptokens EXCEPT ![a] = @ - n]
<1>1. Held(taken, s - n) /\ s - n \in Nat
  BY HeldLess
<1> HIDE DEF taken
<1>2. Held([taken EXCEPT ![b] = @ + n], (s - n) + n)
  BY <1>1, HeldMore
<1>3. (s - n) + n = s
  OBVIOUS
<1> QED BY <1>2, <1>3 DEF Move, taken

LEMMA SeizedHeld ==
    ASSUME NEW s \in Nat, Held(ptokens, s), NEW a \in Users, NEW b \in Users,
           NEW c \in Users, NEW n \in Nat, NEW fee \in Nat, fee <= n, n <= ptokens[a]
    PROVE  Held(Seized(a, b, c, n, fee), s)
<1> DEFINE charged == [ptokens EXCEPT ![a] = @ - n]
           paid == [charged EXCEPT ![c] = @ + fee]
<1>1. Held(charged, s - n) /\ s - n \in Nat
  BY HeldLess
<1> HIDE DEF charged
<1>2. Held(paid, (s - n) + fee) /\ (s - n) + fee \in Nat
  BY <1>1, HeldMore
<1> HIDE DEF paid
<1>3. Held([paid EXCEPT ![b] = @ + (n - fee)], ((s - n) + fee) + (n - fee))
  BY <1>2, HeldMore
<1>4. ((s - n) + fee) + (n - fee) = s
  OBVIOUS
<1> QED BY <1>3, <1>4 DEF Seized, charged, paid

\* What the other steps do to the totals leaves the supply alone.
LEMMA SupplyKept ==
    ASSUME TypeOK,
           \/ \E u \in Users, a \in Amounts : Borrow(u, a) \/ RepayDebt(u, a)
           \/ \E u \in Users : RepayNothing(u) \/ OtherMarketsMove(u)
           \/ \E a \in FlashAmounts, extra \in Extras : FlashLoan(a, extra)
           \/ UpdateInterest \/ AdminStep \/ Tick \/ Donate \/ UNCHANGED vars
    PROVE  UNCHANGED ptokens /\ market'.supply = market.supply
<1>1. market \in Markets
  BY DEF TypeOK
<1>2. \A rate \in BorrowRates :
        Accrued(rate) \in Markets /\ Accrued(rate).supply = market.supply
  BY AccruedType
<1>3. ASSUME NEW m \in Markets, NEW x, NEW k \in {TokensIn(m, x), TokensOut(m, x)}
      PROVE  k.supply = m.supply /\ "supply" \in DOMAIN k
  BY DEF Markets, TokensIn, TokensOut
<1>4. ASSUME NEW u \in Users, NEW a \in Amounts, Borrow(u, a) \/ RepayDebt(u, a)
      PROVE  UNCHANGED ptokens /\ market'.supply = market.supply
  <2>1. PICK rate \in BorrowRates :
          /\ \E x : \E k \in {TokensIn(Accrued(rate), x), TokensOut(Accrued(rate), x)} : \E y :
                market' = [k EXCEPT !.borrowed = y]
          /\ UNCHANGED ptokens
    BY <1>4 DEF Borrow, RepayDebt
  <2> DEFINE m == Accrued(rate)
  <2>2. m \in Markets /\ m.supply = market.supply
    BY <1>2
  <2> HIDE DEF m
  <2>3. PICK x : \E k \in {TokensIn(m, x), TokensOut(m, x)} : \E y :
                    market' = [k EXCEPT !.borrowed = y]
    BY <2>1 DEF m
  <2>4. PICK k \in {TokensIn(m, x), TokensOut(m, x)} : \E y : market' = [k EXCEPT !.borrowed = y]
    BY <2>3
  <2>5. k.supply = m.supply /\ "supply" \in DOMAIN k
    BY <1>3, <2>2
  <2> QED BY <2>1, <2>2, <2>4, <2>5
<1>5. ASSUME NEW a \in FlashAmounts, NEW extra \in Extras, FlashLoan(a, extra)
      PROVE  UNCHANGED ptokens /\ market'.supply = market.supply
  <2>1. PICK rate \in BorrowRates :
          /\ market' = [TokensIn(TokensOut(Accrued(rate), a), a + (a * config.flashFee) \div Scale + extra)
                          EXCEPT !.reserves = @ + (a * config.flashFee) \div Scale + extra]
          /\ UNCHANGED ptokens
    BY <1>5 DEF FlashLoan
  <2> DEFINE m == Accrued(rate)
             j == TokensOut(m, a)
             k == TokensIn(j, a + (a * config.flashFee) \div Scale + extra)
  <2>2. m \in Markets /\ m.supply = market.supply
    BY <1>2
  <2>3. k.supply = m.supply /\ "supply" \in DOMAIN k
    BY <2>2 DEF Markets, TokensIn, TokensOut
  <2>4. market' = [k EXCEPT !.reserves = @ + (a * config.flashFee) \div Scale + extra]
    BY <2>1
  <2> HIDE DEF k
  <2>5. market'.supply = k.supply
    BY <2>3, <2>4
  <2> QED BY <2>1, <2>2, <2>3, <2>5
<1>6. ASSUME NEW u \in Users, RepayNothing(u) \/ OtherMarketsMove(u)
      PROVE  UNCHANGED ptokens /\ market'.supply = market.supply
  BY <1>2, <1>6 DEF RepayNothing, OtherMarketsMove
<1>7. ASSUME NEW a \in Amounts, ReduceReserves(a) \/ ReduceAdminFees(a)
      PROVE  UNCHANGED ptokens /\ market'.supply = market.supply
  <2> DEFINE k == TokensOut(market, a)
  <2>1. k.supply = market.supply /\ "supply" \in DOMAIN k
    BY <1>1, <1>3
  <2>2. /\ UNCHANGED ptokens
        /\ \E y : market' = [k EXCEPT !.reserves = y] \/ market' = [k EXCEPT !.fees = y]
    BY <1>7 DEF ReduceReserves, ReduceAdminFees
  <2> HIDE DEF k
  <2> QED BY <2>1, <2>2
<1>8. CASE AdminStep
  BY <1>7, <1>8 DEF AdminStep, SetReserveFactor, SetAdminFee, SetFlashLoanFee,
     SetCollateralFactor, SetSupplyCap, SetBorrowCap, EnableRates, SetPeridottroller, Configure
<1>9. CASE UpdateInterest \/ Tick \/ Donate \/ UNCHANGED vars
  BY <1>1, <1>2, <1>9 DEF UpdateInterest, Tick, Donate, vars, Markets
<1> QED BY <1>4, <1>5, <1>6, <1>8, <1>9

LEMMA SupplyNext ==
    ASSUME SupplyInv, [Next]_vars
    PROVE  SupplyInv'
<1>1. TypeOK /\ Held(ptokens, market.supply) /\ market.supply \in Nat
  BY DEF SupplyInv, TypeOK, Markets
<1>2. ASSUME UNCHANGED ptokens, market'.supply = market.supply
      PROVE  Held(ptokens, market.supply)'
  BY <1>1, <1>2
<1>3. ASSUME NEW a \in Users, NEW b \in Users, NEW n \in PTokenAmounts, Transfer(a, b, n)
      PROVE  Held(ptokens, market.supply)'
  <2>1. market'.supply = market.supply /\ ptokens' = Move(a, b, n) /\ n <= ptokens[a]
    BY <1>1, <1>3, AccruedType DEF Transfer
  <2> QED BY <1>1, <2>1, MoveHeld, ParameterAssumption
<1>4. ASSUME NEW a \in Users, NEW b \in Users, NEW c \in Users, NEW n \in PTokenAmounts,
             NEW fee \in PTokenAmounts, Seize(a, b, c, n, fee)
      PROVE  Held(ptokens, market.supply)'
  <2>1. /\ market' = market /\ ptokens' = Seized(a, b, c, n, fee)
        /\ fee <= n /\ n <= ptokens[a]
    BY <1>4 DEF Seize
  <2> QED BY <1>1, <2>1, SeizedHeld, ParameterAssumption
<1>5. ASSUME NEW u \in Users, UserStep(u) PROVE Held(ptokens, market.supply)'
  BY <1>1, <1>2, <1>3, <1>5, SupplyKept, DepositHeld, WithdrawHeld DEF UserStep, Repay
<1>6. ASSUME NEW u \in Users, LiquidationStep(u) PROVE Held(ptokens, market.supply)'
  BY <1>1, <1>2, <1>4, <1>6, SupplyKept DEF LiquidationStep, RepayOnBehalf
<1>7. Held(ptokens, market.supply)'
  BY <1>1, <1>2, <1>5, <1>6, SupplyKept DEF Next
<1> QED BY <1>1, <1>7, NextType DEF SupplyInv

LEMMA SupplyInvariant == Spec => []SupplyInv
<1>1. Init => SupplyInv
  <2> SUFFICES ASSUME Init PROVE Held(ptokens, market.supply)
    BY InitType DEF SupplyInv
  <2>1. ptokens \in [Users -> Nat] /\ market.supply = 0 /\ \A u \in Users : ptokens[u] = 0
    BY DEF Init
  <2>2. Units(ptokens) = {}
    BY <2>1 DEF Units
  <2> QED BY <2>1, <2>2, FS_EmptySet DEF Held
<1> QED BY <1>1, SupplyNext, PTL DEF Spec

\* No deposit, withdrawal, transfer, seizure or liquidation fee makes or loses a pToken:
\* the total supply is always the sum of the balances, for any number of users.
THEOREM SupplyHeld == Spec => []SupplyIsHeld
<1>1. SupplyInv => SupplyIsHeld
  BY DEF SupplyInv, Held, SupplyIsHeld
<1> QED BY <1>1, SupplyInvariant, PTL

-----------------------------------------------------------------------------
(* No account falls short by a call *)

\* Affords, for given positions o in the other markets and a given collateral factor.
Covers(o, factor, n, debt, m) ==
    debt + o.borrows <= o.collateral + (Underlying(n, m) * factor) \div Scale

LEMMA CoveredCovers ==
    ASSUME TypeOK, NEW u \in Users, NEW n \in Nat, NEW debt \in Nat, NEW m \in Markets,
           Covered(u, n, debt, m)
    PROVE  Covers(OtherOf(u), config.collateralFactor, n, debt, m)
<1> DEFINE worth == (Underlying(n, m) * config.collateralFactor) \div Scale
<1>1. worth \in Nat
  <2>1. config.collateralFactor \in Nat /\ Underlying(n, m) \in Nat
    BY UnderlyingNat DEF TypeOK, Configs
  <2> QED BY <2>1, ScaleAssumption, ProductNat, DivNat
<1>2. OtherOf(u).collateral \in Nat
  BY ParameterAssumption DEF OtherOf, TypeOK
<1>3. CASE debt = 0 /\ OtherOf(u).borrows = 0
  <2> HIDE DEF worth
  <2>1. debt + OtherOf(u).borrows <= OtherOf(u).collateral + worth
    BY <1>1, <1>2, <1>3
  <2> QED BY <2>1 DEF Covers, worth
<1>4. CASE Affords(u, n, debt, m)
  BY <1>4 DEF Affords, Covers
<1> QED BY <1>3, <1>4 DEF Covered

\* What a step that posts to m does to u: it leaves u's pTokens and does not raise its
\* debt, or has checked that u's new position is covered, or has found u short already.
StandsAt(u, m) ==
    \/ ptokens'[u] >= ptokens[u] /\ Debt(u, market)' <= Debt(u, m)
    \/ \E n \in Nat : n <= ptokens'[u] /\ Covers(OtherOf(u), config.collateralFactor, n, Debt(u, market)', m)
    \/ Shortfall(u)

Stands(m) ==
    /\ Posting(m) /\ market'.index = m.index
    /\ \A u \in Users : StandsAt(u, m)

\* A step that touches no debt and takes nobody's pTokens.
LEMMA PassiveStands ==
    ASSUME TypeOK, NEW m \in Bases, Posting(m), market'.index = m.index, snapshot' = snapshot,
           \A u \in Users : ptokens'[u] >= ptokens[u]
    PROVE  Stands(m)
<1>1. ASSUME NEW u \in Users PROVE Debt(u, market)' = Debt(u, m)
  BY DEF Debt
<1>2. m \in Markets
  BY AccruedType DEF Bases, TypeOK
<1>3. ASSUME NEW u \in Users PROVE Debt(u, market)' <= Debt(u, m)
  BY <1>1, <1>2, DebtNat
<1> QED BY <1>3 DEF Stands, StandsAt

LEMMA DepositStands ==
    ASSUME TypeOK, NEW u \in Users, NEW n \in Amounts, Deposit(u, n)
    PROVE  \E m \in Bases : Stands(m)
<1>1. PICK rate \in BorrowRates :
        /\ ExchangeRate(Accrued(rate)) > 0
        /\ ptokens' = [ptokens EXCEPT ![u] = @ + Minted(n, Accrued(rate))]
        /\ snapshot' = snapshot
  BY DEF Deposit
<1>2. n \in Nat /\ ptokens \in [Users -> Nat]
  BY ParameterAssumption DEF TypeOK
<1>3. Minted(n, Accrued(rate)) \in Nat
  BY <1>1, <1>2, AccruedType, MintedNat
<1>4. \A v \in Users : ptokens'[v] >= ptokens[v]
  BY <1>1, <1>2, <1>3
<1> QED BY <1>1, <1>4, DepositPosting, PassiveStands

LEMMA WithdrawStands ==
    ASSUME TypeOK, NEW u \in Users, NEW n \in PTokenAmounts, Withdraw(u, n)
    PROVE  \E m \in Bases : Stands(m)
<1>1. PICK m \in Bases : /\ Posting(m) /\ market'.index = m.index
                         /\ Covered(u, Remaining(u, n), Debt(u, m), m)
  BY WithdrawPosting
<1>2. n \in Nat /\ n <= ptokens[u] /\ ptokens \in [Users -> Nat] /\ m \in Markets
      /\ ptokens' = [ptokens EXCEPT ![u] = @ - n] /\ snapshot' = snapshot
  BY ParameterAssumption, AccruedType DEF TypeOK, Withdraw, Bases
<1>3. ASSUME NEW v \in Users PROVE Debt(v, market)' = Debt(v, m) /\ Debt(v, m) \in Nat
  BY <1>1, <1>2, DebtNat DEF Debt
<1>4. StandsAt(u, m)
  <2>1. Remaining(u, n) \in Nat /\ ptokens'[u] = Remaining(u, n)
    BY <1>2 DEF Remaining
  <2>2. Covers(OtherOf(u), config.collateralFactor, Remaining(u, n), Debt(u, market)', m)
    BY <1>1, <1>2, <1>3, <2>1, CoveredCovers
  <2> QED BY <2>1, <2>2 DEF StandsAt
<1>5. ASSUME NEW v \in Users, v # u PROVE StandsAt(v, m)
  <2>1. ptokens'[v] = ptokens[v] /\ ptokens[v] \in Nat
    BY <1>2, <1>5
  <2> QED BY <1>3, <2>1 DEF StandsAt
<1> QED BY <1>1, <1>4, <1>5 DEF Stands

\* A snapshot written at the market's index reads as its principal.
LEMMA WrittenDebt ==
    ASSUME TypeOK, NEW u \in Users, NEW d \in Nat, NEW m \in Markets,
           WriteSnapshot(u, d, m), market'.index = m.index
    PROVE  Debt(u, market)' = d
<1>1. snapshot'[u] = [principal |-> d, index |-> m.index]
  BY DEF WriteSnapshot, TypeOK
<1>2. m.index \in Nat \ {0}
  BY DEF Markets
<1>3. (d * m.index) \div m.index = d
  <2>1. ASSUME NEW i \in Nat \ {0} PROVE (d * i) \div i = d
    <3>1. (d * i) \div i <= d
      BY DivNat, CancelFactor, ProductNat
    <3>2. d <= (d * i) \div i
      BY DivAtLeast, ProductNat
    <3> QED BY <3>1, <3>2, DivNat, ProductNat
  <2> QED BY <1>2, <2>1
<1> QED BY <1>1, <1>3 DEF Debt

LEMMA BorrowStands ==
    ASSUME TypeOK, NEW u \in Users, NEW n \in Amounts, Borrow(u, n)
    PROVE  \E m \in Bases : Stands(m)
<1>1. PICK m \in Bases : /\ Posting(m) /\ market'.index = m.index
                         /\ Covered(u, ptokens[u], Debt(u, m) + n, m)
                         /\ WriteSnapshot(u, Debt(u, m) + n, m)
  BY BorrowPosting
<1>2. n \in Nat /\ ptokens \in [Users -> Nat] /\ m \in Markets /\ ptokens' = ptokens
      /\ snapshot \in [Users -> Snapshots \cup {NoSnapshot}]
  BY ParameterAssumption, AccruedType DEF TypeOK, Borrow, Bases
<1>3. \A v \in Users : Debt(v, m) \in Nat
  BY <1>2, DebtNat
<1>4. Debt(u, market)' = Debt(u, m) + n
  BY <1>1, <1>2, <1>3, WrittenDebt
<1>5. StandsAt(u, m)
  <2>1. Covers(OtherOf(u), config.collateralFactor, ptokens[u], Debt(u, market)', m)
    BY <1>1, <1>2, <1>3, <1>4, CoveredCovers
  <2> QED BY <1>2, <2>1 DEF StandsAt
<1>6. ASSUME NEW v \in Users, v # u PROVE StandsAt(v, m)
  <2>1. Debt(v, market)' = Debt(v, m)
    BY <1>1, <1>2, <1>6 DEF Debt, WriteSnapshot
  <2> QED BY <1>2, <1>3, <2>1 DEF StandsAt
<1> QED BY <1>1, <1>5, <1>6 DEF Stands

LEMMA RepayStands ==
    ASSUME TypeOK, NEW u \in Users, NEW n \in Amounts, RepayDebt(u, n)
    PROVE  \E m \in Bases : Stands(m)
<1>1. PICK m \in Bases : /\ Posting(m) /\ market'.index = m.index
                         /\ WriteSnapshot(u, Debt(u, m) - Payment(u, n, m), m)
  BY RepayPosting
<1>2. n \in Nat /\ ptokens \in [Users -> Nat] /\ m \in Markets /\ ptokens' = ptokens
      /\ snapshot \in [Users -> Snapshots \cup {NoSnapshot}]
  BY ParameterAssumption, AccruedType DEF TypeOK, RepayDebt, Bases
<1>3. \A v \in Users : Debt(v, m) \in Nat
  BY <1>2, DebtNat
<1>4. Payment(u, n, m) \in Nat /\ Payment(u, n, m) <= Debt(u, m)
  BY <1>2, PaymentNat
<1>5. Debt(u, m) - Payment(u, n, m) \in Nat /\ Debt(u, m) - Payment(u, n, m) <= Debt(u, m)
  BY <1>3, <1>4
<1>6. Debt(u, market)' = Debt(u, m) - Payment(u, n, m)
  BY <1>1, <1>2, <1>5, WrittenDebt
<1>7. ASSUME NEW v \in Users, v # u PROVE Debt(v, market)' = Debt(v, m)
  BY <1>1, <1>2, <1>7 DEF Debt, WriteSnapshot
<1>8. ASSUME NEW v \in Users PROVE Debt(v, market)' <= Debt(v, m)
  BY <1>3, <1>5, <1>6, <1>7
<1> QED BY <1>1, <1>2, <1>8 DEF Stands, StandsAt

LEMMA TransferStands ==
    ASSUME TypeOK, NEW a \in Users, NEW b \in Users, NEW n \in PTokenAmounts, Transfer(a, b, n)
    PROVE  \E m \in Bases : Stands(m)
<1>1. PICK rate \in BorrowRates :
        /\ n <= ptokens[a]
        /\ Covered(a, Remaining(a, n), Debt(a, Accrued(rate)), Accrued(rate))
        /\ market' = Accrued(rate)
        /\ ptokens' = Move(a, b, n)
        /\ snapshot' = snapshot
  BY DEF Transfer
<1> DEFINE m == Accrued(rate)
<1>2. m \in Bases /\ m \in Markets /\ n \in Nat /\ ptokens \in [Users -> Nat]
  BY ParameterAssumption, AccruedType DEF Bases, TypeOK
<1>3. Posting(m) /\ market'.index = m.index
  BY <1>1, <1>2, KeptPosting
<1> HIDE DEF m
<1>4. ASSUME NEW v \in Users PROVE Debt(v, market)' = Debt(v, m) /\ Debt(v, m) \in Nat
  BY <1>1, <1>2, <1>3, DebtNat DEF Debt
<1>5. Remaining(a, n) \in Nat /\ Remaining(a, n) <= ptokens'[a]
  <2> DEFINE taken == [ptokens EXCEPT ![a] = @ - n]
  <2>1. taken \in [Users -> Nat] /\ taken[a] = Remaining(a, n)
    BY <1>1, <1>2 DEF Remaining
  <2> HIDE DEF taken
  <2>2. ptokens' = [taken EXCEPT ![b] = @ + n]
    BY <1>1 DEF Move, taken
  <2>3. taken[a] \in Nat /\ taken[b] \in Nat
    BY <2>1
  <2> QED BY <1>2, <2>1, <2>2, <2>3
<1>6. StandsAt(a, m)
  <2>1. Covers(OtherOf(a), config.collateralFactor, Remaining(a, n), Debt(a, market)', m)
    BY <1>1, <1>2, <1>4, <1>5, CoveredCovers DEF m
  <2> QED BY <1>5, <2>1 DEF StandsAt
<1>7. ASSUME NEW v \in Users, v # a PROVE StandsAt(v, m)
  <2>1. ptokens'[v] >= ptokens[v]
    BY <1>1, <1>2, <1>7 DEF Move
  <2> QED BY <1>4, <2>1 DEF StandsAt
<1> QED BY <1>2, <1>3, <1>6, <1>7 DEF Stands

LEMMA SeizeStands ==
    ASSUME TypeOK, NEW a \in Users, NEW b \in Users, NEW c \in Users,
           NEW n \in PTokenAmounts, NEW fee \in PTokenAmounts, Seize(a, b, c, n, fee)
    PROVE  \E m \in Bases : Stands(m)
<1>1. /\ market' = market /\ snapshot' = snapshot /\ Shortfall(a)
      /\ fee <= n /\ n <= ptokens[a] /\ ptokens' = Seized(a, b, c, n, fee)
  BY DEF Seize
<1>2. market \in Bases /\ market \in Markets /\ n \in Nat /\ fee \in Nat
      /\ ptokens \in [Users -> Nat]
  BY ParameterAssumption DEF Bases, TypeOK
<1>3. Posting(market) /\ market'.index = market.index
  BY <1>1, <1>2, KeptPosting
<1>4. ASSUME NEW v \in Users PROVE Debt(v, market)' = Debt(v, market) /\ Debt(v, market) \in Nat
  BY <1>1, <1>2, DebtNat DEF Debt
<1>5. ASSUME NEW v \in Users, v # a PROVE ptokens'[v] >= ptokens[v]
  <2> DEFINE charged == [ptokens EXCEPT ![a] = @ - n]
             paid == [charged EXCEPT ![c] = @ + fee]
  <2>1. charged \in [Users -> Nat] /\ charged[v] = ptokens[v]
    BY <1>1, <1>2, <1>5
  <2> HIDE DEF charged
  <2>2. paid \in [Users -> Nat] /\ paid[v] >= charged[v]
    BY <1>2, <2>1
  <2> HIDE DEF paid
  <2>3. n - fee \in Nat
    BY <1>1, <1>2
  <2>4. ptokens' = [paid EXCEPT ![b] = @ + (n - fee)]
    BY <1>1 DEF Seized, charged, paid
  <2> QED BY <2>1, <2>2, <2>3, <2>4
<1>6. StandsAt(a, market)
  BY <1>1 DEF StandsAt
<1>7. ASSUME NEW v \in Users, v # a PROVE StandsAt(v, market)
  BY <1>4, <1>5, <1>7 DEF StandsAt
<1> QED BY <1>2, <1>3, <1>6, <1>7 DEF Stands

LEMMA NextStands ==
    ASSUME TypeOK, [Next]_vars
    PROVE  \E m \in Bases : Stands(m)
<1>1. market \in Markets /\ market \in Bases /\ \A rate \in BorrowRates : Accrued(rate) \in Bases
  BY DEF TypeOK, Bases
<1>2. \A u \in Users : ptokens[u] \in Nat
  BY DEF TypeOK
<1>3. ASSUME NEW m \in Bases, market' = m, UNCHANGED <<ptokens, snapshot>> PROVE Stands(m)
  BY <1>2, <1>3, KeptPosting, PassiveStands
<1>4. ASSUME NEW u \in Users, RepayNothing(u) PROVE \E m \in Bases : Stands(m)
  BY <1>1, <1>3, <1>4 DEF RepayNothing
<1>5. ASSUME NEW u \in Users, UserStep(u) PROVE \E m \in Bases : Stands(m)
  BY <1>4, <1>5, DepositStands, BorrowStands, RepayStands, WithdrawStands, TransferStands
     DEF UserStep, Repay
<1>6. ASSUME NEW u \in Users, LiquidationStep(u) PROVE \E m \in Bases : Stands(m)
  BY <1>4, <1>6, RepayStands, SeizeStands DEF LiquidationStep, RepayOnBehalf
<1>7. ASSUME NEW n \in FlashAmounts, NEW extra \in Extras, FlashLoan(n, extra)
      PROVE  \E m \in Bases : Stands(m)
  <2>1. UNCHANGED <<ptokens, snapshot>>
    BY <1>7 DEF FlashLoan
  <2> QED BY <1>2, <1>7, <2>1, FlashPosting, PassiveStands
<1>8. CASE UpdateInterest
  BY <1>1, <1>3, <1>8 DEF UpdateInterest
<1>9. CASE AdminStep
  <2>1. UNCHANGED <<ptokens, snapshot>>
    BY <1>9 DEF AdminStep, ReduceReserves, ReduceAdminFees, SetReserveFactor, SetAdminFee,
       SetFlashLoanFee,
       SetCollateralFactor, SetSupplyCap, SetBorrowCap, EnableRates, SetPeridottroller, Configure
  <2>2. CASE market' = market
    BY <1>1, <1>3, <2>1, <2>2
  <2>3. ASSUME NEW n \in Amounts, ReduceReserves(n) \/ ReduceAdminFees(n)
        PROVE  Stands(market)
    BY <1>1, <1>2, <2>1, <2>3, ReducePosting, PassiveStands
  <2> QED BY <1>1, <1>9, <2>2, <2>3 DEF AdminStep, SetReserveFactor, SetAdminFee,
             SetFlashLoanFee,
             SetCollateralFactor, SetSupplyCap, SetBorrowCap, EnableRates, SetPeridottroller, Configure
<1>10. CASE Tick \/ Donate
  <2>1. UNCHANGED <<ptokens, snapshot>> /\ market'.index = market.index
    BY <1>1, <1>10 DEF Tick, Donate, Markets
  <2>2. Posting(market)
    BY <1>10, WorldPosting
  <2> QED BY <1>1, <1>2, <2>1, <2>2, PassiveStands
<1>11. CASE UNCHANGED vars \/ \E u \in Users : OtherMarketsMove(u)
  BY <1>1, <1>3, <1>11 DEF vars, OtherMarketsMove
<1> QED BY <1>5, <1>6, <1>7, <1>8, <1>9, <1>10, <1>11 DEF Next

LEMMA CoversMonotone ==
    ASSUME NEW o \in [collateral : Nat, borrows : Nat], NEW m \in Markets, NEW k \in Markets,
           NEW n \in Nat, NEW j \in Nat, NEW d \in Nat, NEW e \in Nat,
           NEW f \in Nat, NEW g \in Nat,
           Covers(o, f, n, d, m), n <= j, e <= d, f <= g,
           n = 0 \/ ExchangeRate(m) <= ExchangeRate(k)
    PROVE  Covers(o, g, j, e, k)
<1> DEFINE r == ExchangeRate(m)
           t == ExchangeRate(k)
<1>1. Scale \in Nat \ {0} /\ o.borrows \in Nat /\ o.collateral \in Nat
  BY ScaleAssumption
<1>2. r \in Nat /\ t \in Nat
  BY ExchangeRateNat
<1>3. n * r \in Nat /\ j * t \in Nat /\ n * r <= j * t
  <2> HIDE DEF r, t
  <2>1. CASE n = 0
    BY <1>2, <2>1, ProductNat
  <2>2. CASE n # 0
    <3>1. r <= t
      BY <2>2 DEF r, t
    <3>2. n * r <= n * t /\ n * t <= j * t
      BY <1>2, <3>1
    <3> QED BY <1>2, <3>2, ProductNat
  <2> QED BY <2>1, <2>2
<1>4. Underlying(n, m) \in Nat /\ Underlying(j, k) \in Nat
      /\ Underlying(n, m) <= Underlying(j, k)
  BY <1>1, <1>3, DivMonotone, UnderlyingNat DEF Underlying
<1> DEFINE x == Underlying(n, m) * f
           y == Underlying(j, k) * g
<1>5. x \in Nat /\ y \in Nat /\ x <= y
  <2>1. Underlying(n, m) * f <= Underlying(j, k) * f
    BY <1>4
  <2>2. Underlying(j, k) * f <= Underlying(j, k) * g
    BY <1>4
  <2>3. /\ Underlying(n, m) * f \in Nat /\ Underlying(j, k) * f \in Nat
        /\ Underlying(j, k) * g \in Nat
    BY <1>4, ProductNat
  <2> QED BY <2>1, <2>2, <2>3
<1>6. x \div Scale \in Nat /\ y \div Scale \in Nat /\ x \div Scale <= y \div Scale
  <2> HIDE DEF x, y
  <2> QED BY <1>1, <1>5, DivMonotone, DivNat
<1>7. d + o.borrows <= o.collateral + x \div Scale
  BY DEF Covers
<1>8. e + o.borrows <= o.collateral + y \div Scale
  <2> HIDE DEF x, y
  <2> QED BY <1>1, <1>6, <1>7
<1> QED BY <1>8 DEF Covers

\* The first deposit sets the rate at which it was made: an empty market has no deficit.
LEMMA FirstMint ==
    ASSUME NEW m \in Markets, EmptyPool(m), Posting(m), market' \in Markets,
           m.supply = 0, market'.supply > 0
    PROVE  ExchangeRate(market') = ExchangeRate(m)
<1>1. /\ m.cash \in Nat /\ m.borrowed = 0 /\ m.reserves \in Nat /\ m.fees \in Nat
      /\ m.cash = m.reserves + m.fees
  BY DEF Markets, EmptyPool
<1>2. Scale \in Nat \ {0}
  BY ScaleAssumption
<1>3. ExchangeRate(m) = Scale
  BY DEF ExchangeRate
<1>4. PICK n \in Nat : Deposited(m, n)
  <2>1. ASSUME NEW n \in Nat, Withdrawn(m, n) PROVE FALSE
    BY <2>1 DEF Withdrawn, Books
  <2> QED BY <2>1 DEF Posting, Kept, Lent, Repaid, ReservesPaid, FeesPaid, Flashed, Books
<1>5. /\ market'.cash = m.cash + n /\ market'.borrowed = 0 /\ market'.reserves = m.reserves
      /\ market'.fees = m.fees /\ market'.supply = Minted(n, m)
  BY <1>1, <1>2, <1>3, <1>4, MintedNat DEF Deposited, Books
<1>6. ASSUME NEW a \in Nat, NEW b \in Nat \ {0} PROVE (a * b) \div b = a
  <2>1. (a * b) \div b <= a
    BY DivNat, CancelFactor, ProductNat
  <2>2. a <= (a * b) \div b
    BY DivAtLeast, ProductNat
  <2> QED BY <2>1, <2>2, DivNat, ProductNat
<1>7. Minted(n, m) = n
  BY <1>2, <1>3, <1>6 DEF Minted
<1>8. TotalUnderlying(market') = n
  BY <1>1, <1>5 DEF TotalUnderlying, Minus
<1>9. n > 0
  BY <1>5, <1>7
<1>10. (n * Scale) \div n = Scale
  <2>1. n * Scale = Scale * n
    BY <1>2
  <2> QED BY <1>2, <1>6, <1>9, <2>1
<1> QED BY <1>3, <1>5, <1>7, <1>8, <1>9, <1>10 DEF ExchangeRate

\* The books after a posting cover what the books before it cover.
LEMMA PostingCovers ==
    ASSUME NEW m \in Markets, EmptyPool(m), Posting(m), market' \in Markets,
           NEW o \in [collateral : Nat, borrows : Nat], NEW n \in Nat, NEW d \in Nat,
           NEW f \in Nat,
           market'.supply = 0 => n = 0, Covers(o, f, n, d, m)
    PROVE  Covers(o, f, n, d, market')
<1>1. m.supply \in Nat /\ market'.supply \in Nat
  BY DEF Markets
<1>2. CASE market'.supply = 0
  BY <1>2, CoversMonotone
<1>3. CASE m.supply = 0 /\ market'.supply > 0
  <2>1. ExchangeRate(market') = ExchangeRate(m) /\ ExchangeRate(m) \in Nat
    BY <1>3, FirstMint, ExchangeRateNat
  <2> QED BY <2>1, CoversMonotone
<1>4. CASE m.supply > 0 /\ market'.supply > 0
  BY <1>4, PostingRate, CoversMonotone
<1> QED BY <1>1, <1>2, <1>3, <1>4

LEMMA HeldNone ==
    ASSUME NEW f, Held(f, 0), NEW u \in Users
    PROVE  f[u] = 0
<1>1. f \in [Users -> Nat] /\ Units(f) = {}
  BY FS_EmptySet DEF Held
<1>2. f[u] \in Nat
  BY <1>1
<1>3. ASSUME 1 <= f[u] PROVE FALSE
  <2>1. \E v \in Users, i \in Nat : <<u, 1>> = <<v, i>> /\ 1 <= i /\ i <= f[v]
    BY <1>3
  <2>2. <<u, 1>> \in Units(f)
    BY <1>1, <2>1, UnitsOf
  <2> QED BY <1>1, <2>2
<1> QED BY <1>2, <1>3

CoverInv == TypeOK /\ SupplyInv /\ EmptyPool(market)

\* An account that can pay, before and after the interest due, can pay after any step in
\* which no other market moved, no controller was wired and no factor lowered.
LEMMA StaysCovered ==
    ASSUME CoverInv, CoverInv', [Next]_vars, NEW u \in Users,
           \A m \in Bases : ~ShortAt(u, m), other'[u] = other[u],
           config'.wired = config.wired,
           config.collateralFactor <= config'.collateralFactor
    PROVE  ~Shortfall(u)'
<1> DEFINE o == OtherOf(u)
           d == Debt(u, market)'
           f == config.collateralFactor
           g == config'.collateralFactor
<1>1. /\ TypeOK /\ TypeOK' /\ market \in Markets /\ market' \in Markets
      /\ ptokens[u] \in Nat /\ ptokens'[u] \in Nat
      /\ f \in Nat /\ g \in Nat /\ f <= g
  BY DEF CoverInv, TypeOK, Configs
<1>2. o \in [collateral : Nat, borrows : Nat] /\ OtherOf(u)' = o
  BY <1>1, ParameterAssumption DEF OtherOf, TypeOK
<1>3. PICK m \in Bases : Stands(m)
  BY <1>1, NextStands
<1>4. m \in Markets /\ EmptyPool(m)
  BY <1>1, BaseEmpty DEF CoverInv
<1>5. Debt(u, m) \in Nat /\ d \in Nat
  <2>1. snapshot'[u] \in Snapshots \cup {NoSnapshot} /\ market'.index \in Nat \ {0}
    BY <1>1 DEF TypeOK, Markets
  <2>2. d \in Nat
    <3>1. CASE snapshot'[u].principal = 0
      BY <3>1 DEF Debt
    <3>2. CASE snapshot'[u].principal # 0
      <4>1. snapshot'[u].principal \in Nat /\ snapshot'[u].index \in Nat \ {0}
        BY <2>1, <3>2 DEF Snapshots, NoSnapshot
      <4> QED BY <2>1, <3>2, <4>1, ProductNat, DivNat DEF Debt
    <3> QED BY <3>1, <3>2
  <2> QED BY <1>1, <1>4, <2>2, DebtNat DEF TypeOK
<1>6. market'.supply = 0 => ptokens'[u] = 0
  <2>1. Held(ptokens', market'.supply)
    BY DEF CoverInv, SupplyInv, Held, Units
  <2> QED BY <2>1, HeldNone
<1>7. Covers(o, f, ptokens[u], Debt(u, m), m)
  BY <1>3 DEF ShortAt, Affords, Covers
<1>8. ~Shortfall(u)
  BY DEF Bases, Shortfall
<1> HIDE DEF o, d, f, g
<1>9. \E n \in Nat, e \in Nat : n <= ptokens'[u] /\ d <= e /\ Covers(o, f, n, e, m)
  <2>1. StandsAt(u, m)
    BY <1>3 DEF Stands
  <2>2. CASE ptokens'[u] >= ptokens[u] /\ d <= Debt(u, m)
    BY <1>1, <1>5, <1>7, <2>2
  <2>3. CASE \E n \in Nat : n <= ptokens'[u] /\ Covers(o, f, n, d, m)
    BY <1>5, <2>3
  <2> QED BY <1>8, <2>1, <2>2, <2>3 DEF StandsAt, o, d, f
<1>10. Covers(o, f, ptokens'[u], d, m)
  <2>1. ExchangeRate(m) <= ExchangeRate(m)
    BY <1>4, ExchangeRateNat
  <2>2. PICK n \in Nat, e \in Nat : n <= ptokens'[u] /\ d <= e /\ Covers(o, f, n, e, m)
    BY <1>9
  <2>3. ptokens'[u] \in Nat /\ f \in Nat /\ f <= f
    BY <1>1
  <2> QED BY <1>2, <1>4, <1>5, <2>1, <2>2, <2>3, CoversMonotone, Zenon
<1>11. Covers(o, f, ptokens'[u], d, market')
  BY <1>1, <1>2, <1>3, <1>4, <1>5, <1>6, <1>10, PostingCovers DEF Stands
<1>12. Covers(o, g, ptokens'[u], d, market')
  <2>1. ExchangeRate(market') <= ExchangeRate(market')
    BY <1>1, ExchangeRateNat
  <2>2. ptokens'[u] <= ptokens'[u] /\ d <= d
    BY <1>1, <1>5
  <2> QED BY <1>1, <1>2, <1>5, <1>11, <2>1, <2>2, CoversMonotone, Zenon
<1> QED BY <1>2, <1>12 DEF Shortfall, ShortAt, Affords, Covers, d, g, Underlying,
           ExchangeRate, TotalUnderlying, Minus

LEMMA CoverInvariant == Spec => []CoverInv
<1>1. ZeroSupplyIsEmpty <=> EmptyPool(market)
  BY DEF ZeroSupplyIsEmpty, EmptyPool
<1>2. TypeOK /\ SupplyInv /\ EmptyPool(market) => CoverInv
  BY DEF CoverInv
<1> QED BY <1>1, <1>2, TypeCorrect, EmptyWithoutSupply, SupplyInvariant, PTL

\* Whatever the admin sets, no deposit, withdrawal, transfer, loan, repayment, seizure, flash
\* loan or payment to the admin makes an account liquidatable: only the interest due, the
\* account's positions elsewhere, the wiring of the controller and a lower collateral factor
\* do, whoever acts and whatever is rounded.
THEOREM NobodyPushedShort == Spec => NoSelfInflictedShortfall
<1>1. CoverInv /\ CoverInv' /\ [Next]_vars =>
        [\A u \in Users :
           ~Shortfall(u) /\ Shortfall(u)' =>
              \/ \E rate \in BorrowRates : ShortAt(u, Accrued(rate))
              \/ other'[u] # other[u]
              \/ config'.wired # config.wired
              \/ config'.collateralFactor < config.collateralFactor]_vars
  <2> SUFFICES ASSUME CoverInv, CoverInv', [Next]_vars, NEW u \in Users,
                      ~Shortfall(u), Shortfall(u)',
                      \A rate \in BorrowRates : ~ShortAt(u, Accrued(rate)),
                      other'[u] = other[u], config'.wired = config.wired,
                      ~(config'.collateralFactor < config.collateralFactor)
               PROVE  FALSE
    OBVIOUS
  <2>1. config.collateralFactor <= config'.collateralFactor
    BY DEF CoverInv, TypeOK, Configs
  <2>2. \A m \in Bases : ~ShortAt(u, m)
    BY DEF Bases, Shortfall
  <2> QED BY <2>1, <2>2, StaysCovered
<1> QED BY <1>1, CoverInvariant, PTL DEF Spec, NoSelfInflictedShortfall

-----------------------------------------------------------------------------
(* Debts are covered *)

\* N is a common multiple of the indexes that u's debts were written at, k[u] the factor.
Rated(s, N, k) == \A u \in Users : s[u].principal > 0 => s[u].index * k[u] = N

\* What the debts come to per unit of the index, times N: no rounding.
Shares(s, k) == SumFunction([u \in Users |-> s[u].principal * k[u]])

\* The debts before they are rounded, sum of principal * index / index then, stay below the
\* total.  The rounded debts alone would not do: what a rounding drops comes back when the
\* index grows.
SharesCovered(m, s) ==
    \A N \in Nat \ {0}, k \in [Users -> Nat] :
        Rated(s, N, k) => Shares(s, k) * m.index <= m.borrowed * N

Snapped == [Users -> Snapshots \cup {NoSnapshot}]

LEMMA SnappedFields ==
    ASSUME NEW s \in Snapped, NEW u \in Users
    PROVE  s[u].principal \in Nat /\ s[u].index \in Nat
           /\ (s[u].principal > 0 => s[u].index \in Nat \ {0})
  BY DEF Snapped, Snapshots, NoSnapshot

LEMMA SharesNat ==
    ASSUME NEW s \in Snapped, NEW k \in [Users -> Nat]
    PROVE  Shares(s, k) \in Nat
<1> DEFINE f == [u \in Users |-> s[u].principal * k[u]]
<1>1. \A u \in Users : f[u] \in Nat
  <2>1. ASSUME NEW u \in Users PROVE s[u].principal * k[u] \in Nat
    BY SnappedFields, ProductNat
  <2> QED BY <2>1
<1>2. DOMAIN f = Users
  OBVIOUS
<1> HIDE DEF f
<1>3. SumFunctionOnSet(f, Users) \in Nat
  BY <1>1, UsersAssumption, SumNat
<1> QED BY <1>2, <1>3 DEF Shares, SumFunction, f

\* Products, one step of reasoning each.
LEMMA GrowthFits ==
    ASSUME NEW x \in Nat, NEW i \in Nat, NEW b \in Nat \ {0}, NEW n \in Nat,
           NEW j \in Nat, NEW g \in Nat, x * i <= b * n, g * b <= i * j
    PROVE  x * (i + g) <= (b + j) * n
<1>1. x * (g * b) <= x * (i * j)
  <2>1. g * b \in Nat /\ i * j \in Nat
    BY ProductNat
  <2>2. (g * b) * x <= (i * j) * x
    BY <2>1, ProductMonotone
  <2> QED BY <2>1, <2>2
<1>2. (x * i) * j <= (b * n) * j
  BY ProductNat, ProductMonotone
<1>3. x * (i * j) = (x * i) * j /\ x * (g * b) = (x * g) * b /\ (b * n) * j = (n * j) * b
  OBVIOUS
<1>4. x * g \in Nat /\ n * j \in Nat /\ x * i \in Nat /\ b * n \in Nat
  BY ProductNat
<1>5. (x * g) * b \in Nat /\ (x * i) * j \in Nat /\ (n * j) * b \in Nat
  BY <1>4, ProductNat
<1>6. (x * g) * b <= (n * j) * b
  BY <1>1, <1>2, <1>3, <1>5
<1>7. x * g <= n * j
  BY <1>4, <1>6, CancelFactor
<1>8. x * (i + g) = x * i + x * g /\ (b + j) * n = b * n + n * j
  OBVIOUS
<1> QED BY <1>4, <1>7, <1>8

\* update_interest: the index grows by no more than the debts.
LEMMA AccruedCovers ==
    ASSUME TypeOK, SharesCovered(market, snapshot), NEW rate \in BorrowRates
    PROVE  SharesCovered(Accrued(rate), snapshot)
<1> DEFINE j == Interest(rate)
           g == IndexGrowth(j)
           b == market.borrowed
           i == market.index
<1>1. /\ j \in Nat /\ b \in Nat /\ i \in Nat
      /\ Accrued(rate).borrowed = b + j /\ market \in Markets /\ snapshot \in Snapped
  BY AccruedType DEF TypeOK, Markets, Snapped
<1>2. Accrued(rate).index = i + g
  BY <1>1 DEF Accrued, Markets
<1> SUFFICES ASSUME NEW N \in Nat \ {0}, NEW k \in [Users -> Nat], Rated(snapshot, N, k)
             PROVE  Shares(snapshot, k) * (i + g) <= (b + j) * N
  BY <1>1, <1>2 DEF SharesCovered
<1> DEFINE x == Shares(snapshot, k)
<1>3. x \in Nat /\ x * i <= b * N
  BY <1>1, SharesNat DEF SharesCovered
<1>4. CASE b = 0
  <2>1. g = 0
    BY <1>4 DEF IndexGrowth
  <2>2. x * (i + g) = 0
    BY <1>1, <1>3, <1>4, <2>1, ProductNat
  <2>3. (b + j) * N \in Nat
    BY <1>1, ProductNat
  <2> QED BY <2>2, <2>3
<1>5. CASE b # 0
  <2>1. g = (i * j) \div b
    BY <1>5 DEF IndexGrowth
  <2>2. g \in Nat /\ g * b <= i * j
    BY <1>1, <1>5, <2>1, DivNat, ProductNat
  <2> HIDE DEF x, i, b, j, g
  <2>3. x * (i + g) <= (b + j) * N
    BY <1>1, <1>3, <1>5, <2>2, GrowthFits
  <2> QED BY <2>3 DEF x
<1> QED BY <1>4, <1>5
\* One user's debt written anew: the total moves by as much as the rounded debt, and what
\* the rounding drops is not lost to the others.
Written(u, d, m, n, t) ==
    /\ t = [snapshot EXCEPT ![u] = [principal |-> d, index |-> m.index]]
    /\ n.index = m.index
    /\ n.borrowed + Debt(u, m) = m.borrowed + d

\* The others' shares and u's rounded debt fit under the total.
LEMMA OthersFit ==
    ASSUME TypeOK, NEW m \in Markets, SharesCovered(m, snapshot), NEW u \in Users,
           NEW N \in Nat \ {0}, NEW k \in [Users -> Nat],
           \A v \in Users \ {u} : snapshot[v].principal > 0 => snapshot[v].index * k[v] = N,
           NEW R \in Nat,
           R = SumFunctionOnSet([v \in Users |-> snapshot[v].principal * k[v]], Users \ {u})
    PROVE  R * m.index + Debt(u, m) * N <= m.borrowed * N
<1> DEFINE p == snapshot[u].principal
           i == snapshot[u].index
           f == [v \in Users |-> snapshot[v].principal * k[v]]
<1>1. /\ snapshot \in Snapped /\ m.index \in Nat \ {0} /\ m.borrowed \in Nat
      /\ p \in Nat /\ i \in Nat
  BY SnappedFields DEF TypeOK, Markets, Snapped
<1>2. CASE p = 0
  <2>1. Debt(u, m) = 0
    BY <1>2 DEF Debt
  <2>2. Rated(snapshot, N, k)
    BY <1>2 DEF Rated
  <2>3. Shares(snapshot, k) = R
    <3>1. DOMAIN f = Users /\ f[u] = 0
      BY <1>1, <1>2
    <3>2. \A v \in Users : f[v] \in Int
      BY <1>1, SnappedFields, ProductNat
    <3> HIDE DEF f
    <3>3. SumFunctionOnSet(f, Users) = f[u] + SumFunctionOnSet(f, Users \ {u})
      BY <3>2, UsersAssumption, SumRemove
    <3> QED BY <3>1, <3>3 DEF Shares, SumFunction, f
  <2>4. R * m.index <= m.borrowed * N
    BY <2>2, <2>3 DEF SharesCovered
  <2>5. R * m.index \in Nat
    BY <1>1, ProductNat
  <2> QED BY <1>1, <2>1, <2>4, <2>5
<1>3. CASE p > 0
  <2> DEFINE h == [v \in Users |-> IF v = u THEN N ELSE k[v] * i]
             M == N * i
             g == [v \in Users |-> snapshot[v].principal * h[v]]
             d == Debt(u, m)
  <2>1. i \in Nat \ {0} /\ M \in Nat \ {0}
    BY <1>1, <1>3, SnappedFields
  <2>2. h \in [Users -> Nat]
    BY <1>1, ProductNat
  <2>3. Rated(snapshot, M, h)
    <3>1. ASSUME NEW v \in Users, snapshot[v].principal > 0 PROVE snapshot[v].index * h[v] = M
      <4>1. CASE v = u
        BY <1>1, <4>1
      <4>2. CASE v # u
        <5>1. snapshot[v].index * k[v] = N /\ snapshot[v].index \in Nat /\ k[v] \in Nat
          BY <1>1, <3>1, <4>2, SnappedFields
        <5>2. ASSUME NEW a \in Nat, NEW c \in Nat PROVE a * (c * i) = (a * c) * i
          BY <1>1
        <5> QED BY <4>2, <5>1, <5>2
      <4> QED BY <4>1, <4>2
    <3> QED BY <3>1 DEF Rated
  <2>4. Shares(snapshot, h) = p * N + R * i
    <3>1. \A v \in Users : f[v] \in Int /\ g[v] \in Int
      <4>1. ASSUME NEW v \in Users PROVE f[v] \in Nat /\ g[v] \in Nat
        BY <1>1, <2>2, SnappedFields, ProductNat
      <4> QED BY <4>1
    <3>2. \A v \in Users \ {u} : g[v] = i * f[v]
      <4>1. ASSUME NEW v \in Users \ {u}
            PROVE  snapshot[v].principal * (k[v] * i) = i * (snapshot[v].principal * k[v])
        BY <1>1, SnappedFields
      <4> QED BY <4>1
    <3>3. DOMAIN g = Users /\ g[u] = p * N
      OBVIOUS
    <3>4. IsFiniteSet(Users \ {u})
      BY UsersAssumption, FS_RemoveElement
    <3> HIDE DEF f, g
    <3>5. SumFunctionOnSet(g, Users) = g[u] + SumFunctionOnSet(g, Users \ {u})
      BY <3>1, UsersAssumption, SumRemove
    <3>6. SumFunctionOnSet(g, Users \ {u}) = i * SumFunctionOnSet(f, Users \ {u})
      BY <1>1, <3>1, <3>2, <3>4, SumTimes
    <3>7. SumFunctionOnSet(f, Users \ {u}) = R
      BY DEF f
    <3>8. Shares(snapshot, h) = SumFunctionOnSet(g, Users)
      BY <3>3 DEF Shares, SumFunction, g
    <3> QED BY <1>1, <3>3, <3>5, <3>6, <3>7, <3>8
  <2> HIDE DEF h, M
  <2>5. (p * N + R * i) * m.index <= m.borrowed * M
    BY <2>1, <2>2, <2>3, <2>4 DEF SharesCovered
  <2>6. d \in Nat /\ d * i <= p * m.index
    <3>1. d = (p * m.index) \div i
      BY <1>3 DEF Debt
    <3>2. p * m.index \in Nat
      BY <1>1, ProductNat
    <3> HIDE DEF p, i, d
    <3> QED BY <2>1, <3>1, <3>2, DivNat
  <2> DEFINE c == m.index
             b == m.borrowed
  <2>7. c \in Nat /\ b \in Nat /\ (p * N + R * i) * c <= b * (N * i)
    BY <1>1, <2>5 DEF M
  <2> HIDE DEF p, i, d, c, b
  <2>8. (d * i) * N <= (p * c) * N
    BY <1>1, <2>6, <2>7, ProductNat, ProductMonotone DEF c
  <2>9. (R * c + d * N) * i <= (b * N) * i
    <3>1. (R * c + d * N) * i = (R * i) * c + (d * i) * N
      BY <1>1, <2>6, <2>7
    <3>2. (p * N + R * i) * c = (p * c) * N + (R * i) * c
      BY <1>1, <2>6, <2>7
    <3>3. b * (N * i) = (b * N) * i
      BY <1>1, <2>7
    <3>4. (R * i) * c \in Nat /\ (d * i) * N \in Nat /\ (p * c) * N \in Nat /\ (b * N) * i \in Nat
      BY <1>1, <2>6, <2>7, ProductNat
    <3> QED BY <2>7, <2>8, <3>1, <3>2, <3>3, <3>4
  <2>10. R * c + d * N \in Nat /\ b * N \in Nat
    BY <2>6, <2>7, ProductNat
  <2>11. R * c + d * N <= b * N
    BY <2>1, <2>9, <2>10, CancelFactor
  <2> QED BY <2>11 DEF c, d, b
<1> QED BY <1>1, <1>2, <1>3
LEMMA WrittenCovers ==
    ASSUME TypeOK, NEW m \in Markets, SharesCovered(m, snapshot), NEW u \in Users,
           NEW d \in Nat, NEW n \in Markets, NEW t, Written(u, d, m, n, t)
    PROVE  SharesCovered(n, t)
<1> SUFFICES ASSUME NEW N \in Nat \ {0}, NEW k \in [Users -> Nat], Rated(t, N, k)
             PROVE  Shares(t, k) * n.index <= n.borrowed * N
  BY DEF SharesCovered
<1> DEFINE f == [v \in Users |-> snapshot[v].principal * k[v]]
           g == [v \in Users |-> t[v].principal * k[v]]
           R == SumFunctionOnSet(f, Users \ {u})
           i == m.index
           e == Debt(u, m)
<1>1. /\ snapshot \in Snapped /\ m.index \in Nat \ {0} /\ e \in Nat
      /\ m.borrowed \in Nat /\ n.borrowed \in Nat /\ k[u] \in Nat
  BY DebtNat DEF TypeOK, Markets, Snapped
<1>2. /\ t[u] = [principal |-> d, index |-> i] /\ \A v \in Users \ {u} : t[v] = snapshot[v]
      /\ n.index = i /\ n.borrowed + e = m.borrowed + d
  BY <1>1 DEF Written, Snapped
<1>3. \A v \in Users : f[v] \in Nat
  <2>1. ASSUME NEW v \in Users PROVE f[v] \in Nat
    BY <1>1, SnappedFields, ProductNat
  <2> QED BY <2>1
<1>4. IsFiniteSet(Users \ {u})
  BY UsersAssumption, FS_RemoveElement
<1>5. R \in Nat
  <2> HIDE DEF f
  <2> QED BY <1>3, <1>4, SumNat
<1>6. R * i + e * N <= m.borrowed * N
  <2>1. \A v \in Users \ {u} : snapshot[v].principal > 0 => snapshot[v].index * k[v] = N
    BY <1>2 DEF Rated
  <2> QED BY <1>5, <2>1, OthersFit
<1>7. Shares(t, k) = d * k[u] + R
  <2>1. /\ DOMAIN g = Users /\ g[u] = d * k[u] /\ d * k[u] \in Nat
        /\ \A v \in Users \ {u} : g[v] = f[v]
    BY <1>1, <1>2, ProductNat
  <2>2. Shares(t, k) = SumFunctionOnSet(g, Users)
    BY <2>1 DEF Shares, SumFunction
  <2> HIDE DEF f, g
  <2>3. SumFunctionOnSet(g, Users) = g[u] + SumFunctionOnSet(g, Users \ {u})
    BY <1>3, <2>1, UsersAssumption, SumRemove
  <2>4. SumFunctionOnSet(g, Users \ {u}) = R
    BY <1>3, <1>4, <2>1, SumSame
  <2> QED BY <2>1, <2>2, <2>3, <2>4
<1>8. (d * k[u]) * i = d * N
  <2>1. CASE d = 0
    BY <1>1, <2>1
  <2>2. CASE d # 0
    <3>1. i * k[u] = N
      BY <1>2, <2>2 DEF Rated
    <3>2. ASSUME NEW a \in Nat, NEW c \in Nat PROVE (d * a) * c = d * (c * a)
      OBVIOUS
    <3> QED BY <1>1, <3>1, <3>2
  <2> QED BY <2>1, <2>2
<1> DEFINE q == d * k[u]
           b == m.borrowed
           c == n.borrowed
<1>9. (q + R) * i <= c * N
  <2>1. q \in Nat /\ b \in Nat /\ c \in Nat /\ c + e = b + d /\ i \in Nat /\ q * i = d * N
        /\ R * i + e * N <= b * N
    BY <1>1, <1>2, <1>6, <1>8, ProductNat
  <2> HIDE DEF q, b, c, e, i, R
  <2>2. (q + R) * i = q * i + R * i /\ (c + e) * N = c * N + e * N /\ (b + d) * N = b * N + d * N
    BY <1>1, <1>5, <2>1
  <2>3. R * i \in Nat /\ e * N \in Nat /\ c * N \in Nat /\ d * N \in Nat /\ b * N \in Nat
        /\ q * i \in Nat
    BY <1>1, <1>5, <2>1, ProductNat
  <2>4. c * N + e * N = b * N + d * N
    BY <2>1, <2>2
  <2> QED BY <2>1, <2>2, <2>3, <2>4
<1> QED BY <1>2, <1>7, <1>9

\* A step that posts to m leaves the debts alone, or writes one of them anew.
Settles(m) ==
    \/ /\ market'.index = m.index /\ market'.borrowed = m.borrowed
       /\ snapshot' = snapshot
    \/ \E u \in Users, d \in Nat : Written(u, d, m, market', snapshot')

LEMMA BorrowSettles ==
    ASSUME TypeOK, NEW u \in Users, NEW n \in Amounts, Borrow(u, n)
    PROVE  \E m \in Bases : Settles(m)
<1>1. PICK m \in Bases : /\ market'.index = m.index /\ market'.borrowed = m.borrowed + n
                         /\ WriteSnapshot(u, Debt(u, m) + n, m)
  BY BorrowPosting
<1>2. n \in Nat /\ m \in Markets /\ Debt(u, m) \in Nat /\ m.borrowed \in Nat
  BY ParameterAssumption, AccruedType, DebtNat DEF TypeOK, Bases, Markets
<1>3. Written(u, Debt(u, m) + n, m, market', snapshot')
  BY <1>1, <1>2 DEF Written, WriteSnapshot
<1> QED BY <1>2, <1>3 DEF Settles

LEMMA RepaySettles ==
    ASSUME TypeOK, NEW u \in Users, NEW n \in Amounts, RepayDebt(u, n)
    PROVE  \E m \in Bases : Settles(m)
<1>1. PICK m \in Bases : /\ market'.index = m.index
                         /\ market'.borrowed = m.borrowed - Payment(u, n, m)
                         /\ WriteSnapshot(u, Debt(u, m) - Payment(u, n, m), m)
  BY RepayPosting
<1>2. n \in Nat /\ m \in Markets /\ Debt(u, m) \in Nat /\ m.borrowed \in Nat
  BY ParameterAssumption, AccruedType, DebtNat DEF TypeOK, Bases, Markets
<1>3. Payment(u, n, m) \in Nat /\ Payment(u, n, m) <= Debt(u, m)
  BY <1>2, PaymentNat
<1>4. Written(u, Debt(u, m) - Payment(u, n, m), m, market', snapshot')
  BY <1>1, <1>2, <1>3 DEF Written, WriteSnapshot
<1> QED BY <1>2, <1>3, <1>4 DEF Settles

LEMMA NextSettles ==
    ASSUME TypeOK, [Next]_vars
    PROVE  \E m \in Bases : Settles(m)
<1>1. market \in Markets /\ market \in Bases /\ \A rate \in BorrowRates : Accrued(rate) \in Bases
  BY DEF TypeOK, Bases
<1>2. ASSUME NEW m \in Bases, market' = m, snapshot' = snapshot PROVE Settles(m)
  BY <1>2 DEF Settles
<1>3. ASSUME NEW u \in Users, RepayNothing(u) PROVE \E m \in Bases : Settles(m)
  BY <1>1, <1>2, <1>3 DEF RepayNothing
<1>4. ASSUME NEW u \in Users, NEW n \in Amounts, Deposit(u, n) PROVE \E m \in Bases : Settles(m)
  <2>1. snapshot' = snapshot
    BY <1>4 DEF Deposit
  <2> QED BY <1>4, <2>1, DepositPosting DEF Settles
<1>5. ASSUME NEW u \in Users, NEW n \in PTokenAmounts, Withdraw(u, n)
      PROVE  \E m \in Bases : Settles(m)
  <2>1. snapshot' = snapshot
    BY <1>5 DEF Withdraw
  <2> QED BY <1>5, <2>1, WithdrawPosting DEF Settles
<1>6. ASSUME NEW a \in Users, NEW b \in Users, NEW n \in PTokenAmounts, Transfer(a, b, n)
      PROVE  \E m \in Bases : Settles(m)
  BY <1>1, <1>2, <1>6 DEF Transfer
<1>7. ASSUME NEW u \in Users, UserStep(u) PROVE \E m \in Bases : Settles(m)
  BY <1>3, <1>4, <1>5, <1>6, <1>7, BorrowSettles, RepaySettles DEF UserStep, Repay
<1>8. ASSUME NEW u \in Users, LiquidationStep(u) PROVE \E m \in Bases : Settles(m)
  BY <1>1, <1>2, <1>3, <1>8, RepaySettles DEF LiquidationStep, RepayOnBehalf, Seize
<1>9. ASSUME NEW n \in FlashAmounts, NEW extra \in Extras, FlashLoan(n, extra)
      PROVE  \E m \in Bases : Settles(m)
  <2>1. snapshot' = snapshot
    BY <1>9 DEF FlashLoan
  <2> QED BY <1>9, <2>1, FlashPosting DEF Settles
<1>10. CASE UpdateInterest
  BY <1>1, <1>2, <1>10 DEF UpdateInterest
<1>11. CASE AdminStep
  <2>1. snapshot' = snapshot
    BY <1>11 DEF AdminStep, ReduceReserves, ReduceAdminFees, SetReserveFactor, SetAdminFee,
       SetFlashLoanFee,
       SetCollateralFactor, SetSupplyCap, SetBorrowCap, EnableRates, SetPeridottroller, Configure
  <2>2. CASE market' = market
    BY <1>1, <1>2, <2>1, <2>2
  <2>3. ASSUME NEW n \in Amounts, ReduceReserves(n) \/ ReduceAdminFees(n)
        PROVE  Settles(market)
    BY <2>1, <2>3, ReducePosting DEF Settles
  <2> QED BY <1>1, <1>11, <2>2, <2>3 DEF AdminStep, SetReserveFactor, SetAdminFee,
             SetFlashLoanFee,
             SetCollateralFactor, SetSupplyCap, SetBorrowCap, EnableRates, SetPeridottroller, Configure
<1>12. CASE Tick \/ Donate
  <2>1. snapshot' = snapshot /\ market'.index = market.index /\ market'.borrowed = market.borrowed
    BY <1>1, <1>12 DEF Tick, Donate, Markets
  <2> QED BY <1>1, <2>1 DEF Settles
<1>13. CASE UNCHANGED vars \/ \E u \in Users : OtherMarketsMove(u)
  BY <1>1, <1>2, <1>13 DEF vars, OtherMarketsMove
<1> QED BY <1>7, <1>8, <1>9, <1>10, <1>11, <1>12, <1>13 DEF Next

\* Finitely many indexes have a common multiple.
LEMMA CommonMultiple ==
    ASSUME NEW s \in Snapped
    PROVE  \E N \in Nat \ {0}, k \in [Users -> Nat] : Rated(s, N, k)
<1> DEFINE RatedOn(T, N, k) == \A u \in T : s[u].principal > 0 => s[u].index * k[u] = N
           G == {T \in SUBSET Users :
                   \E N \in Nat \ {0}, k \in [Users -> Nat] : RatedOn(T, N, k)}
<1>1. {} \in G
  <2>1. 1 \in Nat \ {0} /\ [u \in Users |-> 0] \in [Users -> Nat]
    OBVIOUS
  <2> QED BY <2>1
<1>2. ASSUME NEW T \in SUBSET Users, NEW x \in Users \ T, T \in G PROVE T \cup {x} \in G
  <2>1. PICK N \in Nat \ {0}, k \in [Users -> Nat] : RatedOn(T, N, k)
    BY <1>2
  <2>2. CASE s[x].principal = 0
    <3>1. RatedOn(T \cup {x}, N, k)
      BY <2>1, <2>2
    <3> QED BY <3>1
  <2>3. CASE s[x].principal # 0
    <3> DEFINE i == s[x].index
               h == [u \in Users |-> IF u = x THEN N ELSE k[u] * i]
    <3>1. i \in Nat \ {0} /\ N * i \in Nat \ {0}
      BY <2>3, SnappedFields
    <3>2. h \in [Users -> Nat]
      BY <3>1, ProductNat
    <3>3. ASSUME NEW u \in T \cup {x}, s[u].principal > 0 PROVE s[u].index * h[u] = N * i
      <4>1. CASE u = x
        BY <3>1, <4>1
      <4>2. CASE u # x
        <5>1. s[u].index * k[u] = N /\ s[u].index \in Nat /\ k[u] \in Nat /\ h[u] = k[u] * i
          BY <2>1, <3>3, <4>2, SnappedFields
        <5>2. ASSUME NEW a \in Nat, NEW c \in Nat PROVE a * (c * i) = (a * c) * i
          BY <3>1
        <5> QED BY <5>1, <5>2
      <4> QED BY <4>1, <4>2
    <3> HIDE DEF h, i
    <3>4. RatedOn(T \cup {x}, N * i, h)
      BY <3>3
    <3> QED BY <3>1, <3>2, <3>4
  <2>4. s[x].principal \in Nat
    BY SnappedFields
  <2> QED BY <2>2, <2>3
<1>3. Users \in G
  <2> HIDE DEF G
  <2> QED BY <1>1, <1>2, UsersAssumption, SetInduction
<1> QED BY <1>3 DEF Rated

\* Rounding each debt down only helps.
LEMMA SharesCoverDebts == ASSUME TypeOK, SharesCovered(market, snapshot) PROVE DebtsCovered
<1>1. /\ snapshot \in Snapped /\ market \in Markets
      /\ market.index \in Nat \ {0} /\ market.borrowed \in Nat
  BY DEF TypeOK, Markets, Snapped
<1>2. PICK N \in Nat \ {0}, k \in [Users -> Nat] : Rated(snapshot, N, k)
  BY <1>1, CommonMultiple
<1> DEFINE i == market.index
           f == [u \in Users |-> Debt(u, market)]
           g == [u \in Users |-> snapshot[u].principal * k[u]]
           fn == [u \in Users |-> N * f[u]]
           gi == [u \in Users |-> i * g[u]]
<1>3. ASSUME NEW u \in Users
      PROVE  f[u] \in Nat /\ g[u] \in Nat /\ fn[u] \in Nat /\ gi[u] \in Nat /\ fn[u] <= gi[u]
  <2> DEFINE p == snapshot[u].principal
             j == snapshot[u].index
             d == Debt(u, market)
  <2>1. p \in Nat /\ j \in Nat /\ k[u] \in Nat /\ d \in Nat /\ i \in Nat
    BY <1>1, SnappedFields, DebtNat
  <2>2. p * k[u] \in Nat /\ N * d \in Nat /\ i * (p * k[u]) \in Nat
    BY <2>1, ProductNat
  <2>3. CASE p = 0
    <3>1. d = 0
      BY <2>3 DEF Debt
    <3>2. N * d = 0
      BY <3>1
    <3> QED BY <2>1, <2>2, <3>2
  <2>4. CASE p # 0
    <3>1. j \in Nat \ {0} /\ j * k[u] = N
      BY <1>1, <1>2, <2>1, <2>4, SnappedFields DEF Rated
    <3>2. d = (p * i) \div j
      BY <2>4 DEF Debt
    <3> HIDE DEF p, j, d, i
    <3>3. d * j <= p * i /\ p * i \in Nat /\ d * j \in Nat
      BY <2>1, <3>1, <3>2, ProductNat, DivNat
    <3>4. (d * j) * k[u] <= (p * i) * k[u]
      BY <2>1, <3>3, ProductMonotone
    <3>5. ASSUME NEW c \in Nat PROVE (d * j) * c = (j * c) * d /\ (p * i) * c = i * (p * c)
      BY <2>1
    <3>6. N * d <= i * (p * k[u])
      BY <2>1, <3>1, <3>4, <3>5
    <3> QED BY <2>1, <2>2, <3>6 DEF p, d
  <2> QED BY <2>3, <2>4
<1>4. DOMAIN f = Users /\ DOMAIN g = Users
      /\ (\A u \in Users : fn[u] = N * f[u]) /\ (\A u \in Users : gi[u] = i * g[u])
  OBVIOUS
<1> HIDE DEF f, g, fn, gi
<1> DEFINE F == SumFunctionOnSet(f, Users)
           H == SumFunctionOnSet(g, Users)
<1>5. F \in Nat /\ H \in Nat
  BY <1>3, UsersAssumption, SumNat
<1>6. SumFunctionOnSet(fn, Users) <= SumFunctionOnSet(gi, Users)
  BY <1>3, UsersAssumption, SumMonotone
<1>7. SumFunctionOnSet(fn, Users) = N * F
  BY <1>3, <1>4, UsersAssumption, SumTimes
<1>8. SumFunctionOnSet(gi, Users) = i * H
  BY <1>1, <1>3, <1>4, UsersAssumption, SumTimes
<1>9. Shares(snapshot, k) = H
  BY <1>4 DEF Shares, SumFunction, g
<1>10. H * i <= market.borrowed * N
  BY <1>2, <1>9 DEF SharesCovered
<1>11. F <= market.borrowed
  <2> HIDE DEF F, H, i
  <2>1. i \in Nat
    BY <1>1 DEF i
  <2>2. F * N <= market.borrowed * N
    <3>1. N * F = F * N /\ H * i = i * H
      BY <1>5, <2>1
    <3>2. F * N \in Nat /\ i * H \in Nat /\ market.borrowed * N \in Nat
      BY <1>1, <1>5, <2>1, ProductNat
    <3> QED BY <1>6, <1>7, <1>8, <1>10, <3>1, <3>2
  <2> QED BY <1>1, <1>5, <2>2, CancelFactor
<1> QED BY <1>4, <1>11 DEF DebtsCovered, SumFunction, f

\* A vault just initialised owes nothing.
LEMMA InitShares == ASSUME Init PROVE SharesCovered(market, snapshot)
<1> SUFFICES ASSUME NEW N \in Nat \ {0}, NEW k \in [Users -> Nat]
             PROVE  Shares(snapshot, k) * market.index <= market.borrowed * N
  BY DEF SharesCovered
<1> DEFINE f == [u \in Users |-> snapshot[u].principal * k[u]]
<1>1. DOMAIN f = Users /\ \A u \in Users : f[u] = 0
  BY DEF Init, NoSnapshot
<1> HIDE DEF f
<1>2. SumFunctionOnSet(f, Users) = 0
  BY <1>1, UsersAssumption, SumZero
<1>3. Shares(snapshot, k) = 0
  BY <1>1, <1>2 DEF Shares, SumFunction, f
<1>4. market.index \in Nat /\ market.borrowed = 0
  BY ScaleAssumption DEF Init
<1> QED BY <1>3, <1>4

LEMMA NextShares ==
    ASSUME TypeOK, TypeOK', SharesCovered(market, snapshot), [Next]_vars
    PROVE  SharesCovered(market, snapshot)'
<1>1. PICK m \in Bases : Settles(m)
  BY NextSettles
<1>2. m \in Markets /\ market' \in Markets
  BY AccruedType DEF TypeOK, Bases
<1>3. SharesCovered(m, snapshot)
  BY AccruedCovers DEF Bases
<1>4. CASE /\ market'.index = m.index /\ market'.borrowed = m.borrowed
           /\ snapshot' = snapshot
  BY <1>3, <1>4 DEF SharesCovered
<1>5. ASSUME NEW u \in Users, NEW d \in Nat, Written(u, d, m, market', snapshot')
      PROVE  SharesCovered(market', snapshot')
  BY <1>2, <1>3, <1>5, WrittenCovers
<1> QED BY <1>1, <1>4, <1>5 DEF Settles

\* However the roundings of debts and index fall, over any number of borrowers, loans and
\* accruals, what the borrowers owe together never exceeds TotalBorrowed: the checked
\* subtraction of repay ("repay exceeds total borrowed") never locks one in his debt.
THEOREM DebtsStayCovered == Spec => []DebtsCovered
<1>1. Init => SharesCovered(market, snapshot)
  BY InitShares
<1>2. TypeOK /\ TypeOK' /\ SharesCovered(market, snapshot) /\ [Next]_vars
        => SharesCovered(market, snapshot)'
  BY NextShares
<1>3. TypeOK /\ SharesCovered(market, snapshot) => DebtsCovered
  BY SharesCoverDebts
<1> QED BY <1>1, <1>2, <1>3, TypeCorrect, PTL DEF Spec

-----------------------------------------------------------------------------
(* The interest rate model *)

CONSTANTS MaxParam

Model == INSTANCE JumpRateModel

Steepest(p) == IF p.multiplier >= p.jump THEN p.multiplier ELSE p.jump

-----------------------------------------------------------------------------
(* The rate *)

LEMMA SlopeType ==
    ASSUME NEW n \in Nat, NEW r \in Nat
    PROVE  Model!Slope(n, r) \in Nat /\ Model!Slope(n, r) * Scale <= n * r
  BY DivNat, ProductNat, ScaleAssumption DEF Model!Slope

LEMMA SlopeMonotone ==
    ASSUME NEW n \in Nat, NEW k \in Nat, NEW r \in Nat, n <= k
    PROVE  Model!Slope(n, r) <= Model!Slope(k, r)
<1>1. n * r \in Nat /\ k * r \in Nat /\ n * r <= k * r
  BY ProductNat, ProductMonotone
<1> QED BY <1>1, DivMonotone, ScaleAssumption DEF Model!Slope

\* No part of an asset pool is lent more than once: utilization is a fraction of the scale.
LEMMA UtilizationType ==
    ASSUME NEW c \in Nat, NEW b \in Nat, NEW r \in Nat, Model!Answers(c, b, r)
    PROVE  Model!Utilization(c, b, r) \in 0..Scale
<1>1. CASE b = 0 \/ c + b = r
  BY <1>1, ScaleAssumption DEF Model!Utilization
<1>2. CASE ~(b = 0 \/ c + b = r)
  <2>1. c + b - r \in Nat \ {0}
    BY <1>2 DEF Model!Answers
  <2>2. (b * Scale) \div (c + b - r) \in Nat
    BY <2>1, DivNat, ProductNat, ScaleAssumption
  <2> QED BY <1>2, <2>2, ScaleAssumption DEF Model!Utilization, Model!Least
<1> QED BY <1>1, <1>2

\* More of the pool lent never makes a loan cheaper, also where the slope changes at the
\* kink and each stretch is rounded by itself (get_borrow_rate).
THEOREM RateRisesWithUse ==
    ASSUME NEW p \in Model!Params, NEW u \in 0..Scale, NEW v \in 0..Scale, u <= v
    PROVE  Model!RateAt(p, u) <= Model!RateAt(p, v)
<1>1. /\ p.base \in Nat /\ p.multiplier \in Nat /\ p.jump \in Nat /\ p.kink \in Nat
      /\ u \in Nat /\ v \in Nat
  BY ScaleAssumption DEF Model!Params
<1>2. CASE v <= p.kink
  <2>1. Model!Slope(u, p.multiplier) <= Model!Slope(v, p.multiplier)
    BY <1>1, SlopeMonotone
  <2>2. Model!Slope(u, p.multiplier) \in Nat /\ Model!Slope(v, p.multiplier) \in Nat
    BY <1>1, SlopeType
  <2> QED BY <1>1, <1>2, <2>1, <2>2 DEF Model!RateAt
<1>3. CASE u <= p.kink /\ v > p.kink
  <2>1. Model!Slope(u, p.multiplier) <= Model!Slope(p.kink, p.multiplier)
    BY <1>1, <1>3, SlopeMonotone
  <2>2. /\ Model!Slope(u, p.multiplier) \in Nat /\ Model!Slope(p.kink, p.multiplier) \in Nat
    BY <1>1, SlopeType
  <2>3. v - p.kink \in Nat
    BY <1>1, <1>3
  <2>4. Model!Slope(v - p.kink, p.jump) \in Nat
    BY <1>1, <2>3, SlopeType
  <2> QED BY <1>1, <1>3, <2>1, <2>2, <2>4 DEF Model!RateAt
<1>4. CASE u > p.kink
  <2>1. u - p.kink \in Nat /\ v - p.kink \in Nat /\ u - p.kink <= v - p.kink
    BY <1>1, <1>4
  <2>2. Model!Slope(u - p.kink, p.jump) <= Model!Slope(v - p.kink, p.jump)
    BY <1>1, <2>1, SlopeMonotone
  <2>3. /\ Model!Slope(p.kink, p.multiplier) \in Nat
        /\ Model!Slope(u - p.kink, p.jump) \in Nat /\ Model!Slope(v - p.kink, p.jump) \in Nat
    BY <1>1, <2>1, SlopeType
  <2> QED BY <1>1, <1>4, <2>2, <2>3 DEF Model!RateAt
<1> QED BY <1>1, <1>2, <1>3, <1>4

\* The two stretches together charge no more than the whole at the steeper slope.
LEMMA StretchesFit ==
    ASSUME NEW n \in Nat, NEW k \in Nat, NEW m \in Nat, NEW j \in Nat, NEW s \in Nat,
           n + k <= Scale, m <= s, j <= s
    PROVE  Model!Slope(n, m) + Model!Slope(k, j) <= s
<1> DEFINE x == Model!Slope(n, m)
           y == Model!Slope(k, j)
<1>1. x \in Nat /\ y \in Nat /\ x * Scale <= n * m /\ y * Scale <= k * j
  BY SlopeType
<1>2. n * m <= n * s /\ k * j <= k * s
  BY ProductMonotone
<1>3. n * s + k * s = (n + k) * s /\ (n + k) * s <= Scale * s
  BY ProductMonotone, ScaleAssumption
<1>4. (x + y) * Scale = x * Scale + y * Scale
  BY <1>1, ScaleAssumption
<1> HIDE DEF x, y
<1>5. (x + y) * Scale <= s * Scale
  BY <1>1, <1>2, <1>3, <1>4, ProductNat, ScaleAssumption
<1> QED BY <1>1, <1>5, CancelFactor, ScaleAssumption DEF x, y

\* A model whose base rate and steeper slope stay together within a limit stays within it at
\* every utilization. The vault's accrual panics beyond MAX_YEARLY_RATE_SCALED; set_params
\* bounds the parameters one by one and so allows twice that limit.
THEOREM RateWithinLimit ==
    ASSUME NEW p \in Model!Params, NEW limit \in Nat, p.base + Steepest(p) <= limit,
           NEW c \in Nat, NEW b \in Nat, NEW r \in Nat, Model!Answers(c, b, r)
    PROVE  Model!BorrowRate(p, c, b, r) \in 0..limit
<1> DEFINE u == Model!Utilization(c, b, r)
           s == Steepest(p)
<1>1. /\ p.base \in Nat /\ p.multiplier \in Nat /\ p.jump \in Nat /\ p.kink \in Nat
      /\ p.kink <= Scale /\ s \in Nat /\ p.multiplier <= s /\ p.jump <= s
  BY ScaleAssumption DEF Model!Params, Steepest
<1>2. u \in Nat /\ u <= Scale
  BY UtilizationType, ScaleAssumption
<1>3. p.base + s <= limit
  OBVIOUS
<1> HIDE DEF u, s
<1>4. CASE u <= p.kink
  <2>1. Model!Slope(u, p.multiplier) \in Nat /\ Model!Slope(0, p.jump) \in Nat
    BY <1>1, <1>2, SlopeType
  <2>2. Model!Slope(u, p.multiplier) + Model!Slope(0, p.jump) <= s
    BY <1>1, <1>2, StretchesFit
  <2>3. Model!RateAt(p, u) = p.base + Model!Slope(u, p.multiplier)
    BY <1>4 DEF Model!RateAt
  <2> QED BY <1>1, <1>3, <2>1, <2>2, <2>3 DEF Model!BorrowRate, u
<1>5. CASE u > p.kink
  <2>1. u - p.kink \in Nat
    BY <1>1, <1>2, <1>5
  <2>2. Model!Slope(p.kink, p.multiplier) \in Nat /\ Model!Slope(u - p.kink, p.jump) \in Nat
    BY <1>1, <2>1, SlopeType
  <2>3. Model!Slope(p.kink, p.multiplier) + Model!Slope(u - p.kink, p.jump) <= s
    BY <1>1, <1>2, <2>1, StretchesFit
  <2>4. Model!RateAt(p, u)
            = p.base + Model!Slope(p.kink, p.multiplier) + Model!Slope(u - p.kink, p.jump)
    BY <1>1, <1>2, <1>5 DEF Model!RateAt
  <2> QED BY <1>1, <1>3, <2>2, <2>3, <2>4 DEF Model!BorrowRate, u
<1> QED BY <1>1, <1>2, <1>4, <1>5

LEMMA BorrowRateType ==
    ASSUME NEW p \in Model!Params, NEW c \in Nat, NEW b \in Nat, NEW r \in Nat,
           Model!Answers(c, b, r)
    PROVE  Model!BorrowRate(p, c, b, r) \in Nat
<1> DEFINE limit == p.base + Steepest(p)
<1>1. limit \in Nat
  BY ScaleAssumption DEF Model!Params, Steepest
<1>2. p.base + Steepest(p) <= limit
  BY <1>1
<1> HIDE DEF limit
<1> QED BY <1>1, <1>2, RateWithinLimit

\* What suppliers are told they earn on the pool is no more than what borrowers pay on the
\* loans: the roundings of get_supply_rate never promise interest nobody owes.
THEOREM SuppliersEarnWhatIsPaid ==
    ASSUME NEW p \in Model!Params, NEW c \in Nat, NEW b \in Nat, NEW r \in Nat,
           Model!Answers(c, b, r), NEW f \in 0..Scale
    PROVE  Model!SupplyRate(p, c, b, r, f) * (c + b - r) <= Model!BorrowRate(p, c, b, r) * b
<1> DEFINE u == Model!Utilization(c, b, r)
           w == Model!BorrowRate(p, c, b, r)
           t == (w * (Scale - f)) \div Scale
           y == (u * t) \div Scale
           d == c + b - r
<1>1. w \in Nat /\ u \in Nat /\ Scale - f \in Nat /\ Scale - f <= Scale
  BY BorrowRateType, UtilizationType, ScaleAssumption
<1>2. Model!SupplyRate(p, c, b, r, f) = y
  BY DEF Model!SupplyRate
<1>3. CASE b = 0 \/ d = 0
  <2>1. u = 0
    BY <1>3, ScaleAssumption DEF Model!Utilization
  <2>2. t \in Nat
    BY <1>1, DivNat, ProductNat, ScaleAssumption
  <2>3. y = 0
    BY <2>1, <2>2, ScaleAssumption
  <2>4. w * b \in Nat /\ d \in Int
    BY <1>1, ProductNat
  <2> QED BY <1>2, <2>3, <2>4
<1>4. CASE b # 0 /\ d # 0
  <2> HIDE DEF w
  <2>1. d \in Nat \ {0}
    BY <1>4 DEF Model!Answers
  <2>2. u * d <= b * Scale
    <3> DEFINE q == (b * Scale) \div d
    <3>1. q \in Nat /\ q * d <= b * Scale
      BY <2>1, DivNat, ProductNat, ScaleAssumption
    <3>2. u <= q
      BY <1>4, <2>1, <3>1, ScaleAssumption DEF Model!Utilization, Model!Least
    <3> HIDE DEF q, u, d
    <3>3. u * d <= q * d
      BY <1>1, <2>1, <3>1, <3>2, ProductMonotone
    <3>4. u * d \in Nat /\ q * d \in Nat /\ b * Scale \in Nat
      BY <1>1, <2>1, <3>1, ProductNat, ScaleAssumption
    <3> QED BY <3>1, <3>3, <3>4
  <2>3. t \in Nat /\ t <= w
    <3> DEFINE k == w * (Scale - f)
    <3>1. k \in Nat /\ k <= w * Scale
      BY <1>1, ProductNat, ScaleAssumption
    <3>2. t \in Nat /\ t * Scale <= k
      BY <3>1, DivNat, ScaleAssumption
    <3> HIDE DEF k, t
    <3>3. t * Scale <= w * Scale
      BY <1>1, <3>1, <3>2, ProductNat, ScaleAssumption
    <3> QED BY <1>1, <3>2, <3>3, CancelFactor, ScaleAssumption
  <2> HIDE DEF u, t, d
  <2>4. y \in Nat /\ y * Scale <= u * t
    BY <1>1, <2>3, DivNat, ProductNat, ScaleAssumption
  <2> HIDE DEF y
  <2>5. (y * d) * Scale <= (w * b) * Scale
    <3>1. (y * Scale) * d <= (u * t) * d
      BY <1>1, <2>1, <2>3, <2>4, ProductNat, ProductMonotone, ScaleAssumption
    <3>2. (u * d) * t <= (b * Scale) * t
      BY <1>1, <2>1, <2>2, <2>3, ProductNat, ProductMonotone, ScaleAssumption
    <3>3. t * (b * Scale) <= w * (b * Scale)
      BY <1>1, <2>3, ProductNat, ProductMonotone, ScaleAssumption
    <3>4. /\ (y * Scale) * d = (y * d) * Scale /\ (u * t) * d = (u * d) * t
          /\ (b * Scale) * t = t * (b * Scale) /\ w * (b * Scale) = (w * b) * Scale
      BY <1>1, <2>1, <2>3, <2>4, ScaleAssumption
    <3>5. /\ (y * d) * Scale \in Nat /\ (u * d) * t \in Nat /\ t * (b * Scale) \in Nat
          /\ (w * b) * Scale \in Nat
      BY <1>1, <2>1, <2>3, <2>4, ProductNat, ScaleAssumption
    <3> QED BY <3>1, <3>2, <3>3, <3>4, <3>5
  <2>6. y * d <= w * b
    BY <1>1, <2>1, <2>4, <2>5, ProductNat, CancelFactor, ScaleAssumption
  <2> QED BY <1>2, <2>6 DEF w, d
<1> QED BY <1>3, <1>4

-----------------------------------------------------------------------------
(* What the vault asks *)

\* update_interest asks with the token balance, the loans, and reserves and fees.
RateAvailable ==
    Model!Answers(market.live, market.borrowed, market.reserves + market.fees)

Answerable(m) == m.reserves + m.fees <= m.live + m.borrowed

LEMMA PostingAnswerable ==
    ASSUME NEW m \in Markets, Backed(m), Answerable(m), Posting(m), market' \in Markets
    PROVE  Answerable(market')
<1>1. /\ m.cash \in Nat /\ m.borrowed \in Nat /\ m.reserves \in Nat /\ m.fees \in Nat
      /\ m.live \in Nat /\ m.reserves + m.fees <= m.live + m.borrowed
  BY DEF Markets, Answerable
<1>2. CASE Claimed(m)
  <2>1. Claimed(market') /\ ManagedCashBacked'
    BY <1>2, PostingClaimed, PostingBacked
  <2>2. /\ market'.cash \in Nat /\ market'.borrowed \in Nat /\ market'.reserves \in Nat
        /\ market'.fees \in Nat /\ market'.live \in Nat
    BY DEF Markets
  <2> QED BY <2>1, <2>2 DEF Claimed, ManagedCashBacked, Answerable
<1>3. CASE ~Claimed(m)
  <2>1. ASSUME NEW n \in Nat, n <= AvailableLiquidity(m) PROVE n = 0
    BY <1>3, <2>1, UnclaimedIsEmpty
  <2>2. CASE Kept(m)
    BY <1>1, <2>2 DEF Kept, Books, Answerable
  <2>3. ASSUME NEW n \in Nat, Deposited(m, n) \/ Repaid(m, n) PROVE Answerable(market')
    BY <1>1, <2>3 DEF Deposited, Repaid, Books, Answerable
  <2>4. ASSUME NEW n \in Nat, Withdrawn(m, n) PROVE Answerable(market')
    <3>1. Underlying(n, m) = 0
      BY <2>1, <2>4, UnderlyingNat DEF Withdrawn
    <3> QED BY <1>1, <2>4, <3>1 DEF Withdrawn, Books, Answerable
  <2>5. ASSUME NEW n \in Nat, Lent(m, n) PROVE Answerable(market')
    BY <1>1, <2>1, <2>5 DEF Lent, Books, Answerable
  <2>6. ASSUME NEW n \in Nat, ReservesPaid(m, n) \/ FeesPaid(m, n) PROVE Answerable(market')
    BY <1>1, <2>6 DEF ReservesPaid, FeesPaid, Books, Answerable
  <2>7. ASSUME NEW n \in Nat, NEW gain \in Nat, Flashed(m, n, gain) PROVE FALSE
    BY <2>1, <2>7 DEF Flashed
  <2> QED BY <2>2, <2>3, <2>4, <2>5, <2>6, <2>7 DEF Posting
<1> QED BY <1>2, <1>3

\* get_utilization answers at once while nothing is owed.
Asked(m) == m.borrowed = 0 \/ Answerable(m)

LEMMA PostingAsked ==
    ASSUME NEW m \in Markets, Backed(m), Asked(m), Posting(m), market' \in Markets
    PROVE  Asked(market')
<1>1. CASE Answerable(m)
  BY <1>1, PostingAnswerable DEF Asked
<1>2. CASE ~Answerable(m)
  <2>1. /\ m.cash \in Nat /\ m.borrowed = 0 /\ m.reserves \in Nat /\ m.fees \in Nat
        /\ m.live \in Nat /\ m.cash <= m.live /\ m.reserves + m.fees > m.live
    BY <1>2 DEF Markets, Backed, Asked, Answerable
  <2>2. ~Claimed(m)
    BY <2>1 DEF Claimed
  <2>3. ASSUME NEW n \in Nat, Lent(m, n) PROVE n = 0
    BY <2>2, <2>3, UnclaimedIsEmpty DEF Lent
  <2>4. market'.borrowed = 0
    BY <2>1, <2>3 DEF Posting, Kept, Deposited, Withdrawn, Lent, Repaid, ReservesPaid,
       FeesPaid, Flashed, Books
  <2> QED BY <2>4 DEF Asked
<1> QED BY <1>1, <1>2

\* The model answers a new vault and, as long as no boosted funds are in play, goes on
\* answering whatever anybody does: it begins to refuse ("reserves exceed total assets",
\* upon which the vault takes the static rate) only in a step under factors above one.
THEOREM ModelAnswersTheVault ==
    Spec => RateAvailable /\ [][RateAvailable /\ FactorsFit => RateAvailable']_vars
<1>1. Init => RateAvailable
  BY DEF Init, RateAvailable, Model!Answers
<1>2. /\ TypeOK => (RateAvailable <=> Asked(market))
      /\ TypeOK' => (RateAvailable' <=> Asked(market'))
  <2>1. ASSUME NEW m \in Markets
        PROVE  Model!Answers(m.live, m.borrowed, m.reserves + m.fees) <=> Asked(m)
    BY DEF Markets, Asked, Answerable, Model!Answers
  <2> QED BY <2>1 DEF TypeOK, RateAvailable, Model!Answers
<1>3. TypeOK /\ TypeOK' /\ ManagedCashBacked /\ [Next]_vars =>
        [RateAvailable /\ FactorsFit => RateAvailable']_vars
  <2> SUFFICES ASSUME TypeOK, TypeOK', ManagedCashBacked, [Next]_vars,
                      Asked(market), FactorsFit
               PROVE  Asked(market')
    BY <1>2
  <2>1. PICK m \in Bases : Posting(m)
    BY NextPosting
  <2>2. m \in Markets /\ market \in Markets /\ market' \in Markets
    BY AccruedType DEF Bases, TypeOK
  <2>3. Backed(m)
    BY AccruedType DEF Bases, Backed, ManagedCashBacked
  <2>4. Asked(m)
    <3>1. CASE m = market
      BY <3>1
    <3>2. ASSUME NEW rate \in BorrowRates, m = Accrued(rate) PROVE Asked(m)
      <4>1. m.live = market.live
        BY <3>2, AccruedType
      <4>2. (m.reserves + m.fees) - (market.reserves + market.fees)
              <= m.borrowed - market.borrowed
        BY <3>2, AccruedClaims
      <4>3. /\ market.live \in Nat /\ market.borrowed \in Nat /\ market.reserves \in Nat
            /\ market.fees \in Nat
            /\ m.borrowed \in Nat /\ m.reserves \in Nat /\ m.fees \in Nat
        BY <2>2 DEF Markets
      <4>4. CASE Answerable(market)
        BY <4>1, <4>2, <4>3, <4>4 DEF Answerable, Asked
      <4>5. CASE market.borrowed = 0
        <5>1. m.borrowed = market.borrowed + Interest(rate)
          BY <3>2, AccruedType
        <5>2. rate \in Nat /\ market.pending \in Nat
          BY <2>2, ParameterAssumption DEF Markets
        <5>3. market.borrowed * rate * market.pending = 0
          BY <4>5, <5>2
        <5>4. Interest(rate) = 0
          BY <5>3, ScaleAssumption DEF Interest
        <5> QED BY <4>5, <5>1, <5>4 DEF Asked
      <4> QED BY <4>4, <4>5 DEF Asked
    <3> QED BY <3>1, <3>2 DEF Bases
  <2> QED BY <2>1, <2>2, <2>3, <2>4, PostingAsked
<1> QED BY <1>1, <1>3, TypeCorrect, CashBacked, PTL DEF Spec

=============================================================================
