------------------------ MODULE BoostedVaultProofs ------------------------
(***************************************************************************)
(* Proofs about a market with a boosted vault: its types, that its books   *)
(* count no more cash than it holds, that what it promises as liquidity    *)
(* can be paid out, and that no call lowers what a pToken is worth by more *)
(* than one share, whatever the price of a share rounds to.                *)
(***************************************************************************)
EXTENDS BoostedVault, Arithmetic

-----------------------------------------------------------------------------
(* Integer division *)

LEMMA CeilDivCovers ==
    ASSUME NEW a \in Nat, NEW b \in Nat \ {0}
    PROVE  CeilDiv(a, b) \in Nat /\ a <= CeilDiv(a, b) * b
<1>1. a + b - 1 \in Nat
  OBVIOUS
<1> QED BY <1>1, DivNat DEF CeilDiv

-----------------------------------------------------------------------------
(* Types *)

Markets == [cash : Nat, live : Nat, deposited : Nat, borrowed : Nat,
            reserves : Nat, supply : Nat, due : Nat]
Pools == [assets : Nat, total : Nat, ours : Nat]

LEMMA PoolType ==
    ASSUME TypeOK, NEW v \in Vaults
    PROVE  /\ pool[v].assets \in Nat /\ pool[v].total \in Nat /\ pool[v].ours \in Nat
           /\ pool[v].ours <= pool[v].total
  BY DEF TypeOK

\* A part of the shares is worth a part of the assets.
LEMMA QuoteType ==
    ASSUME TypeOK, NEW v \in Vaults, NEW n \in Nat, n <= pool[v].total
    PROVE  Quote(v, n) \in Nat /\ Quote(v, n) <= pool[v].assets
<1> DEFINE a == pool[v].assets
           t == pool[v].total
           q == (n * a) \div t
<1>1. a \in Nat /\ t \in Nat
  BY PoolType
<1>2. CASE t = 0
  BY <1>1, <1>2 DEF Quote
<1>3. CASE t # 0
  <2>1. q \in Nat /\ q * t <= n * a
    BY <1>1, <1>3, DivNat, ProductNat
  <2>2. n * a <= t * a /\ t * a = a * t
    BY <1>1, ProductMonotone
  <2>3. Quote(v, n) = q
    BY <1>3 DEF Quote
  <2> HIDE DEF q, a, t
  <2>4. q * t <= a * t
    BY <1>1, <2>1, <2>2, ProductNat
  <2>5. q <= a
    BY <1>1, <1>3, <2>1, <2>4, CancelFactor
  <2> QED BY <2>1, <2>3, <2>5 DEF a
<1> QED BY <1>2, <1>3

LEMMA BoostedType ==
    ASSUME TypeOK, NEW m \in Markets
    PROVE  Boosted(m) \in Nat
<1>1. Estimate(m) \in Nat /\ cache.value \in Nat
  BY DEF TypeOK, Estimate, Minus, Markets
<1>2. HasShares => Quote(boosted, pool[boosted].ours) \in Nat
  BY PoolType, QuoteType DEF TypeOK, HasShares
<1> QED BY <1>1, <1>2 DEF Boosted, Most

LEMMA TotalsType ==
    ASSUME TypeOK, NEW m \in Markets
    PROVE  TotalUnderlying(m) \in Nat /\ AvailableLiquidity(m) \in Nat
  BY BoostedType DEF TotalUnderlying, AvailableLiquidity, Minus, Markets

LEMMA RateType ==
    ASSUME TypeOK, NEW m \in Markets
    PROVE  ExchangeRate(m) \in Nat
<1>1. TotalUnderlying(m) \in Nat /\ Scale \in Nat
  BY TotalsType, BoostedAssumption
<1>2. TotalUnderlying(m) * Scale \in Nat
  BY <1>1, ProductNat
<1>3. CASE m.supply # 0
  <2>1. m.supply \in Nat \ {0}
    BY <1>3 DEF Markets
  <2> QED BY <1>2, <2>1, DivNat DEF ExchangeRate, RateOf
<1> QED BY <1>1, <1>3 DEF ExchangeRate, RateOf

LEMMA AccruedType ==
    ASSUME TypeOK
    PROVE  Accrued \in Markets /\ Accrued.cash = market.cash /\ Accrued.live = market.live
<1> DEFINE b == market.borrowed + market.due
           r == market.reserves + (market.due * ReserveFactor) \div Scale
<1>1. market \in Markets
  BY DEF TypeOK, Markets
<1>2. (market.due * ReserveFactor) \div Scale \in Nat
  BY <1>1, DivNat, ProductNat, BoostedAssumption DEF Markets
<1>3. b \in Nat /\ r \in Nat
  BY <1>1, <1>2 DEF Markets
<1>4. Accrued = [market EXCEPT !.borrowed = b, !.reserves = r, !.due = 0]
  BY <1>1 DEF Accrued, Markets
<1> HIDE DEF b, r
<1> QED BY <1>1, <1>3, <1>4 DEF Markets

LEMMA KeptType == ASSUME TypeOK PROVE Kept \in [value : Nat, fresh : BOOLEAN]
  BY PoolType, QuoteType DEF TypeOK, Kept, Answers, HasShares

-----------------------------------------------------------------------------
(* Cash that the books count is there *)

Backed(m) == m.cash <= m.live

LEMMA CashType ==
    ASSUME NEW m \in Markets, NEW l \in Nat, NEW c \in Nat, c <= l
    PROVE  /\ [m EXCEPT !.live = l, !.cash = c] \in Markets
           /\ [m EXCEPT !.live = l, !.cash = c].live = l
           /\ Backed([m EXCEPT !.live = l, !.cash = c])
  BY DEF Markets, Backed

LEMMA TokensOutType ==
    ASSUME NEW m \in Markets, NEW n \in Nat, n <= m.live, Backed(m)
    PROVE  /\ TokensOut(m, n) \in Markets /\ Deployed(m, n) \in Markets
           /\ Backed(TokensOut(m, n)) /\ Backed(Deployed(m, n))
<1> DEFINE l == m.live - n
           c == Minus(m.cash, n)
<1>1. l \in Nat /\ c \in Nat /\ c <= l
  BY DEF Markets, Backed, Minus
<1>2. /\ TokensOut(m, n) = [m EXCEPT !.live = l, !.cash = c]
      /\ Deployed(m, n) = [m EXCEPT !.live = l, !.cash = c]
  BY DEF TokensOut, Deployed, Markets
<1> HIDE DEF l, c
<1>3. [m EXCEPT !.live = l, !.cash = c] \in Markets /\ Backed([m EXCEPT !.live = l, !.cash = c])
  BY <1>1, CashType
<1> QED BY <1>2, <1>3

LEMMA TokensInType ==
    ASSUME NEW m \in Markets, NEW n \in Nat, Backed(m)
    PROVE  TokensIn(m, n) \in Markets /\ Backed(TokensIn(m, n))
<1> DEFINE l == m.live + n
           c == m.cash + n
<1>1. l \in Nat /\ c \in Nat /\ c <= l
  BY DEF Markets, Backed
<1>2. TokensIn(m, n) = [m EXCEPT !.live = l, !.cash = c]
  BY DEF TokensIn, Markets
<1> HIDE DEF l, c
<1>3. [m EXCEPT !.live = l, !.cash = c] \in Markets /\ Backed([m EXCEPT !.live = l, !.cash = c])
  BY <1>1, CashType
<1> QED BY <1>2, <1>3

LEMMA DeployAmountType ==
    ASSUME NEW m \in Markets, NEW n \in Nat
    PROVE  /\ DeployAmount(m, n) \in Nat /\ DeployAmount(m, n) <= m.live
           /\ DeployAmount(m, n) > 0 => boosted # None
  BY BoostedAssumption DEF DeployAmount, Least, Markets

\* What is deployed leaves the boosted vault with assets and shares to match.
LEMMA PoolWithType ==
    ASSUME TypeOK, NEW d \in Nat, d > 0 => boosted # None, PoolTakes(d)
    PROVE  /\ PoolWith(d) \in [Vaults -> Pools]
           /\ \A v \in Vaults : PoolWith(d)[v].ours <= PoolWith(d)[v].total
<1>1. CASE d = 0
  BY <1>1 DEF PoolWith, TypeOK, Pools
<1>2. CASE d > 0
  <2>1. boosted \in Vaults
    BY <1>2 DEF TypeOK
  <2> DEFINE p == pool[boosted]
             i == SharesIssued(p, d)
  <2>2. p.assets \in Nat /\ p.total \in Nat /\ p.ours \in Nat /\ p.ours <= p.total
    BY <2>1, PoolType
  <2>3. i \in Nat
    <3>1. CASE p.total = 0
      BY <3>1 DEF SharesIssued
    <3>2. CASE p.total # 0
      <4>1. p.assets \in Nat \ {0}
        BY <1>2, <2>2, <3>2 DEF PoolTakes
      <4> QED BY <2>2, <3>2, <4>1, DivNat, ProductNat DEF SharesIssued
    <3> QED BY <3>1, <3>2
  <2>4. PoolWith(d) = [pool EXCEPT ![boosted] = [assets |-> p.assets + d, total |-> p.total + i,
                                                 ours |-> p.ours + i]]
    BY <1>2 DEF PoolWith
  <2> HIDE DEF i
  <2>5. [assets |-> p.assets + d, total |-> p.total + i, ours |-> p.ours + i] \in Pools
    BY <2>2, <2>3 DEF Pools
  <2>6. p.ours + i <= p.total + i
    BY <2>2, <2>3
  <2> QED BY <2>1, <2>4, <2>5, <2>6 DEF TypeOK, Pools
<1> QED BY <1>1, <1>2

LEMMA NeededType ==
    ASSUME NEW m \in Markets, NEW n \in Nat
    PROVE  Needed(m, n) \in Nat /\ n <= m.live + Needed(m, n)
  BY DEF Needed, Minus, Markets

LEMMA SharesType ==
    ASSUME TypeOK, NEW m \in Markets, NEW n \in Nat, Redeems(m, n)
    PROVE  /\ boosted \in Vaults
           /\ SharesToWithdraw(Needed(m, n)) \in Nat
           /\ SharesToWithdraw(Needed(m, n)) <= pool[boosted].ours
<1>1. boosted \in Vaults
  BY DEF Redeems, HasShares, TypeOK
<1>2. /\ pool[boosted].assets \in Nat \ {0} /\ pool[boosted].total \in Nat
      /\ pool[boosted].ours \in Nat
  BY <1>1, PoolType DEF Redeems
<1>3. (Needed(m, n) + 1) * pool[boosted].total \in Nat
  BY <1>2, NeededType, ProductNat
<1>4. CeilDiv((Needed(m, n) + 1) * pool[boosted].total, pool[boosted].assets) \in Nat
  BY <1>2, <1>3, CeilDivCovers
<1> QED BY <1>1, <1>2, <1>4 DEF SharesToWithdraw, Least

LEMMA ReceivedType ==
    ASSUME TypeOK, NEW m \in Markets, NEW n \in Nat
    PROVE  /\ Received(m, n) \in Nat
           /\ Redeems(m, n) => Received(m, n) <= pool[boosted].assets
<1>1. CASE Redeems(m, n)
  <2>1. /\ boosted \in Vaults
        /\ SharesToWithdraw(Needed(m, n)) \in Nat
        /\ SharesToWithdraw(Needed(m, n)) <= pool[boosted].ours
    BY <1>1, SharesType
  <2>2. SharesToWithdraw(Needed(m, n)) <= pool[boosted].total
    BY <2>1, PoolType
  <2> QED BY <1>1, <2>1, <2>2, QuoteType DEF Received
<1> QED BY <1>1 DEF Received

LEMMA RedeemedType ==
    ASSUME TypeOK, NEW m \in Markets, NEW n \in Nat, Backed(m)
    PROVE  /\ Redeemed(m, n) \in Markets /\ Backed(Redeemed(m, n))
           /\ Redeemed(m, n).live = m.live + Received(m, n)
<1> DEFINE l == m.live + Received(m, n)
           c == m.cash + Received(m, n)
<1>1. l \in Nat /\ c \in Nat /\ c <= l
  BY ReceivedType DEF Markets, Backed
<1>2. Redeemed(m, n) = [m EXCEPT !.live = l, !.cash = c]
  BY DEF Redeemed, Markets
<1> HIDE DEF l, c
<1>3. /\ [m EXCEPT !.live = l, !.cash = c] \in Markets
      /\ [m EXCEPT !.live = l, !.cash = c].live = l
      /\ Backed([m EXCEPT !.live = l, !.cash = c])
  BY <1>1, CashType
<1> QED BY <1>2, <1>3 DEF l

LEMMA PoolWithoutType ==
    ASSUME TypeOK, NEW m \in Markets, NEW n \in Nat
    PROVE  /\ PoolWithout(m, n) \in [Vaults -> Pools]
           /\ \A v \in Vaults : PoolWithout(m, n)[v].ours <= PoolWithout(m, n)[v].total
<1>1. CASE ~Redeems(m, n)
  BY <1>1 DEF PoolWithout, TypeOK, Pools
<1>2. CASE Redeems(m, n)
  <2> DEFINE p == pool[boosted]
             k == SharesToWithdraw(Needed(m, n))
             r == Received(m, n)
  <2>1. boosted \in Vaults /\ k \in Nat /\ k <= p.ours
    BY <1>2, SharesType
  <2>2. p.assets \in Nat /\ p.total \in Nat /\ p.ours \in Nat /\ p.ours <= p.total
    BY <2>1, PoolType
  <2>3. r \in Nat /\ r <= p.assets
    BY <1>2, ReceivedType
  <2>4. PoolWithout(m, n) = [pool EXCEPT ![boosted] =
            [assets |-> p.assets - r, total |-> p.total - k, ours |-> p.ours - k]]
    BY <1>2 DEF PoolWithout
  <2> HIDE DEF k, r
  <2>5. [assets |-> p.assets - r, total |-> p.total - k, ours |-> p.ours - k] \in Pools
    BY <2>1, <2>2, <2>3 DEF Pools
  <2>6. p.ours - k <= p.total - k
    BY <2>1, <2>2
  <2> QED BY <2>1, <2>4, <2>5, <2>6 DEF TypeOK, Pools
<1> QED BY <1>1, <1>2

-----------------------------------------------------------------------------
(* Every step *)

BooksInv == TypeOK /\ Backed(market)

LEMMA InitInv == ASSUME Init PROVE BooksInv
<1>1. FirstPool \in [Vaults -> Pools] /\ \A v \in Vaults : FirstPool[v].ours <= FirstPool[v].total
  BY BoostedAssumption DEF Pools
<1>2. market.cash = 0 /\ market.live = 0 /\ market \in Markets
  BY DEF Init, Markets
<1>3. NotCached \in [value : Nat, fresh : BOOLEAN]
  BY DEF NotCached
<1> QED BY <1>1, <1>2, <1>3, BoostedAssumption DEF Init, BooksInv, TypeOK, Backed, Markets, Pools

\* A call that leaves the books in order leaves everything in order.
LEMMA CallKeeps ==
    ASSUME BooksInv, market' \in Markets, Backed(market'),
           pool' \in [Vaults -> Pools], \A v \in Vaults : pool'[v].ours <= pool'[v].total,
           cache' = Kept \/ cache' = cache,
           UNCHANGED <<boosted, buffer, answering, events>>
    PROVE  BooksInv'
<1>1. cache' \in [value : Nat, fresh : BOOLEAN]
  BY KeptType DEF BooksInv, TypeOK
<1> QED BY <1>1 DEF BooksInv, TypeOK, Backed, Markets, Pools

LEMMA PoolKept ==
    ASSUME TypeOK, UNCHANGED pool
    PROVE  pool' \in [Vaults -> Pools] /\ \A v \in Vaults : pool'[v].ours <= pool'[v].total
  BY DEF TypeOK, Pools

\* The books after a call differ from those with these tokens in other totals only.
LEMMA TotalsKeep ==
    ASSUME NEW m \in Markets, Backed(m), NEW b \in Nat, NEW r \in Nat, NEW s \in Nat, NEW d \in Nat
    PROVE  /\ [m EXCEPT !.borrowed = b] \in Markets /\ Backed([m EXCEPT !.borrowed = b])
           /\ [m EXCEPT !.reserves = r] \in Markets /\ Backed([m EXCEPT !.reserves = r])
           /\ [m EXCEPT !.supply = s, !.deposited = d] \in Markets
           /\ Backed([m EXCEPT !.supply = s, !.deposited = d])
           /\ [m EXCEPT !.due = d] \in Markets /\ Backed([m EXCEPT !.due = d])
  BY DEF Markets, Backed

LEMMA AccruedBooks ==
    ASSUME BooksInv
    PROVE  TypeOK /\ market \in Markets /\ Accrued \in Markets /\ Backed(Accrued)
<1>1. TypeOK /\ market.cash <= market.live /\ market \in Markets
  BY DEF BooksInv, Backed, TypeOK, Markets
<1> QED BY <1>1, AccruedType DEF Backed

LEMMA DepositKeeps == ASSUME BooksInv, NEW n \in Amounts, Deposit(n) PROVE BooksInv'
<1> DEFINE before == Accrued
           minted == (n * Scale) \div ExchangeRate(before)
           after  == TokensIn(before, n)
           spare  == IF buffer = 0 THEN n ELSE Least(n, Minus(after.live, DesiredIdle(after)))
           moved  == DeployAmount(after, spare)
           final  == Deployed(after, moved)
           s      == final.supply + minted
           d      == final.deposited + n
<1>1. n \in Nat /\ Scale \in Nat
  BY BoostedAssumption
<1>2. TypeOK /\ before \in Markets /\ Backed(before)
  BY AccruedBooks
<1>3. ExchangeRate(before) > 0 /\ ExchangeRate(before) \in Nat
  BY <1>2, RateType DEF Deposit
<1>4. minted \in Nat
  BY <1>1, <1>3, DivNat, ProductNat
<1> HIDE DEF before, minted
<1>5. after \in Markets /\ Backed(after)
  BY <1>1, <1>2, TokensInType
<1> HIDE DEF after
<1>6. DesiredIdle(after) \in Nat
  <2>1. buffer \in Nat /\ TotalUnderlying(after) \in Nat
    BY <1>2, <1>5, TotalsType, BoostedAssumption DEF TypeOK
  <2> QED BY <2>1, DivNat, ProductNat, BoostedAssumption DEF DesiredIdle
<1>7. spare \in Nat
  BY <1>1, <1>5, <1>6 DEF Least, Minus, Markets
<1> HIDE DEF spare
<1>8. moved \in Nat /\ moved <= after.live /\ (moved > 0 => boosted # None)
  BY <1>5, <1>7, DeployAmountType
<1>9. PoolTakes(moved) /\ pool' = PoolWith(moved)
  BY DEF Deposit, before, after, spare
<1>10. market' = [final EXCEPT !.supply = @ + minted, !.deposited = @ + n]
  BY DEF Deposit, before, minted, after, spare
<1> HIDE DEF moved
<1>11. final \in Markets /\ Backed(final)
  BY <1>5, <1>8, TokensOutType
<1> HIDE DEF final
<1>12. s \in Nat /\ d \in Nat
  BY <1>1, <1>4, <1>11 DEF Markets
<1>13. market' = [final EXCEPT !.supply = s, !.deposited = d]
  BY <1>10, <1>11 DEF Markets
<1> HIDE DEF s, d
<1>14. market' \in Markets /\ Backed(market')
  BY <1>11, <1>12, <1>13, TotalsKeep
<1>15. pool' \in [Vaults -> Pools] /\ \A v \in Vaults : pool'[v].ours <= pool'[v].total
  BY <1>2, <1>8, <1>9, PoolWithType
<1>16. cache' = Kept /\ UNCHANGED <<boosted, buffer, answering, events>>
  BY DEF Deposit
<1> QED BY <1>14, <1>15, <1>16, CallKeeps

\* What is paid out after a redemption was there.
LEMMA PaidOut ==
    ASSUME TypeOK, NEW m \in Markets, NEW asked \in Nat, NEW n \in Nat, Backed(m),
           n <= asked \/ n <= m.live, Payable(m, asked)
    PROVE  /\ TokensOut(Redeemed(m, asked), n) \in Markets
           /\ Backed(TokensOut(Redeemed(m, asked), n))
<1>1. /\ Redeemed(m, asked) \in Markets /\ Backed(Redeemed(m, asked))
      /\ Redeemed(m, asked).live = m.live + Received(m, asked)
  BY RedeemedType
<1>2. Received(m, asked) \in Nat /\ m.live \in Nat
  BY ReceivedType DEF Markets
<1>3. n <= Redeemed(m, asked).live
  BY <1>1, <1>2 DEF Payable
<1> QED BY <1>1, <1>3, TokensOutType

LEMMA WithdrawKeeps == ASSUME BooksInv, NEW n \in PTokenAmounts, Withdraw(n) PROVE BooksInv'
<1> DEFINE before == Accrued
           back   == (n * ExchangeRate(before)) \div Scale
           final  == TokensOut(Redeemed(before, back), back)
           s      == final.supply - n
           d      == Minus(final.deposited, back)
<1>1. TypeOK /\ before \in Markets /\ Backed(before) /\ n \in Nat
  BY AccruedBooks, BoostedAssumption
<1>2. back \in Nat
  BY <1>1, RateType, DivNat, ProductNat, BoostedAssumption
<1>3. n <= before.supply /\ Payable(before, back)
  BY DEF Withdraw
<1>4. /\ market' = [final EXCEPT !.supply = @ - n, !.deposited = Minus(@, back)]
      /\ pool' = PoolWithout(before, back) /\ cache' = Kept
      /\ UNCHANGED <<boosted, buffer, answering, events>>
  BY DEF Withdraw
<1> HIDE DEF before, back
<1>5. final \in Markets /\ Backed(final)
  BY <1>1, <1>2, <1>3, PaidOut
<1>6. final.supply = before.supply
  BY <1>1 DEF TokensOut, Redeemed, Markets
<1> HIDE DEF final
<1>7. s \in Nat /\ d \in Nat
  BY <1>1, <1>2, <1>3, <1>5, <1>6 DEF Markets, Minus
<1>8. market' = [final EXCEPT !.supply = s, !.deposited = d]
  BY <1>4, <1>5 DEF Markets
<1> HIDE DEF s, d
<1>9. market' \in Markets /\ Backed(market')
  BY <1>5, <1>7, <1>8, TotalsKeep
<1>10. pool' \in [Vaults -> Pools] /\ \A v \in Vaults : pool'[v].ours <= pool'[v].total
  BY <1>1, <1>2, <1>4, PoolWithoutType
<1> QED BY <1>4, <1>9, <1>10, CallKeeps

LEMMA BorrowKeeps == ASSUME BooksInv, NEW n \in Amounts, Borrow(n) PROVE BooksInv'
<1> DEFINE before == Accrued
           asked  == IF before.cash < n THEN n ELSE 0
           final  == TokensOut(Redeemed(before, asked), n)
           b      == final.borrowed + n
<1>1. TypeOK /\ before \in Markets /\ Backed(before) /\ n \in Nat
  BY AccruedBooks, BoostedAssumption
<1>2. asked \in Nat /\ (n <= asked \/ n <= before.live)
  BY <1>1 DEF Markets, Backed
<1>3. /\ Payable(before, asked)
      /\ market' = [final EXCEPT !.borrowed = @ + n]
      /\ pool' = PoolWithout(before, asked) /\ cache' = Kept
      /\ UNCHANGED <<boosted, buffer, answering, events>>
  BY DEF Borrow
<1> HIDE DEF before, asked
<1>4. final \in Markets /\ Backed(final)
  BY <1>1, <1>2, <1>3, PaidOut
<1> HIDE DEF final
<1>5. b \in Nat /\ market' = [final EXCEPT !.borrowed = b]
  BY <1>1, <1>3, <1>4 DEF Markets
<1> HIDE DEF b
<1>6. market' \in Markets /\ Backed(market')
  BY <1>4, <1>5, TotalsKeep
<1>7. pool' \in [Vaults -> Pools] /\ \A v \in Vaults : pool'[v].ours <= pool'[v].total
  BY <1>1, <1>2, <1>3, PoolWithoutType
<1> QED BY <1>3, <1>6, <1>7, CallKeeps

LEMMA FlashLoanKeeps ==
    ASSUME BooksInv, NEW n \in Amounts, NEW extra \in Extras, FlashLoan(n, extra)
    PROVE  BooksInv'
<1> DEFINE before == Accrued
           lent   == TokensOut(Redeemed(before, n), n)
           final  == TokensIn(lent, n + extra)
           r      == final.reserves + extra
<1>1. TypeOK /\ before \in Markets /\ Backed(before) /\ n \in Nat /\ extra \in Nat
  BY AccruedBooks, BoostedAssumption
<1>2. /\ Payable(before, n)
      /\ market' = [final EXCEPT !.reserves = @ + extra]
      /\ pool' = PoolWithout(before, n) /\ cache' = Kept
      /\ UNCHANGED <<boosted, buffer, answering, events>>
  BY DEF FlashLoan
<1> HIDE DEF before
<1>3. lent \in Markets /\ Backed(lent)
  BY <1>1, <1>2, PaidOut
<1> HIDE DEF lent
<1>4. final \in Markets /\ Backed(final)
  BY <1>1, <1>3, TokensInType
<1> HIDE DEF final
<1>5. r \in Nat /\ market' = [final EXCEPT !.reserves = r]
  BY <1>1, <1>2, <1>4 DEF Markets
<1> HIDE DEF r
<1>6. market' \in Markets /\ Backed(market')
  BY <1>4, <1>5, TotalsKeep
<1>7. pool' \in [Vaults -> Pools] /\ \A v \in Vaults : pool'[v].ours <= pool'[v].total
  BY <1>1, <1>2, PoolWithoutType
<1> QED BY <1>2, <1>6, <1>7, CallKeeps

LEMMA RepayKeeps ==
    ASSUME BooksInv, NEW n \in Amounts, NEW later \in BOOLEAN, Repay(n, later)
    PROVE  BooksInv'
<1> DEFINE final == TokensIn(Accrued, n)
           b     == final.borrowed - n
<1>1. TypeOK /\ market \in Markets /\ Accrued \in Markets /\ Backed(Accrued) /\ n \in Nat
  BY AccruedBooks, BoostedAssumption
<1>2. final \in Markets /\ Backed(final) /\ final.borrowed = market.borrowed + market.due
  BY <1>1, TokensInType DEF TokensIn, Accrued, Markets
<1>3. /\ n <= market.borrowed /\ market' = [final EXCEPT !.borrowed = @ - n]
      /\ cache' = Kept \/ cache' = cache
      /\ UNCHANGED <<boosted, buffer, pool, answering, events>>
  BY DEF Repay
<1> HIDE DEF final
<1>4. b \in Nat /\ market' = [final EXCEPT !.borrowed = b]
  BY <1>1, <1>2, <1>3 DEF Markets
<1> HIDE DEF b
<1>5. market' \in Markets /\ Backed(market')
  BY <1>2, <1>4, TotalsKeep
<1>6. pool' \in [Vaults -> Pools] /\ \A v \in Vaults : pool'[v].ours <= pool'[v].total
  BY <1>1, <1>3, PoolKept
<1> QED BY <1>3, <1>5, <1>6, CallKeeps

LEMMA InterestKeeps == ASSUME BooksInv, UpdateInterest PROVE BooksInv'
<1>1. TypeOK /\ market' \in Markets /\ Backed(market')
  BY AccruedBooks DEF UpdateInterest
<1>2. pool' \in [Vaults -> Pools] /\ \A v \in Vaults : pool'[v].ours <= pool'[v].total
  BY <1>1, PoolKept DEF UpdateInterest
<1> QED BY <1>1, <1>2, CallKeeps DEF UpdateInterest

LEMMA SettingKeeps ==
    ASSUME BooksInv,
           \/ \E v \in Vaults : SetBoostedVault(v)
           \/ \E bps \in Buffers : SetIdleCashBuffer(bps)
    PROVE  BooksInv'
<1>1. NotCached \in [value : Nat, fresh : BOOLEAN]
  BY DEF NotCached
<1>2. CASE \E v \in Vaults : SetBoostedVault(v)
  BY <1>1, <1>2 DEF SetBoostedVault, BooksInv, TypeOK, Backed
<1>3. CASE \E bps \in Buffers : SetIdleCashBuffer(bps)
  BY <1>3 DEF SetIdleCashBuffer, BooksInv, TypeOK, Backed
<1> QED BY <1>2, <1>3

LEMMA RebalanceKeeps == ASSUME BooksInv, RebalanceIdleCash PROVE BooksInv'
<1> DEFINE idle  == Minus(market.live, DesiredIdle(market))
           moved == DeployAmount(market, idle)
<1>1. TypeOK /\ market \in Markets /\ Backed(market)
  BY AccruedBooks DEF BooksInv
<1>2. DesiredIdle(market) \in Nat
  <2>1. buffer \in Nat /\ TotalUnderlying(market) \in Nat
    BY <1>1, TotalsType, BoostedAssumption DEF TypeOK
  <2> QED BY <2>1, DivNat, ProductNat, BoostedAssumption DEF DesiredIdle
<1>3. idle \in Nat
  BY <1>1, <1>2 DEF Minus, Markets
<1>4. /\ PoolTakes(moved) /\ pool' = PoolWith(moved) /\ market' = Deployed(market, moved)
      /\ cache' = Kept /\ UNCHANGED <<boosted, buffer, answering, events>>
  BY DEF RebalanceIdleCash
<1> HIDE DEF idle
<1>5. moved \in Nat /\ moved <= market.live /\ (moved > 0 => boosted # None)
  BY <1>1, <1>3, DeployAmountType
<1> HIDE DEF moved
<1>6. market' \in Markets /\ Backed(market')
  BY <1>1, <1>4, <1>5, TokensOutType
<1>7. pool' \in [Vaults -> Pools] /\ \A v \in Vaults : pool'[v].ours <= pool'[v].total
  BY <1>1, <1>4, <1>5, PoolWithType
<1> QED BY <1>4, <1>6, <1>7, CallKeeps

LEMMA ReduceKeeps == ASSUME BooksInv, NEW n \in Extras, ReduceReserves(n) PROVE BooksInv'
<1> DEFINE final == TokensOut(market, n)
           r     == final.reserves - n
<1>1. TypeOK /\ market \in Markets /\ Backed(market) /\ n \in Nat
  BY AccruedBooks, BoostedAssumption DEF BooksInv
<1>2. /\ n <= market.reserves /\ n <= market.live
      /\ market' = [final EXCEPT !.reserves = @ - n]
      /\ UNCHANGED <<boosted, buffer, cache, pool, answering, events>>
  BY DEF ReduceReserves
<1>3. final \in Markets /\ Backed(final) /\ final.reserves = market.reserves
  BY <1>1, <1>2, TokensOutType DEF TokensOut, Markets
<1> HIDE DEF final
<1>4. r \in Nat /\ market' = [final EXCEPT !.reserves = r]
  BY <1>1, <1>2, <1>3 DEF Markets
<1> HIDE DEF r
<1>5. market' \in Markets /\ Backed(market')
  BY <1>3, <1>4, TotalsKeep
<1>6. pool' \in [Vaults -> Pools] /\ \A v \in Vaults : pool'[v].ours <= pool'[v].total
  BY <1>1, <1>2, PoolKept
<1> QED BY <1>2, <1>5, <1>6, CallKeeps

LEMMA EventsCount == ASSUME TypeOK, Happens PROVE events' \in 0..MaxEvents
  BY BoostedAssumption DEF TypeOK, Happens

LEMMA TickKeeps ==
    ASSUME BooksInv, NEW i \in Interests, NEW e \in BOOLEAN, Tick(i, e)
    PROVE  BooksInv'
<1> DEFINE d == market.due + i
<1>1. TypeOK /\ market \in Markets /\ Backed(market) /\ i \in Nat
  BY AccruedBooks, BoostedAssumption DEF BooksInv
<1>2. d \in Nat /\ market' = [market EXCEPT !.due = d]
  BY <1>1 DEF Tick, Markets
<1> HIDE DEF d
<1>3. market' \in Markets /\ Backed(market')
  BY <1>1, <1>2, TotalsKeep
<1>4. cache' \in [value : Nat, fresh : BOOLEAN]
  BY <1>1 DEF Tick, TypeOK
<1>5. events' \in 0..MaxEvents
  BY <1>1, EventsCount DEF Tick
<1>6. UNCHANGED <<boosted, buffer, pool, answering>>
  BY DEF Tick
<1> QED BY <1>1, <1>3, <1>4, <1>5, <1>6 DEF BooksInv, TypeOK, Markets, Backed

LEMMA DonateKeeps == ASSUME BooksInv, NEW n \in Amounts, Donate(n) PROVE BooksInv'
<1> DEFINE l == market.live + n
<1>1. TypeOK /\ market \in Markets /\ Backed(market) /\ n \in Nat
  BY AccruedBooks, BoostedAssumption DEF BooksInv
<1>2. /\ market' = [market EXCEPT !.live = l]
      /\ UNCHANGED <<boosted, buffer, cache, pool, answering>>
  BY DEF Donate
<1>3. market' \in Markets /\ Backed(market')
  <2>1. l \in Nat /\ market.cash <= l
    BY <1>1 DEF Markets, Backed
  <2> HIDE DEF l
  <2> QED BY <1>1, <1>2, <2>1 DEF Markets, Backed
<1>4. events' \in 0..MaxEvents
  BY <1>1, EventsCount DEF Donate
<1> QED BY <1>1, <1>2, <1>3, <1>4 DEF BooksInv, TypeOK, Markets, Backed

LEMMA PoolMoves ==
    ASSUME BooksInv, NEW v \in Vaults, NEW a \in Nat, pool' = [pool EXCEPT ![v].assets = a],
           Happens, UNCHANGED <<market, boosted, buffer, cache, answering>>
    PROVE  BooksInv'
<1>1. pool \in [Vaults -> Pools] /\ \A w \in Vaults : pool[w].ours <= pool[w].total
  BY DEF BooksInv, TypeOK, Pools
<1>2. pool' \in [Vaults -> Pools] /\ \A w \in Vaults : pool'[w].ours <= pool'[w].total
  BY <1>1 DEF Pools
<1>3. events' \in 0..MaxEvents
  BY EventsCount DEF BooksInv
<1> QED BY <1>2, <1>3 DEF BooksInv, TypeOK, Backed, Pools

LEMMA GainsKeep == ASSUME BooksInv, NEW v \in Vaults, NEW n \in Amounts, PoolGains(v, n)
                   PROVE  BooksInv'
<1> DEFINE a == pool[v].assets + n
<1>1. a \in Nat
  BY PoolType, BoostedAssumption DEF BooksInv
<1>2. pool' = [pool EXCEPT ![v].assets = a]
  BY DEF PoolGains
<1> HIDE DEF a
<1> QED BY <1>1, <1>2, PoolMoves DEF PoolGains

LEMMA LossesKeep == ASSUME BooksInv, NEW v \in Vaults, NEW n \in Amounts, PoolLoses(v, n)
                    PROVE  BooksInv'
<1> DEFINE a == pool[v].assets - n
<1>1. a \in Nat
  BY PoolType, BoostedAssumption DEF BooksInv, PoolLoses
<1>2. pool' = [pool EXCEPT ![v].assets = a]
  BY DEF PoolLoses
<1> HIDE DEF a
<1> QED BY <1>1, <1>2, PoolMoves DEF PoolLoses

LEMMA OutageKeeps == ASSUME BooksInv, Outage PROVE BooksInv'
<1>1. events' \in 0..MaxEvents
  BY EventsCount DEF BooksInv, Outage
<1> QED BY <1>1 DEF BooksInv, TypeOK, Backed, Outage

LEMMA StepInv == ASSUME BooksInv, [Next]_vars PROVE BooksInv'
<1>1. CASE UNCHANGED vars
  BY <1>1 DEF vars, BooksInv, TypeOK, Backed
<1>2. CASE UserStep
  BY <1>2, DepositKeeps, BorrowKeeps, WithdrawKeeps, FlashLoanKeeps, RepayKeeps,
     InterestKeeps DEF UserStep
<1>3. CASE AdminStep
  BY <1>3, SettingKeeps, RebalanceKeeps, ReduceKeeps DEF AdminStep
<1>4. CASE Surroundings
  BY <1>4, TickKeeps, DonateKeeps, GainsKeep, LossesKeep, OutageKeeps DEF Surroundings
<1> QED BY <1>1, <1>2, <1>3, <1>4 DEF Next

\* The cash on the books is never more than the tokens at hand: every call moves both by what
\* it transfers (add_managed_cash, sub_managed_cash), and a gift moves the tokens alone.
THEOREM BooksInvariant == Spec => []BooksInv
<1>1. Init => BooksInv
  BY InitInv
<1>2. BooksInv /\ [Next]_vars => BooksInv'
  BY StepInv
<1> QED BY <1>1, <1>2, PTL DEF Spec

\* Every variable keeps its type: no total, pool of assets or number of shares is ever taken
\* below zero by what deposit_into_boosted and redeem_from_boosted compute.
THEOREM TypeCorrect == Spec => []TypeOK
<1>1. BooksInv => TypeOK
  BY DEF BooksInv
<1> QED BY <1>1, BooksInvariant, PTL

-----------------------------------------------------------------------------
(* What is promised can be paid *)

\* What get_available_liquidity promises is cash on the books and boosted shares.
LEMMA PromiseBounded ==
    ASSUME TypeOK, NEW m \in Markets, NEW n \in 0..AvailableLiquidity(m)
    PROVE  n \in Nat /\ n <= m.cash + Boosted(m)
  BY BoostedType DEF AvailableLiquidity, TotalUnderlying, Minus, Markets

\* The shares asked for are the market's last ones, or worth more than is missing.
LEMMA SharesCover ==
    ASSUME TypeOK, NEW m \in Markets, NEW n \in Nat, Redeems(m, n),
           Needed(m, n) <= Quote(boosted, pool[boosted].ours)
    PROVE  Received(m, n) >= Needed(m, n)
<1> DEFINE a == pool[boosted].assets
           t == pool[boosted].total
           o == pool[boosted].ours
           w == Needed(m, n)
           c == CeilDiv((w + 1) * t, a)
           k == SharesToWithdraw(w)
<1>1. boosted \in Vaults /\ o > 0 /\ a > 0
  BY DEF Redeems, HasShares, TypeOK
<1>2. a \in Nat \ {0} /\ t \in Nat \ {0} /\ o \in Nat /\ w \in Nat
  BY <1>1, PoolType, NeededType
<1>3. Received(m, n) = Quote(boosted, k) /\ k = (IF c < o THEN c ELSE o)
  BY DEF Received, SharesToWithdraw, Least
<1>4. Quote(boosted, k) = (k * a) \div t
  BY <1>2 DEF Quote
<1>5. c \in Nat /\ (w + 1) * t <= c * a
  <2>1. (w + 1) * t \in Nat
    BY <1>2, ProductNat
  <2> QED BY <1>2, <2>1, CeilDivCovers
<1> HIDE DEF a, t, o, w, c, k
<1>6. CASE k = c
  <2>1. w + 1 <= (c * a) \div t
    BY <1>2, <1>5, DivAtLeast, ProductNat
  <2> QED BY <1>2, <1>3, <1>4, <1>5, <1>6, <2>1, DivNat, ProductNat DEF w
<1>7. CASE k = o
  BY <1>3, <1>7, ReceivedType DEF w, o, k
<1> QED BY <1>3, <1>6, <1>7

LEMMA PromisePaid ==
    ASSUME BooksInv, InSight, NEW n \in 0..AvailableLiquidity(market)
    PROVE  Payable(market, n)
<1> DEFINE w == Needed(market, n)
           got == Received(market, n)
<1>1. TypeOK /\ market \in Markets /\ Backed(market)
  BY AccruedBooks DEF BooksInv
<1>2. n \in Nat /\ n <= market.cash + Boosted(market)
  BY <1>1, PromiseBounded
<1>3. w \in Nat /\ n <= market.live + w /\ (w > 0 => w = n - market.live)
  BY <1>1, <1>2, NeededType DEF Needed, Minus, Markets
<1>4. got \in Nat /\ market.live \in Nat /\ market.cash \in Nat /\ market.cash <= market.live
  BY <1>1, <1>2, ReceivedType DEF Markets, Backed
<1>5. CASE ~HasShares
  <2>1. Boosted(market) = 0
    BY <1>5 DEF Boosted
  <2>2. ~Redeems(market, n) /\ n <= market.live
    BY <1>2, <1>4, <1>5, <2>1 DEF Redeems
  <2> QED BY <1>2, <1>4, <1>5, <2>2 DEF Payable
<1>6. CASE Answers
  <2> DEFINE q == Quote(boosted, pool[boosted].ours)
  <2>1. HasShares /\ answering /\ Boosted(market) = q /\ boosted \in Vaults
    BY <1>1, <1>6 DEF Answers, Boosted, HasShares, TypeOK
  <2>2. q \in Nat /\ q > 0 /\ q <= pool[boosted].assets /\ pool[boosted].assets \in Nat
    BY <1>1, <1>6, <2>1, PoolType, QuoteType DEF Answers
  <2>3. w > 0 => w <= q
    BY <1>2, <1>3, <1>4, <2>1, <2>2
  <2>4. CASE w = 0
    BY <1>2, <1>3, <1>4, <2>4 DEF Payable, Redeems
  <2>5. CASE w > 0
    <3>1. Redeems(market, n)
      BY <2>1, <2>2, <2>5 DEF Redeems
    <3>2. got >= w
      BY <1>1, <1>2, <2>3, <2>5, <3>1, SharesCover
    <3> QED BY <1>2, <1>3, <1>4, <2>1, <3>2 DEF Payable
  <2> QED BY <1>3, <2>4, <2>5
<1> QED BY <1>5, <1>6 DEF InSight

\* While the boosted vault answers, whatever get_available_liquidity promises is paid by
\* ensure_liquid_cash for every price of a share: redeem_from_boosted's rounding up of the
\* shares it gives up makes good what the boosted vault rounds down when it pays them out.
THEOREM PromisesArePayable == Spec => []AvailableIsPayable
<1>1. BooksInv => AvailableIsPayable
  BY PromisePaid DEF AvailableIsPayable
<1> QED BY <1>1, BooksInvariant, PTL

-----------------------------------------------------------------------------
(* Holders keep what their pTokens are worth *)

\* What a market with the boosted vault b has in the boosted vaults f, and on its books.
ShareValue(b, f) ==
    IF b = None \/ f[b].total = 0 THEN 0 ELSE (f[b].ours * f[b].assets) \div f[b].total

Book(m) == m.cash + m.borrowed - m.reserves

LEMMA ZeroShare == ASSUME NEW a \in Nat, NEW t \in Nat \ {0} PROVE (0 * a) \div t = 0
<1>1. 0 * a = 0
  OBVIOUS
<1>2. 0 \div t = 0
  OBVIOUS
<1> QED BY <1>1, <1>2

LEMMA ShareValueType ==
    ASSUME NEW b \in Vaults \cup {None}, NEW f \in [Vaults -> Pools]
    PROVE  ShareValue(b, f) \in Nat
<1>1. CASE b # None /\ f[b].total # 0
  <2>1. f[b].total \in Nat \ {0} /\ f[b].ours \in Nat /\ f[b].assets \in Nat
    BY <1>1 DEF Pools
  <2> QED BY <1>1, <2>1, DivNat, ProductNat DEF ShareValue
<1> QED BY <1>1 DEF ShareValue

LEMMA SharesValued ==
    ASSUME NEW b \in Vaults, NEW f \in [Vaults -> Pools], f[b].ours = 0
    PROVE  ShareValue(b, f) = 0
<1>1. f[b].total \in Nat /\ f[b].assets \in Nat
  BY DEF Pools
<1> QED BY <1>1, ZeroShare DEF ShareValue

LEMMA WorthSplit ==
    ASSUME TypeOK
    PROVE  Worth = Book(market) + ShareValue(boosted, pool)
<1>1. pool \in [Vaults -> Pools] /\ boosted \in Vaults \cup {None}
  BY DEF TypeOK, Pools
<1>2. CASE HasShares
  <2>1. boosted # None /\ Quote(boosted, pool[boosted].ours) = ShareValue(boosted, pool)
    BY <1>2 DEF HasShares, Quote, ShareValue
  <2> QED BY <1>2, <2>1 DEF Worth, Book
<1>3. CASE ~HasShares
  <2>1. boosted = None \/ pool[boosted].ours = 0
    BY <1>1, <1>3 DEF HasShares, Pools
  <2>2. ShareValue(boosted, pool) = 0
    BY <1>1, <2>1, SharesValued DEF ShareValue
  <2> QED BY <1>3, <2>2 DEF Worth, Book
<1> QED BY <1>2, <1>3

LEMMA WorthSplitNext ==
    ASSUME TypeOK'
    PROVE  Worth' = Book(market') + ShareValue(boosted', pool')
<1>1. pool' \in [Vaults -> Pools] /\ boosted' \in Vaults \cup {None}
  BY DEF TypeOK, Pools
<1>2. CASE HasShares'
  <2>1. boosted' # None /\ Quote(boosted, pool[boosted].ours)' = ShareValue(boosted', pool')
    BY <1>2 DEF HasShares, Quote, ShareValue
  <2> QED BY <1>2, <2>1 DEF Worth, Book
<1>3. CASE ~HasShares'
  <2>1. boosted' = None \/ pool'[boosted'].ours = 0
    BY <1>1, <1>3 DEF HasShares, Pools
  <2>2. ShareValue(boosted', pool') = 0
    BY <1>1, <2>1, SharesValued DEF ShareValue
  <2> QED BY <1>3, <2>2 DEF Worth, Book
<1> QED BY <1>2, <1>3

LEMMA PriceType ==
    ASSUME TypeOK
    PROVE  /\ SharePrice \in Nat
           /\ boosted # None /\ pool[boosted].total # 0 =>
                pool[boosted].assets <= SharePrice * pool[boosted].total
<1>1. CASE boosted # None /\ pool[boosted].total # 0
  <2>1. pool[boosted].assets \in Nat /\ pool[boosted].total \in Nat \ {0}
    BY <1>1, PoolType DEF TypeOK
  <2> QED BY <1>1, <2>1, CeilDivCovers DEF SharePrice
<1> QED BY <1>1 DEF SharePrice

\* The arithmetic of a purchase: o of t shares before, i of them bought for d at the price
\* of a / t rounded down; y what the shares were worth, p the price of one rounded up.
LEMMA BuyArithmetic ==
    ASSUME NEW o \in Nat, NEW t \in Nat \ {0}, NEW a \in Nat, NEW d \in Nat, NEW i \in Nat,
           NEW y \in Nat, NEW p \in Nat,
           o <= t, y * t <= o * a, a <= p * t, i * a <= d * t, d * t < i * a + a
    PROVE  (y + d - p) * (t + i) <= (o + i) * (a + d)
<1>1. y * i <= o * d
  <2>1. (y * t) * i <= (o * a) * i /\ (y * t) * i = (y * i) * t /\ (o * a) * i = o * (i * a)
    OBVIOUS
  <2>2. o * (i * a) <= o * (d * t) /\ o * (d * t) = (o * d) * t
    OBVIOUS
  <2>3. (y * i) * t <= (o * d) * t
    BY <2>1, <2>2
  <2> QED BY <2>3, CancelFactor, ProductNat
<1>2. (y + d - p) * (t + i) = y * t + d * t + y * i + d * i - p * t - p * i
  OBVIOUS
<1>3. (o + i) * (a + d) = o * a + o * d + i * a + i * d
  OBVIOUS
<1>4. p * i \in Nat /\ d * i = i * d
  OBVIOUS
<1> DEFINE yt == y * t  oa == o * a  dt == d * t  ia == i * a  yi == y * i  od == o * d
           pt == p * t  pin == p * i  di == d * i
<1>5. /\ yt \in Nat /\ oa \in Nat /\ dt \in Nat /\ ia \in Nat /\ yi \in Nat /\ od \in Nat
      /\ pt \in Nat /\ di \in Nat
  BY ProductNat
<1> HIDE DEF yt, oa, dt, ia, yi, od, pt, pin, di
<1>6. yt + dt + yi + di - pt - pin <= oa + od + ia + di
  BY <1>1, <1>4, <1>5 DEF yt, oa, dt, ia, yi, od, pt, pin
<1> QED BY <1>2, <1>3, <1>4, <1>6 DEF yt, oa, dt, ia, yi, od, pt, pin, di

\* The arithmetic of a redemption of k shares for r.
LEMMA RedeemArithmetic ==
    ASSUME NEW o \in Nat, NEW t \in Nat \ {0}, NEW a \in Nat, NEW k \in Nat, NEW r \in Nat,
           NEW y \in Nat, k <= o, o <= t, y * t <= o * a, r * t <= k * a, k * a < r * t + t
    PROVE  (y - r - 1) * (t - k) <= (o - k) * (a - r)
<1> DEFINE q == y - r - 1
           u == t - k
           w == o - k
<1>1. u \in Nat /\ w \in Nat /\ q \in Int
  OBVIOUS
<1>2. q * t <= w * a
  <2>1. q * t = y * t - r * t - t /\ w * a = o * a - k * a
    OBVIOUS
  <2>2. y * t \in Nat /\ r * t \in Nat /\ o * a \in Nat /\ k * a \in Nat
    BY ProductNat
  <2> QED BY <2>1, <2>2
<1>3. a * u <= (a - r) * t
  <2>1. a * u = a * t - k * a /\ (a - r) * t = a * t - r * t
    OBVIOUS
  <2>2. a * t \in Nat /\ r * t \in Nat /\ k * a \in Nat
    BY ProductNat
  <2> QED BY <2>1, <2>2
<1> HIDE DEF q, u, w
<1>4. (q * t) * u <= (w * a) * u
  BY <1>1, <1>2
<1>5. (w * a) * u = w * (a * u) /\ w * (a * u) <= w * ((a - r) * t)
  BY <1>1, <1>3
<1>6. (q * u) * t <= (w * (a - r)) * t
  <2>1. (q * t) * u = (q * u) * t /\ w * ((a - r) * t) = (w * (a - r)) * t
    BY <1>1
  <2>2. q * u \in Int /\ w * (a - r) \in Int
    BY <1>1
  <2> QED BY <1>1, <1>4, <1>5, <2>1, <2>2
<1>7. q * u <= w * (a - r)
  <2>1. \A x, z \in Int : x * t <= z * t => x <= z
    OBVIOUS
  <2> QED BY <1>1, <1>6, <2>1
<1> QED BY <1>7 DEF q, u, w

\* Deploying d costs the market less than one share's price and one unit.
LEMMA BuyLoss ==
    ASSUME TypeOK, NEW d \in Nat, d > 0 => boosted # None, PoolTakes(d)
    PROVE  ShareValue(boosted, PoolWith(d)) + SharePrice + 1 >= ShareValue(boosted, pool) + d
<1>1. SharePrice \in Nat /\ ShareValue(boosted, pool) \in Nat
  BY PriceType, ShareValueType DEF TypeOK, Pools
<1>2. CASE d = 0
  BY <1>1, <1>2 DEF PoolWith
<1>3. CASE d > 0
  <2> DEFINE a == pool[boosted].assets
             t == pool[boosted].total
             o == pool[boosted].ours
             i == SharesIssued(pool[boosted], d)
             y == ShareValue(boosted, pool)
             x == ShareValue(boosted, PoolWith(d))
             p == SharePrice
  <2>1. boosted \in Vaults /\ boosted # None
    BY <1>3, BoostedAssumption DEF TypeOK
  <2>2. a \in Nat /\ t \in Nat /\ o \in Nat /\ o <= t
    BY <2>1, PoolType
  <2>3. (t = 0 \/ a > 0) /\ i > 0
    BY <1>3 DEF PoolTakes
  <2>4. x = (IF t + i = 0 THEN 0 ELSE ((o + i) * (a + d)) \div (t + i))
    <3>1. PoolWith(d)[boosted] = [assets |-> a + d, total |-> t + i, ours |-> o + i]
      BY <1>3, <2>1 DEF PoolWith, TypeOK
    <3> QED BY <2>1, <3>1 DEF ShareValue
  <2>5. CASE t = 0
    <3>1. i = d /\ o = 0 /\ y = 0
      BY <2>2, <2>5 DEF SharesIssued, ShareValue
    <3> HIDE DEF a, t, o, i, y, x, p
    <3>2. d * (a + d) \in Nat /\ d \in Nat \ {0} /\ d * d <= d * (a + d)
      BY <1>3, <2>2
    <3>3. d <= (d * (a + d)) \div d
      BY <3>2, DivAtLeast
    <3>4. x = (d * (a + d)) \div d /\ x \in Nat
      BY <1>3, <2>4, <2>5, <3>1, <3>2, DivNat
    <3> QED BY <1>1, <3>1, <3>3, <3>4 DEF y, x, p
  <2>6. CASE t # 0
    <3>1. t \in Nat \ {0} /\ a \in Nat \ {0}
      BY <2>2, <2>3, <2>6
    <3>2. i = (d * t) \div a
      BY <2>6 DEF SharesIssued
    <3>3. y = (o * a) \div t
      BY <2>1, <2>6 DEF ShareValue
    <3>4. a <= p * t
      BY <2>1, <2>6, PriceType
    <3> HIDE DEF a, t, o, i, y, x, p
    <3>5. i \in Nat /\ i * a <= d * t /\ d * t < i * a + a
      BY <3>1, <3>2, DivNat, ProductNat
    <3>6. y \in Nat /\ y * t <= o * a
      BY <2>2, <3>1, <3>3, DivNat, ProductNat
    <3>7. p \in Nat
      BY <1>1 DEF p
    <3>8. (y + d - p) * (t + i) <= (o + i) * (a + d)
      BY <2>2, <3>1, <3>4, <3>5, <3>6, <3>7, BuyArithmetic
    <3>9. x = ((o + i) * (a + d)) \div (t + i) /\ t + i \in Nat \ {0} /\ (o + i) * (a + d) \in Nat
      BY <2>2, <2>4, <3>1, <3>5, ProductNat
    <3>10. x \in Nat
      BY <3>9, DivNat
    <3>11. y + d - p <= x
      <4>1. CASE y + d - p \in Nat
        BY <3>8, <3>9, <4>1, DivAtLeast
      <4>2. CASE y + d - p < 0
        BY <3>6, <3>7, <3>10, <4>2
      <4> QED BY <3>6, <3>7, <4>1, <4>2
    <3> QED BY <3>6, <3>7, <3>10, <3>11 DEF y, x, p
  <2> QED BY <2>5, <2>6
<1> QED BY <1>2, <1>3

\* A redemption costs the market at most one unit.
LEMMA RedeemLoss ==
    ASSUME TypeOK, NEW m \in Markets, NEW n \in Nat
    PROVE  ShareValue(boosted, PoolWithout(m, n)) + Received(m, n) + 1
             >= ShareValue(boosted, pool)
<1>1. ShareValue(boosted, pool) \in Nat
  BY ShareValueType DEF TypeOK, Pools
<1>2. CASE ~Redeems(m, n)
  BY <1>1, <1>2 DEF PoolWithout, Received
<1>3. CASE Redeems(m, n)
  <2> DEFINE a == pool[boosted].assets
             t == pool[boosted].total
             o == pool[boosted].ours
             k == SharesToWithdraw(Needed(m, n))
             r == Received(m, n)
             y == ShareValue(boosted, pool)
             x == ShareValue(boosted, PoolWithout(m, n))
  <2>1. boosted \in Vaults /\ boosted # None /\ o > 0 /\ k \in Nat /\ k <= o
    BY <1>3, SharesType, BoostedAssumption DEF Redeems, HasShares
  <2>2. a \in Nat /\ t \in Nat \ {0} /\ o \in Nat /\ o <= t
    BY <2>1, PoolType
  <2>3. r = (k * a) \div t /\ y = (o * a) \div t
    BY <1>3, <2>1, <2>2 DEF Received, Quote, ShareValue
  <2>4. x = (IF t - k = 0 THEN 0 ELSE ((o - k) * (a - r)) \div (t - k))
    <3>1. PoolWithout(m, n)[boosted] = [assets |-> a - r, total |-> t - k, ours |-> o - k]
      BY <1>3, <2>1 DEF PoolWithout, TypeOK
    <3> QED BY <2>1, <3>1 DEF ShareValue
  <2>5. r \in Nat /\ r <= a
    BY <1>3, ReceivedType
  <2> HIDE DEF a, t, o, k, r, y, x
  <2>6. r * t <= k * a /\ k * a < r * t + t
    BY <2>1, <2>2, <2>3, DivNat, ProductNat
  <2>7. y \in Nat /\ y * t <= o * a
    BY <2>2, <2>3, DivNat, ProductNat
  <2>8. CASE t = k
    <3>1. o = k
      BY <2>1, <2>2, <2>8
    <3>2. x = 0 /\ r = y
      BY <2>2, <2>3, <2>4, <2>8, <3>1
    <3> QED BY <2>7, <3>2 DEF x, r, y
  <2>9. CASE t # k
    <3>1. (y - r - 1) * (t - k) <= (o - k) * (a - r)
      BY <2>1, <2>2, <2>5, <2>6, <2>7, RedeemArithmetic
    <3>2. t - k \in Nat \ {0} /\ o - k \in Nat /\ a - r \in Nat
      BY <2>1, <2>2, <2>5, <2>9
    <3>3. (o - k) * (a - r) \in Nat
      BY <3>2, ProductNat
    <3>4. x = ((o - k) * (a - r)) \div (t - k)
      BY <2>4, <3>2
    <3>5. x \in Nat
      BY <3>2, <3>3, <3>4, DivNat
    <3>6. y - r - 1 <= x
      <4>1. CASE y - r - 1 \in Nat
        BY <3>1, <3>2, <3>3, <3>4, <4>1, DivAtLeast
      <4>2. CASE y - r - 1 < 0
        BY <2>5, <2>7, <3>5, <4>2
      <4> QED BY <2>5, <2>7, <4>1, <4>2
    <3> QED BY <2>5, <2>7, <3>5, <3>6 DEF x, r, y
  <2> QED BY <2>8, <2>9
<1> QED BY <1>2, <1>3

LEMMA DivInt ==
    ASSUME NEW a \in Int, NEW b \in Nat \ {0}
    PROVE  a \div b \in Int /\ (a \div b) * b <= a /\ a < (a \div b) * b + b
  OBVIOUS

LEMMA DivIntAtLeast ==
    ASSUME NEW a \in Int, NEW b \in Nat \ {0}, NEW q \in Int, q * b <= a
    PROVE  q <= a \div b
<1> DEFINE c == a \div b
<1>1. c \in Int /\ a < c * b + b
  BY DivInt
<1> HIDE DEF c
<1>2. q * b < (c + 1) * b
  BY <1>1
<1>3. q < c + 1
  BY <1>1, <1>2
<1> QED BY <1>1, <1>3 DEF c

\* More worth, or no less worth per pToken, is no lower a rate.
LEMMA RateAtLeast ==
    ASSUME NEW v \in Int, NEW s \in Nat \ {0}, NEW w \in Int, NEW z \in Nat \ {0},
           NEW r \in Int, RateOf(v, s) <= r, r * z <= w * Scale
    PROVE  RateOf(v, s) <= RateOf(w, z)
<1>1. w * Scale \in Int /\ v * Scale \in Int
  BY BoostedAssumption
<1>2. RateOf(w, z) = (w * Scale) \div z /\ RateOf(v, s) = (v * Scale) \div s
  BY DEF RateOf
<1>3. r <= RateOf(w, z)
  BY <1>1, <1>2, DivIntAtLeast
<1> QED BY <1>1, <1>2, <1>3, DivInt

LEMMA RateRises ==
    ASSUME NEW v \in Int, NEW w \in Int, NEW s \in Nat \ {0}, v <= w
    PROVE  /\ RateOf(v, s) \in Int /\ RateOf(v, s) * s <= v * Scale
           /\ RateOf(v, s) <= RateOf(w, s)
<1>1. Scale \in Nat /\ v * Scale \in Int /\ w * Scale \in Int
  BY BoostedAssumption
<1>2. RateOf(v, s) = (v * Scale) \div s
  BY DEF RateOf
<1>3. RateOf(v, s) \in Int /\ RateOf(v, s) * s <= v * Scale
  BY <1>1, <1>2, DivInt
<1>4. v * Scale <= w * Scale
  BY <1>1
<1>5. RateOf(v, s) * s <= w * Scale
  <2> DEFINE x == RateOf(v, s) * s
  <2>1. x \in Int
    BY <1>3
  <2> HIDE DEF x
  <2> QED BY <1>1, <1>3, <1>4, <2>1 DEF x
<1> QED BY <1>3, <1>5, RateAtLeast

\* What a holder has after a step, but for the rounding of one share, is no less.
HoldersGain == RateOf(Worth' + SharePrice + 1, market'.supply) >= RateOf(Worth, market.supply)

LEMMA BothWorths ==
    ASSUME BooksInv, BooksInv'
    PROVE  /\ Worth = Book(market) + ShareValue(boosted, pool)
           /\ Worth' = Book(market') + ShareValue(boosted', pool')
           /\ ShareValue(boosted, pool) \in Nat /\ ShareValue(boosted', pool') \in Nat
           /\ market \in Markets /\ market' \in Markets
           /\ Book(market) \in Int /\ Book(market') \in Int
           /\ SharePrice \in Nat
<1>1. TypeOK /\ TypeOK' /\ market \in Markets /\ market' \in Markets
  BY DEF BooksInv, TypeOK, Markets
<1>2. /\ pool \in [Vaults -> Pools] /\ boosted \in Vaults \cup {None}
      /\ pool' \in [Vaults -> Pools] /\ boosted' \in Vaults \cup {None}
  BY <1>1 DEF TypeOK, Pools
<1>3. Book(market) \in Int /\ Book(market') \in Int
  BY <1>1 DEF Book, Markets
<1> QED BY <1>1, <1>2, <1>3, WorthSplit, WorthSplitNext, ShareValueType, PriceType

LEMMA SameSupply ==
    ASSUME BooksInv, BooksInv', market.supply > 0, market'.supply = market.supply,
           Book(market') + ShareValue(boosted', pool') + SharePrice + 1
             >= Book(market) + ShareValue(boosted, pool)
    PROVE  HoldersGain
<1>1. market.supply \in Nat \ {0}
  BY BothWorths DEF Markets
<1>2. Worth \in Int /\ Worth' + SharePrice + 1 \in Int /\ Worth <= Worth' + SharePrice + 1
  BY BothWorths
<1>3. RateOf(Worth' + SharePrice + 1, market.supply) \in Int
  BY <1>1, <1>2, RateRises
<1> QED BY <1>1, <1>2, <1>3, RateRises DEF HoldersGain

LEMMA AccruedBook ==
    ASSUME BooksInv
    PROVE  /\ Accrued \in Markets /\ Accrued.supply = market.supply /\ Accrued.cash = market.cash
           /\ Book(Accrued) \in Int /\ Book(market) <= Book(Accrued)
<1> DEFINE f == (market.due * ReserveFactor) \div Scale
<1>1. market \in Markets /\ Accrued \in Markets
  BY AccruedBooks
<1>2. f \in Nat /\ f <= market.due
  <2>1. market.due \in Nat /\ ReserveFactor \in Nat /\ ReserveFactor <= Scale /\ Scale \in Nat \ {0}
    BY <1>1, BoostedAssumption DEF Markets
  <2>2. f \in Nat /\ f * Scale <= market.due * ReserveFactor
    BY <2>1, DivNat, ProductNat
  <2>3. market.due * ReserveFactor <= market.due * Scale
    BY <2>1
  <2> HIDE DEF f
  <2>4. f * Scale <= market.due * Scale
    BY <2>1, <2>2, <2>3, ProductNat
  <2> QED BY <2>1, <2>2, <2>4, CancelFactor
<1>3. /\ Accrued.cash = market.cash /\ Accrued.borrowed = market.borrowed + market.due
      /\ Accrued.reserves = market.reserves + f /\ Accrued.supply = market.supply
  BY <1>1 DEF Accrued, Markets
<1> HIDE DEF f
<1>4. /\ market.cash \in Nat /\ market.borrowed \in Nat /\ market.reserves \in Nat
      /\ market.due \in Nat
  BY <1>1 DEF Markets
<1> QED BY <1>1, <1>2, <1>3, <1>4 DEF Book

\* Tokens paid or deployed lower the books by no more, tokens received raise them.
LEMMA TokenBooks ==
    ASSUME NEW m \in Markets, NEW n \in Nat
    PROVE  /\ Book(TokensOut(m, n)) >= Book(m) - n /\ Book(TokensOut(m, n)) \in Int
           /\ Book(Deployed(m, n)) >= Book(m) - n /\ Book(Deployed(m, n)) \in Int
           /\ Book(TokensIn(m, n)) = Book(m) + n
           /\ TokensOut(m, n).supply = m.supply /\ Deployed(m, n).supply = m.supply
           /\ TokensIn(m, n).supply = m.supply
<1>1. m.cash \in Nat /\ m.borrowed \in Nat /\ m.reserves \in Nat
  BY DEF Markets
<1>2. ASSUME NEW k \in {TokensOut(m, n), Deployed(m, n)}
      PROVE  /\ k.cash = Minus(m.cash, n) /\ k.borrowed = m.borrowed
             /\ k.reserves = m.reserves /\ k.supply = m.supply
  BY DEF TokensOut, Deployed, Markets
<1>3. /\ TokensIn(m, n).cash = m.cash + n /\ TokensIn(m, n).borrowed = m.borrowed
      /\ TokensIn(m, n).reserves = m.reserves /\ TokensIn(m, n).supply = m.supply
  BY DEF TokensIn, Markets
<1>4. Minus(m.cash, n) \in Nat /\ Minus(m.cash, n) >= m.cash - n
  BY <1>1 DEF Minus
<1>5. ASSUME NEW k \in {TokensOut(m, n), Deployed(m, n)}
      PROVE  Book(k) >= Book(m) - n /\ Book(k) \in Int
  BY <1>1, <1>2, <1>4 DEF Book
<1> QED BY <1>1, <1>2, <1>3, <1>5 DEF Book

LEMMA PaidBooks ==
    ASSUME TypeOK, NEW m \in Markets, Backed(m), NEW asked \in Nat, NEW n \in Nat
    PROVE  LET k == TokensOut(Redeemed(m, asked), n)
           IN /\ Book(k) >= Book(m) + Received(m, asked) - n /\ Book(k) \in Int
              /\ k.supply = m.supply /\ Received(m, asked) \in Nat /\ Book(m) \in Int
<1> DEFINE j == Redeemed(m, asked)
           r == Received(m, asked)
<1>1. j \in Markets /\ r \in Nat
  BY RedeemedType, ReceivedType
<1>2. m.cash \in Nat /\ m.borrowed \in Nat /\ m.reserves \in Nat
  BY DEF Markets
<1>3. /\ j.cash = m.cash + r /\ j.borrowed = m.borrowed /\ j.reserves = m.reserves
      /\ j.supply = m.supply
  BY DEF Redeemed, Markets
<1> HIDE DEF j, r
<1>4. Book(j) = Book(m) + r /\ Book(m) \in Int
  BY <1>1, <1>2, <1>3 DEF Book
<1>5. Book(TokensOut(j, n)) >= Book(j) - n /\ Book(TokensOut(j, n)) \in Int
      /\ TokensOut(j, n).supply = j.supply
  BY <1>1, TokenBooks
<1> QED BY <1>1, <1>3, <1>4, <1>5 DEF j, r

LEMMA RateInt == ASSUME NEW v \in Int, NEW s \in Nat \ {0} PROVE RateOf(v, s) \in Int
<1>1. v <= v
  OBVIOUS
<1> QED BY <1>1, RateRises

\* With the boosted vault in sight, a readable rate is the rate of what the market has.
LEMMA RateInSight ==
    ASSUME TypeOK, InSight, NEW m \in Markets, m.supply > 0, RateReadable(m)
    PROVE  /\ TotalUnderlying(m) = Book(m) + ShareValue(boosted, pool)
           /\ ExchangeRate(m) = RateOf(Book(m) + ShareValue(boosted, pool), m.supply)
<1>1. Boosted(m) = ShareValue(boosted, pool)
  <2>1. CASE Answers
    BY <2>1 DEF Answers, Boosted, HasShares, Quote, ShareValue
  <2>2. CASE ~HasShares
    <3>1. boosted = None \/ pool[boosted].ours = 0
      BY <2>2 DEF HasShares, TypeOK
    <3>2. ShareValue(boosted, pool) = 0
      BY <3>1, SharesValued DEF ShareValue, TypeOK, Pools
    <3> QED BY <2>2, <3>2 DEF Boosted
  <2> QED BY <2>1, <2>2 DEF InSight
<1>2. ShareValue(boosted, pool) \in Nat
  BY ShareValueType DEF TypeOK, Pools
<1>3. m.cash \in Nat /\ m.borrowed \in Nat /\ m.reserves \in Nat /\ m.supply \in Nat
  BY DEF Markets
<1>4. TotalUnderlying(m) # 0
  BY <1>3 DEF RateReadable
<1>5. TotalUnderlying(m) = Book(m) + ShareValue(boosted, pool)
  BY <1>1, <1>2, <1>3, <1>4 DEF TotalUnderlying, Minus, Book
<1> QED BY <1>5 DEF ExchangeRate

LEMMA DepositGain ==
    ASSUME BooksInv, BooksInv', InSight, market.supply > 0, market'.supply > 0,
           NEW n \in Amounts, Deposit(n)
    PROVE  HoldersGain
<1> DEFINE before == Accrued
           minted == (n * Scale) \div ExchangeRate(before)
           after  == TokensIn(before, n)
           spare  == IF buffer = 0 THEN n ELSE Least(n, Minus(after.live, DesiredIdle(after)))
           moved  == DeployAmount(after, spare)
           final  == Deployed(after, moved)
           have   == Book(before) + ShareValue(boosted, pool)
           s      == final.supply + minted
           d      == final.deposited + n
<1>1. n \in Nat /\ Scale \in Nat \ {0}
  BY BoostedAssumption
<1>2. TypeOK /\ before \in Markets /\ Backed(before)
  BY AccruedBooks
<1>3. before.supply = market.supply /\ Book(before) \in Int /\ Book(market) <= Book(before)
  BY AccruedBook
<1>4. RateReadable(before) /\ ExchangeRate(before) > 0 /\ ExchangeRate(before) \in Nat
  BY <1>2, RateType DEF Deposit
<1>5. minted \in Nat /\ minted * ExchangeRate(before) <= n * Scale
  BY <1>1, <1>4, DivNat, ProductNat
<1>6. ExchangeRate(before) = RateOf(have, market.supply)
  BY <1>2, <1>3, <1>4, RateInSight
<1> HIDE DEF before, minted
<1>7. after \in Markets /\ Backed(after) /\ Book(after) = Book(before) + n
      /\ after.supply = before.supply
  BY <1>1, <1>2, TokensInType, TokenBooks
<1> HIDE DEF after
<1>8. DesiredIdle(after) \in Nat
  <2>1. buffer \in Nat /\ TotalUnderlying(after) \in Nat
    BY <1>2, <1>7, TotalsType, BoostedAssumption DEF TypeOK
  <2> QED BY <2>1, DivNat, ProductNat, BoostedAssumption DEF DesiredIdle
<1>9. spare \in Nat
  BY <1>1, <1>7, <1>8 DEF Least, Minus, Markets
<1> HIDE DEF spare
<1>10. moved \in Nat /\ moved <= after.live /\ (moved > 0 => boosted # None)
  BY <1>7, <1>9, DeployAmountType
<1>11. PoolTakes(moved) /\ pool' = PoolWith(moved) /\ boosted' = boosted
  BY DEF Deposit, before, after, spare
<1>12. market' = [final EXCEPT !.supply = @ + minted, !.deposited = @ + n]
  BY DEF Deposit, before, minted, after, spare
<1> HIDE DEF moved
<1>13. final \in Markets /\ Book(final) >= Book(after) - moved /\ Book(final) \in Int
       /\ final.supply = after.supply
  BY <1>7, <1>10, TokensOutType, TokenBooks
<1> HIDE DEF final
<1>14. s \in Nat /\ d \in Nat /\ s = market.supply + minted
  BY <1>1, <1>3, <1>5, <1>7, <1>13 DEF Markets
<1>15. market' = [final EXCEPT !.supply = s, !.deposited = d]
  BY <1>12, <1>13 DEF Markets
<1>16. Book(market') = Book(final) /\ market'.supply = s
  <2> HIDE DEF s, d
  <2> QED BY <1>13, <1>14, <1>15 DEF Book, Markets
<1>17. ShareValue(boosted', pool') + SharePrice + 1 >= ShareValue(boosted, pool) + moved
  BY <1>2, <1>10, <1>11, BuyLoss
<1>18. Worth' + SharePrice + 1 >= have + n /\ Worth <= have
       /\ have \in Int /\ Worth \in Int /\ Worth' + SharePrice + 1 \in Int
  BY <1>1, <1>3, <1>7, <1>10, <1>13, <1>16, <1>17, BothWorths
<1> HIDE DEF have
<1>19. market.supply \in Nat \ {0} /\ market'.supply \in Nat \ {0}
  BY BothWorths DEF Markets
<1>20. RateOf(Worth, market.supply) <= ExchangeRate(before)
       /\ ExchangeRate(before) * market.supply <= have * Scale
  BY <1>6, <1>18, <1>19, RateRises
<1>21. ExchangeRate(before) * market'.supply <= (Worth' + SharePrice + 1) * Scale
  <2> DEFINE e == ExchangeRate(before)
             w == Worth' + SharePrice + 1
  <2>1. e * (market.supply + minted) = e * market.supply + minted * e
    BY <1>4, <1>5, <1>19
  <2>2. (have + n) * Scale = have * Scale + n * Scale /\ (have + n) * Scale <= w * Scale
    <3> HIDE DEF w
    <3>1. w \in Int /\ have + n <= w
      BY <1>18 DEF w
    <3> QED BY <1>1, <1>18, <3>1
  <2>3. /\ e * market.supply \in Int /\ minted * e \in Int /\ have * Scale \in Int
        /\ n * Scale \in Int /\ w * Scale \in Int
    BY <1>1, <1>4, <1>5, <1>18, <1>19
  <2> HIDE DEF e, w
  <2>4. e * market'.supply <= w * Scale
    BY <1>5, <1>14, <1>16, <1>20, <2>1, <2>2, <2>3 DEF e
  <2> QED BY <2>4 DEF e, w
<1>22. RateOf(Worth, market.supply) <= RateOf(Worth' + SharePrice + 1, market'.supply)
  BY <1>4, <1>18, <1>19, <1>20, <1>21, RateAtLeast
<1>23. RateOf(Worth, market.supply) \in Int
       /\ RateOf(Worth' + SharePrice + 1, market'.supply) \in Int
  BY <1>18, <1>19, RateInt
<1> QED BY <1>22, <1>23 DEF HoldersGain

LEMMA WithdrawGain ==
    ASSUME BooksInv, BooksInv', InSight, market.supply > 0, market'.supply > 0,
           NEW n \in PTokenAmounts, Withdraw(n)
    PROVE  HoldersGain
<1> DEFINE before == Accrued
           back   == (n * ExchangeRate(before)) \div Scale
           final  == TokensOut(Redeemed(before, back), back)
           have   == Book(before) + ShareValue(boosted, pool)
           s      == final.supply - n
           d      == Minus(final.deposited, back)
<1>1. n \in Nat /\ Scale \in Nat \ {0}
  BY BoostedAssumption
<1>2. TypeOK /\ before \in Markets /\ Backed(before)
  BY AccruedBooks
<1>3. before.supply = market.supply /\ Book(before) \in Int /\ Book(market) <= Book(before)
  BY AccruedBook
<1>4. RateReadable(before) /\ ExchangeRate(before) \in Nat /\ n <= before.supply
      /\ Payable(before, back)
  BY <1>2, RateType DEF Withdraw
<1>5. back \in Nat /\ back * Scale <= n * ExchangeRate(before)
  BY <1>1, <1>4, DivNat, ProductNat
<1>6. ExchangeRate(before) = RateOf(have, market.supply)
  BY <1>2, <1>3, <1>4, RateInSight
<1>7. /\ market' = [final EXCEPT !.supply = @ - n, !.deposited = Minus(@, back)]
      /\ pool' = PoolWithout(before, back) /\ boosted' = boosted
  BY DEF Withdraw
<1> HIDE DEF before, back
<1>8. final \in Markets
  BY <1>1, <1>2, <1>4, <1>5, PaidOut
<1>9. /\ Book(final) >= Book(before) + Received(before, back) - back /\ Book(final) \in Int
      /\ final.supply = before.supply /\ Received(before, back) \in Nat
  BY <1>2, <1>5, PaidBooks
<1> HIDE DEF final
<1>10. s \in Nat /\ d \in Nat /\ s = market.supply - n
  BY <1>1, <1>2, <1>3, <1>4, <1>5, <1>8, <1>9 DEF Markets, Minus
<1>11. market' = [final EXCEPT !.supply = s, !.deposited = d]
  BY <1>7, <1>8 DEF Markets
<1>12. Book(market') = Book(final) /\ market'.supply = s
  <2> HIDE DEF s, d
  <2> QED BY <1>8, <1>10, <1>11 DEF Book, Markets
<1>13. ShareValue(boosted', pool') + Received(before, back) + 1 >= ShareValue(boosted, pool)
  BY <1>2, <1>5, <1>7, RedeemLoss
<1>14. Worth' + SharePrice + 1 >= have - back /\ Worth <= have
       /\ have \in Int /\ Worth \in Int /\ Worth' + SharePrice + 1 \in Int
  BY <1>3, <1>5, <1>9, <1>12, <1>13, BothWorths
<1> HIDE DEF have
<1>15. market.supply \in Nat \ {0} /\ market'.supply \in Nat \ {0}
  BY BothWorths DEF Markets
<1>16. RateOf(Worth, market.supply) <= ExchangeRate(before)
       /\ ExchangeRate(before) * market.supply <= have * Scale
  BY <1>6, <1>14, <1>15, RateRises
<1>17. ExchangeRate(before) * market'.supply <= (Worth' + SharePrice + 1) * Scale
  <2> DEFINE e == ExchangeRate(before)
             w == Worth' + SharePrice + 1
  <2>1. e * (market.supply - n) = e * market.supply - n * e
    BY <1>1, <1>4, <1>15
  <2>2. (have - back) * Scale = have * Scale - back * Scale
        /\ (have - back) * Scale <= w * Scale
    <3> HIDE DEF w
    <3>1. w \in Int /\ have - back <= w
      BY <1>14 DEF w
    <3> QED BY <1>1, <1>5, <1>14, <3>1
  <2>3. /\ e * market.supply \in Int /\ n * e \in Int /\ have * Scale \in Int
        /\ back * Scale \in Int /\ w * Scale \in Int
    BY <1>1, <1>4, <1>5, <1>14, <1>15
  <2> HIDE DEF e, w
  <2>4. e * market'.supply <= w * Scale
    BY <1>5, <1>10, <1>12, <1>16, <2>1, <2>2, <2>3 DEF e
  <2> QED BY <2>4 DEF e, w
<1>18. RateOf(Worth, market.supply) <= RateOf(Worth' + SharePrice + 1, market'.supply)
  BY <1>4, <1>14, <1>15, <1>16, <1>17, RateAtLeast
<1>19. RateOf(Worth, market.supply) \in Int
       /\ RateOf(Worth' + SharePrice + 1, market'.supply) \in Int
  BY <1>14, <1>15, RateInt
<1> QED BY <1>18, <1>19 DEF HoldersGain

LEMMA BorrowGain ==
    ASSUME BooksInv, BooksInv', market.supply > 0, NEW n \in Amounts, Borrow(n)
    PROVE  HoldersGain
<1> DEFINE before == Accrued
           asked  == IF before.cash < n THEN n ELSE 0
           final  == TokensOut(Redeemed(before, asked), n)
           b      == final.borrowed + n
<1>1. TypeOK /\ before \in Markets /\ Backed(before) /\ n \in Nat
  BY AccruedBooks, BoostedAssumption
<1>2. before.supply = market.supply /\ Book(before) \in Int /\ Book(market) <= Book(before)
  BY AccruedBook
<1>3. asked \in Nat /\ (n <= asked \/ n <= before.live)
  BY <1>1 DEF Markets, Backed
<1>4. /\ Payable(before, asked) /\ market' = [final EXCEPT !.borrowed = @ + n]
      /\ pool' = PoolWithout(before, asked) /\ boosted' = boosted
  BY DEF Borrow
<1> HIDE DEF before, asked
<1>5. final \in Markets
  BY <1>1, <1>3, <1>4, PaidOut
<1>6. /\ Book(final) >= Book(before) + Received(before, asked) - n /\ Book(final) \in Int
      /\ final.supply = before.supply /\ Received(before, asked) \in Nat
  BY <1>1, <1>3, PaidBooks
<1> HIDE DEF final
<1>7. b = final.borrowed + n /\ b \in Nat /\ market' = [final EXCEPT !.borrowed = b]
  BY <1>1, <1>4, <1>5 DEF Markets
<1> HIDE DEF b
<1>8. Book(market') = Book(final) + n /\ market'.supply = market.supply
  BY <1>1, <1>2, <1>5, <1>6, <1>7 DEF Book, Markets
<1>9. ShareValue(boosted', pool') + Received(before, asked) + 1 >= ShareValue(boosted, pool)
  BY <1>1, <1>3, <1>4, RedeemLoss
<1> QED BY <1>1, <1>2, <1>6, <1>8, <1>9, BothWorths, SameSupply

LEMMA FlashLoanGain ==
    ASSUME BooksInv, BooksInv', market.supply > 0, NEW n \in Amounts, NEW extra \in Extras,
           FlashLoan(n, extra)
    PROVE  HoldersGain
<1> DEFINE before == Accrued
           lent   == TokensOut(Redeemed(before, n), n)
           final  == TokensIn(lent, n + extra)
           r      == final.reserves + extra
<1>1. TypeOK /\ before \in Markets /\ Backed(before) /\ n \in Nat /\ extra \in Nat
  BY AccruedBooks, BoostedAssumption
<1>2. before.supply = market.supply /\ Book(before) \in Int /\ Book(market) <= Book(before)
  BY AccruedBook
<1>3. /\ Payable(before, n) /\ market' = [final EXCEPT !.reserves = @ + extra]
      /\ pool' = PoolWithout(before, n) /\ boosted' = boosted
  BY DEF FlashLoan
<1> HIDE DEF before
<1>4. lent \in Markets /\ Backed(lent)
  BY <1>1, <1>3, PaidOut
<1>5. /\ Book(lent) >= Book(before) + Received(before, n) - n /\ Book(lent) \in Int
      /\ lent.supply = before.supply /\ Received(before, n) \in Nat
  BY <1>1, PaidBooks
<1> HIDE DEF lent
<1>6. final \in Markets /\ Book(final) = Book(lent) + n + extra /\ final.supply = lent.supply
  <2>1. n + extra \in Nat
    BY <1>1
  <2>2. Book(final) = Book(lent) + (n + extra)
    BY <1>4, <2>1, TokenBooks
  <2> QED BY <1>1, <1>4, <1>5, <2>1, <2>2, TokensInType, TokenBooks
<1> HIDE DEF final
<1>7. r = final.reserves + extra /\ r \in Nat /\ market' = [final EXCEPT !.reserves = r]
  BY <1>1, <1>3, <1>6 DEF Markets
<1> HIDE DEF r
<1>8. Book(market') = Book(lent) + n /\ market'.supply = market.supply
  <2>1. Book(market') = Book(final) - extra /\ market'.supply = final.supply
    BY <1>1, <1>6, <1>7 DEF Book, Markets
  <2> QED BY <1>1, <1>2, <1>5, <1>6, <2>1
<1>9. ShareValue(boosted', pool') + Received(before, n) + 1 >= ShareValue(boosted, pool)
  BY <1>1, <1>3, RedeemLoss
<1> QED BY <1>1, <1>2, <1>5, <1>8, <1>9, BothWorths, SameSupply

LEMMA RepayGain ==
    ASSUME BooksInv, BooksInv', market.supply > 0, NEW n \in Amounts, NEW later \in BOOLEAN,
           Repay(n, later)
    PROVE  HoldersGain
<1> DEFINE before == Accrued
           final  == TokensIn(before, n)
           b      == final.borrowed - n
<1>1. TypeOK /\ market \in Markets /\ before \in Markets /\ Backed(before) /\ n \in Nat
  BY AccruedBooks, BoostedAssumption
<1>2. before.supply = market.supply /\ Book(before) \in Int /\ Book(market) <= Book(before)
  BY AccruedBook
<1>3. market' = [final EXCEPT !.borrowed = @ - n] /\ pool' = pool /\ boosted' = boosted
  BY DEF Repay
<1> HIDE DEF before
<1>4. final \in Markets /\ Book(final) = Book(before) + n /\ final.supply = before.supply
  BY <1>1, TokensInType, TokenBooks
<1> HIDE DEF final
<1>5. b = final.borrowed - n /\ b \in Int /\ market' = [final EXCEPT !.borrowed = b]
  BY <1>1, <1>3, <1>4 DEF Markets
<1> HIDE DEF b
<1>6. Book(market') = Book(final) - n /\ market'.supply = market.supply
  BY <1>1, <1>2, <1>4, <1>5 DEF Book, Markets
<1> QED BY <1>1, <1>2, <1>3, <1>4, <1>6, BothWorths, SameSupply

LEMMA InterestGain ==
    ASSUME BooksInv, BooksInv', market.supply > 0, UpdateInterest
    PROVE  HoldersGain
  BY AccruedBook, BothWorths, SameSupply DEF UpdateInterest

LEMMA RebalanceGain ==
    ASSUME BooksInv, BooksInv', market.supply > 0, RebalanceIdleCash
    PROVE  HoldersGain
<1> DEFINE idle  == Minus(market.live, DesiredIdle(market))
           moved == DeployAmount(market, idle)
<1>1. TypeOK /\ market \in Markets
  BY AccruedBooks DEF BooksInv
<1>2. DesiredIdle(market) \in Nat
  <2>1. buffer \in Nat /\ TotalUnderlying(market) \in Nat
    BY <1>1, TotalsType, BoostedAssumption DEF TypeOK
  <2> QED BY <2>1, DivNat, ProductNat, BoostedAssumption DEF DesiredIdle
<1>3. idle \in Nat
  BY <1>1, <1>2 DEF Minus, Markets
<1>4. /\ PoolTakes(moved) /\ pool' = PoolWith(moved) /\ market' = Deployed(market, moved)
      /\ boosted' = boosted
  BY DEF RebalanceIdleCash
<1> HIDE DEF idle
<1>5. moved \in Nat /\ (moved > 0 => boosted # None)
  BY <1>1, <1>3, DeployAmountType
<1> HIDE DEF moved
<1>6. Book(market') >= Book(market) - moved /\ market'.supply = market.supply
  BY <1>1, <1>4, <1>5, TokenBooks
<1>7. ShareValue(boosted', pool') + SharePrice + 1 >= ShareValue(boosted, pool) + moved
  BY <1>1, <1>4, <1>5, BuyLoss
<1> QED BY <1>5, <1>6, <1>7, BothWorths, SameSupply

LEMMA ReduceGain ==
    ASSUME BooksInv, BooksInv', market.supply > 0, NEW n \in Extras, ReduceReserves(n)
    PROVE  HoldersGain
<1> DEFINE final == TokensOut(market, n)
           r     == final.reserves - n
<1>1. market \in Markets /\ n \in Nat
  BY AccruedBooks, BoostedAssumption DEF BooksInv
<1>2. /\ n <= market.reserves /\ n <= market.live
      /\ market' = [final EXCEPT !.reserves = @ - n] /\ pool' = pool /\ boosted' = boosted
  BY DEF ReduceReserves
<1>3. /\ Book(final) >= Book(market) - n /\ Book(final) \in Int
      /\ final.supply = market.supply
  BY <1>1, TokenBooks
<1>4. final \in Markets /\ final.reserves = market.reserves
  BY <1>1, <1>2, AccruedBooks, TokensOutType DEF TokensOut, Markets, BooksInv
<1> HIDE DEF final
<1>5. r = final.reserves - n /\ r \in Nat /\ market' = [final EXCEPT !.reserves = r]
  BY <1>1, <1>2, <1>4 DEF Markets
<1> HIDE DEF r
<1>6. Book(market') = Book(final) + n /\ market'.supply = market.supply
  BY <1>1, <1>3, <1>4, <1>5 DEF Book, Markets
<1> QED BY <1>1, <1>2, <1>3, <1>6, BothWorths, SameSupply

\* Settings, time, gifts and outages leave the books and the shares where they are.
LEMMA QuietGain ==
    ASSUME BooksInv, BooksInv', market.supply > 0, boosted' = boosted, pool' = pool,
           Book(market') = Book(market), market'.supply = market.supply
    PROVE  HoldersGain
  BY BothWorths, SameSupply

LEMMA TickGain ==
    ASSUME BooksInv, BooksInv', market.supply > 0, NEW i \in Interests, NEW e \in BOOLEAN,
           Tick(i, e)
    PROVE  HoldersGain
<1> DEFINE d == market.due + i
<1>1. market \in Markets
  BY BothWorths
<1>2. market' = [market EXCEPT !.due = d] /\ pool' = pool /\ boosted' = boosted
  BY <1>1 DEF Tick, Markets
<1> HIDE DEF d
<1>3. Book(market') = Book(market) /\ market'.supply = market.supply
  BY <1>1, <1>2 DEF Book, Markets
<1> QED BY <1>2, <1>3, QuietGain

LEMMA DonateGain ==
    ASSUME BooksInv, BooksInv', market.supply > 0, NEW n \in Amounts, Donate(n)
    PROVE  HoldersGain
<1> DEFINE l == market.live + n
<1>1. market \in Markets
  BY BothWorths
<1>2. market' = [market EXCEPT !.live = l] /\ pool' = pool /\ boosted' = boosted
  BY <1>1 DEF Donate, Markets
<1> HIDE DEF l
<1>3. Book(market') = Book(market) /\ market'.supply = market.supply
  BY <1>1, <1>2 DEF Book, Markets
<1> QED BY <1>2, <1>3, QuietGain

LEMMA SettingGain ==
    ASSUME BooksInv, BooksInv', market.supply > 0, boosted' = boosted,
           \/ \E v \in Vaults : SetBoostedVault(v)
           \/ \E bps \in Buffers : SetIdleCashBuffer(bps)
           \/ Outage
    PROVE  HoldersGain
<1>1. market' = market /\ pool' = pool
  BY DEF SetBoostedVault, SetIdleCashBuffer, Outage
<1> QED BY <1>1, QuietGain

\* What another boosted vault has is nothing to the market.
LEMMA ElsewhereGain ==
    ASSUME BooksInv, BooksInv', market.supply > 0, NEW v \in Vaults, v # boosted,
           NEW a, pool' = [pool EXCEPT ![v].assets = a], UNCHANGED <<market, boosted>>
    PROVE  HoldersGain
<1>1. ShareValue(boosted', pool') = ShareValue(boosted, pool)
  <2>1. boosted # None => pool'[boosted] = pool[boosted]
    BY DEF BooksInv, TypeOK
  <2> QED BY <2>1 DEF ShareValue
<1> QED BY <1>1, BothWorths, SameSupply

LEMMA PoolGainsGain ==
    ASSUME BooksInv, BooksInv', market.supply > 0, NEW v \in Vaults, NEW n \in Amounts,
           PoolGains(v, n)
    PROVE  HoldersGain
<1> DEFINE more == pool[v].assets + n
<1>1. pool' = [pool EXCEPT ![v].assets = more] /\ UNCHANGED <<market, boosted>>
  BY DEF PoolGains
<1>2. CASE v # boosted
  <2> HIDE DEF more
  <2> QED BY <1>1, <1>2, ElsewhereGain
<1>3. CASE v = boosted
  <2> DEFINE a == pool[v].assets
             t == pool[v].total
             o == pool[v].ours
  <2>1. TypeOK /\ n \in Nat /\ v # None
    BY BoostedAssumption DEF BooksInv
  <2>2. a \in Nat /\ o \in Nat /\ t \in Nat \ {0}
    <3>1. t > 0
      BY DEF PoolGains
    <3> QED BY <2>1, <3>1, PoolType
  <2>3. ShareValue(boosted, pool) = (o * a) \div t
    BY <1>3, <2>1, <2>2 DEF ShareValue
  <2>4. ShareValue(boosted', pool') = (o * (a + n)) \div t
    <3>1. pool'[v].assets = a + n /\ pool'[v].total = t /\ pool'[v].ours = o
      BY <1>1, <2>1 DEF TypeOK
    <3> QED BY <1>1, <1>3, <2>1, <2>2, <3>1 DEF ShareValue
  <2> HIDE DEF a, t, o
  <2>5. o * a \in Nat /\ o * (a + n) \in Nat /\ o * a <= o * (a + n)
    BY <2>1, <2>2
  <2>6. (o * a) \div t <= (o * (a + n)) \div t
    <3> DEFINE x == o * a
               z == o * (a + n)
    <3> HIDE DEF x, z
    <3>1. x \in Nat /\ z \in Nat /\ x <= z
      BY <2>5 DEF x, z
    <3>2. x \div t \in Nat /\ (x \div t) * t <= x
      BY <2>2, <3>1, DivNat
    <3>3. (x \div t) * t <= z
      BY <2>2, <3>1, <3>2, ProductNat
    <3>4. x \div t <= z \div t
      BY <2>2, <3>1, <3>2, <3>3, DivAtLeast
    <3> QED BY <3>4 DEF x, z
  <2> QED BY <1>1, <2>3, <2>4, <2>6, BothWorths, SameSupply
<1> QED BY <1>2, <1>3

LEMMA PoolLosesGain ==
    ASSUME BooksInv, BooksInv', market.supply > 0, NEW v \in Vaults, NEW n \in Amounts,
           PoolLoses(v, n), ~(HasShares /\ v = boosted)
    PROVE  HoldersGain
<1> DEFINE less == pool[v].assets - n
<1>1. pool' = [pool EXCEPT ![v].assets = less] /\ UNCHANGED <<market, boosted>>
  BY DEF PoolLoses
<1>2. CASE v # boosted
  <2> HIDE DEF less
  <2> QED BY <1>1, <1>2, ElsewhereGain
<1>3. CASE v = boosted
  <2>1. pool \in [Vaults -> Pools] /\ pool' \in [Vaults -> Pools] /\ None \notin Vaults
    BY BoostedAssumption DEF BooksInv, TypeOK, Pools
  <2>2. pool[v].ours = 0
    BY <1>3, <2>1 DEF HasShares, Pools
  <2> HIDE DEF less
  <2>3. pool'[v].ours = 0
    BY <1>1, <2>1, <2>2
  <2>4. ShareValue(boosted, pool) = 0 /\ ShareValue(boosted', pool') = 0
    BY <1>1, <1>3, <2>1, <2>2, <2>3, SharesValued
  <2> QED BY <1>1, <2>4, BothWorths, SameSupply
<1> QED BY <1>2, <1>3

LEMMA StepGain ==
    ASSUME BooksInv, BooksInv', Next, InSight, market.supply > 0, market'.supply > 0,
           boosted' = boosted, ~\E n \in Amounts : HasShares /\ PoolLoses(boosted, n)
    PROVE  HoldersGain
<1>1. CASE UserStep
  BY <1>1, DepositGain, BorrowGain, WithdrawGain, FlashLoanGain, RepayGain, InterestGain
     DEF UserStep
<1>2. CASE AdminStep
  BY <1>2, SettingGain, RebalanceGain, ReduceGain DEF AdminStep
<1>3. CASE Surroundings
  <2>1. CASE \E v \in Vaults, n \in Amounts : PoolLoses(v, n)
    BY <2>1, PoolLosesGain
  <2>2. CASE ~\E v \in Vaults, n \in Amounts : PoolLoses(v, n)
    BY <1>3, <2>2, TickGain, DonateGain, PoolGainsGain, SettingGain DEF Surroundings
  <2> QED BY <2>1, <2>2
<1> QED BY <1>1, <1>2, <1>3 DEF Next

\* While the boosted vault answers, no call of a user or of the admin lowers what a pToken is
\* worth by more than the price of one share: what deposit_into_boosted and redeem_from_boosted
\* round is borne by the market at most once per call, at every price of a share and of a
\* pToken, and no holder gains what another had.
THEOREM HoldersKeep == Spec => HoldersKeepWorth
<1> DEFINE Kind == /\ InSight /\ market.supply > 0 /\ market'.supply > 0
                   /\ boosted' = boosted
                   /\ ~\E n \in Amounts : HasShares /\ PoolLoses(boosted, n)
<1>1. BooksInv /\ BooksInv' /\ [Next]_vars
        => [Kind => RateOf(Worth' + SharePrice + 1, market'.supply)
                      >= RateOf(Worth, market.supply)]_vars
  BY StepGain DEF HoldersGain
<1> QED BY <1>1, BooksInvariant, PTL DEF Spec, HoldersKeepWorth

=============================================================================
