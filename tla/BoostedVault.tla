--------------------------- MODULE BoostedVault ---------------------------
(***************************************************************************)
(* A market that deploys its idle cash into a boosted vault, another       *)
(* contract that issues shares of its assets: how ReceiptVault values the  *)
(* shares when the vault answers and when it does not, deploys what is     *)
(* deposited and redeems shares for what is paid out                       *)
(* (receipt-vault/src/contract.rs, get_boosted_underlying,                 *)
(* deposit_into_boosted, redeem_from_boosted).                             *)
(*                                                                         *)
(* The market is kept as totals: who holds its pTokens and debts, and      *)
(* whether his collateral admits a call, is ReceiptVault's question, so    *)
(* that every call any user may make is a step here. Which boosted vault   *)
(* a controller lets the market bind is MarketRegistry's.                  *)
(***************************************************************************)
EXTENDS Integers, FiniteSets, FiniteSetsExt

CONSTANTS
    Vaults,         \* boosted vaults the admin may choose
    None,
    Scale,          \* SCALE_1E6, and the initial exchange rate
    BpsScale,
    MinDeploy,      \* MIN_BOOSTED_DEPLOY_AMOUNT
    ReserveFactor,  \* reserves' and admin's part of the interest, of Scale
    FlashFee        \* of Scale

\* Bounds of the model, not of the code.
CONSTANTS
    FirstPool,                  \* of each boosted vault: what others have in it
    Amounts, PTokenAmounts,     \* a call may name
    Extras,                     \* a flash loan pays back on top, the admin takes out
    Interests,                  \* that may fall due at a time
    Buffers,                    \* idle cash the admin may ask for, of BpsScale
    MaxAssets, MaxSupply, MaxReserves, MaxShares, MaxDonation,
    MaxEvents                   \* ticks, gifts, gains, losses and outages

ASSUME BoostedAssumption ==
    /\ None \notin Vaults
    /\ Scale \in Nat \ {0} /\ BpsScale \in Nat \ {0} /\ MinDeploy \in Nat \ {0}
    /\ ReserveFactor \in 0..Scale /\ FlashFee \in 0..Scale
    /\ FirstPool \in [Vaults -> [assets : Nat, total : Nat, ours : {0}]]
    /\ \A v \in Vaults : FirstPool[v].total = 0 => FirstPool[v].assets = 0
    /\ Amounts \subseteq Nat \ {0} /\ PTokenAmounts \subseteq Nat \ {0}
    /\ Extras \subseteq Nat /\ Interests \subseteq Nat /\ Buffers \subseteq 0..BpsScale
    /\ MaxAssets \in Nat /\ MaxSupply \in Nat /\ MaxReserves \in Nat
    /\ MaxShares \in Nat /\ MaxDonation \in Nat /\ MaxEvents \in Nat

VARIABLES
    market,     \* ManagedCash, the token balance, TotalDeposited, TotalBorrowed,
                \* TotalReserves with TotalAdminFees, pTokens, interest not yet booked
    boosted,    \* BoostedVault
    buffer,     \* IdleCashBufferBps
    cache,      \* BoostedUnderlyingCached, and whether it is younger than
                \* BOOSTED_CACHE_MAX_AGE_SECS
    pool,       \* of each boosted vault: assets, shares in all, the market's shares
    answering,  \* whether the boosted vaults answer quotes
    events      \* that came from outside so far; bounds the model

vars == <<market, boosted, buffer, cache, pool, answering, events>>

NotCached == [value |-> 0, fresh |-> FALSE]

TypeOK ==
    /\ market \in [cash : Nat, live : Nat, deposited : Nat, borrowed : Nat,
                   reserves : Nat, supply : Nat, due : Nat]
    /\ boosted \in Vaults \cup {None}
    /\ buffer \in Buffers \cup {0}
    /\ cache \in [value : Nat, fresh : BOOLEAN]
    /\ pool \in [Vaults -> [assets : Nat, total : Nat, ours : Nat]]
    /\ \A v \in Vaults : pool[v].ours <= pool[v].total
    /\ answering \in BOOLEAN
    /\ events \in 0..MaxEvents

Minus(a, b) == IF a > b THEN a - b ELSE 0       \* saturating_sub
Least(a, b) == IF a < b THEN a ELSE b
Most(a, b) == IF a > b THEN a ELSE b
CeilDiv(a, b) == (a + b - 1) \div b

-----------------------------------------------------------------------------
(* What the shares are worth, and what the market takes them for *)

\* get_asset_amounts_per_shares
Quote(v, n) == IF pool[v].total = 0 THEN 0 ELSE (n * pool[v].assets) \div pool[v].total

HasShares == boosted # None /\ pool[boosted].ours > 0

Answers == HasShares /\ answering /\ Quote(boosted, pool[boosted].ours) > 0

\* What the books say the cash went to (estimate_boosted_underlying_from_accounting).
Estimate(m) == Minus(m.deposited + m.reserves, m.borrowed + m.cash)

\* Mutant: a cached value is used for as long as it is fresh.
BoostedCachedFirst(m) ==
    IF ~HasShares THEN 0
    ELSE IF cache.fresh THEN cache.value
    ELSE IF Answers THEN Quote(boosted, pool[boosted].ours)
    ELSE Most(cache.value, Estimate(m))

\* get_boosted_underlying
Boosted(m) ==
    IF ~HasShares THEN 0
    ELSE IF Answers THEN Quote(boosted, pool[boosted].ours)
    ELSE IF cache.fresh /\ ~answering THEN cache.value
    ELSE Most(cache.value, Estimate(m))

\* A quote is kept for the time the vault will not answer.
Kept ==
    IF Answers THEN [value |-> Quote(boosted, pool[boosted].ours), fresh |-> TRUE] ELSE cache

TotalUnderlying(m) == Minus(m.cash + Boosted(m) + m.borrowed, m.reserves)
AvailableLiquidity(m) == Minus(TotalUnderlying(m), m.borrowed)

\* get_exchange_rate panics otherwise.
RateReadable(m) == (m.supply = 0) = (TotalUnderlying(m) = 0)

RateOf(underlying, supply) == IF supply = 0 THEN Scale ELSE (underlying * Scale) \div supply
ExchangeRate(m) == RateOf(TotalUnderlying(m), m.supply)

\* update_interest; what the rate model makes of the boosted cash is any of Interests.
Accrued ==
    [market EXCEPT !.borrowed = @ + market.due,
                   !.reserves = @ + (market.due * ReserveFactor) \div Scale,
                   !.due = 0]

WithinBounds ==
    /\ market.live + market.borrowed + market.due
        + MapThenSumSet(LAMBDA v : pool[v].assets, Vaults) <= MaxAssets
    /\ market.supply <= MaxSupply /\ market.deposited <= MaxSupply
    /\ market.reserves <= MaxReserves
    /\ \A v \in Vaults : pool[v].total <= MaxShares

-----------------------------------------------------------------------------
(* Moving cash between the market and the boosted vault *)

\* deposit_into_boosted, for the cash it is asked to deploy: nothing below the minimum.
DeployAmount(m, amount) ==
    LET least == Least(amount, m.live)
    IN IF boosted = None \/ least < MinDeploy THEN 0 ELSE least

\* What rebalance_idle_cash and deposit keep idle.
DesiredIdle(m) == (TotalUnderlying(m) * buffer) \div BpsScale

\* Mutant: the books subtract what was moved, gifts included, without saturating.
DeployedUnsaturated(m, d) == [m EXCEPT !.live = @ - d, !.cash = @ - d]

Deployed(m, d) == [m EXCEPT !.live = @ - d, !.cash = Minus(@, d)]

\* Shares the boosted vault issues (external): their price, rounded down.
SharesIssued(p, d) == IF p.total = 0 THEN d ELSE (d * p.total) \div p.assets

PoolTakes(d) ==
    d > 0 => LET p == pool[boosted]
             IN (p.total = 0 \/ p.assets > 0) /\ SharesIssued(p, d) > 0

PoolWith(d) ==
    IF d = 0 THEN pool
    ELSE [pool EXCEPT ![boosted] =
            [assets |-> @.assets + d,
             total  |-> @.total + SharesIssued(@, d),
             ours   |-> @.ours + SharesIssued(@, d)]]

\* Mutant: as many shares as the missing cash is worth, rounded down.
SharesRoundedDown(needed) ==
    LET p == pool[boosted] IN Least((needed * p.total) \div p.assets, p.ours)

\* The shares redeem_from_boosted gives up for the missing cash: one unit more of it than
\* is missing, and a share more than its quotient.
SharesToWithdraw(needed) ==
    LET p == pool[boosted] IN Least(CeilDiv((needed + 1) * p.total, p.assets), p.ours)

Needed(m, required) == Minus(required, m.live)

\* There is a call to make: cash is missing and the shares are worth something.
Redeems(m, required) == HasShares /\ Needed(m, required) > 0 /\ pool[boosted].assets > 0

Received(m, required) ==
    IF Redeems(m, required)
    THEN Quote(boosted, SharesToWithdraw(Needed(m, required))) ELSE 0

\* ensure_liquid_cash and the check after it: the quote panics while the vault does not
\* answer, and the boosted vault refuses to pay out less than is needed but for one.
Payable(m, required) ==
    /\ HasShares /\ Needed(m, required) > 0 => answering
    /\ Redeems(m, required) => Received(m, required) >= Needed(m, required) - 1
    /\ m.live + Received(m, required) >= required

Redeemed(m, required) ==
    [m EXCEPT !.live = @ + Received(m, required), !.cash = @ + Received(m, required)]

PoolWithout(m, required) ==
    IF ~Redeems(m, required) THEN pool
    ELSE [pool EXCEPT ![boosted] =
            LET n == SharesToWithdraw(Needed(m, required))
            IN [assets |-> @.assets - Received(m, required),
                total  |-> @.total - n,
                ours   |-> @.ours - n]]

TokensOut(m, n) == [m EXCEPT !.live = @ - n, !.cash = Minus(@, n)]
TokensIn(m, n) == [m EXCEPT !.live = @ + n, !.cash = @ + n]

-----------------------------------------------------------------------------
(* Calls of users *)

Deposit(amount) ==
    LET before == Accrued
        minted == (amount * Scale) \div ExchangeRate(before)
        after  == TokensIn(before, amount)
        spare  == IF buffer = 0 THEN amount
                  ELSE Least(amount, Minus(after.live, DesiredIdle(after)))
        moved  == DeployAmount(after, spare)
    IN /\ RateReadable(before) /\ ExchangeRate(before) > 0
       /\ minted > 0
       /\ PoolTakes(moved)
       /\ market' = [Deployed(after, moved) EXCEPT !.supply = @ + minted,
                                                   !.deposited = @ + amount]
       /\ pool' = PoolWith(moved)
       /\ cache' = Kept
       /\ UNCHANGED <<boosted, buffer, answering, events>>
       /\ WithinBounds'

\* The last pTokens leave neither debts nor value behind.
LeavesNothing(m, n, back) ==
    m.supply = n => m.borrowed = 0 /\ TotalUnderlying(m) <= back

Withdraw(n) ==
    LET before == Accrued
        back   == (n * ExchangeRate(before)) \div Scale
    IN /\ n <= before.supply
       /\ RateReadable(before)
       /\ back <= AvailableLiquidity(before)
       /\ LeavesNothing(before, n, back)
       /\ Payable(before, back)
       /\ market' = [TokensOut(Redeemed(before, back), back) EXCEPT
                        !.supply = @ - n, !.deposited = Minus(@, back)]
       /\ pool' = PoolWithout(before, back)
       /\ cache' = Kept
       /\ UNCHANGED <<boosted, buffer, answering, events>>
       /\ WithinBounds'

\* borrow and borrow_for_margin ask the boosted vault only when the books have too little.
Borrow(amount) ==
    LET before == Accrued
        asked  == IF before.cash < amount THEN amount ELSE 0
    IN /\ before.supply > 0 /\ RateReadable(before)
       /\ amount <= AvailableLiquidity(before)
       /\ Payable(before, asked)
       /\ market' = [TokensOut(Redeemed(before, asked), amount) EXCEPT !.borrowed = @ + amount]
       /\ pool' = PoolWithout(before, asked)
       /\ cache' = Kept
       /\ UNCHANGED <<boosted, buffer, answering, events>>
       /\ WithinBounds'

\* The fee and what is paid back on top are reserves. The receiver cannot call the market.
FlashLoan(amount, extra) ==
    LET before == Accrued
        lent   == TokensOut(Redeemed(before, amount), amount)
    IN /\ amount <= AvailableLiquidity(before)
       /\ Payable(before, amount)
       /\ extra >= (amount * FlashFee) \div Scale
       /\ market' = [TokensIn(lent, amount + extra) EXCEPT !.reserves = @ + extra]
       /\ pool' = PoolWithout(before, amount)
       /\ cache' = Kept
       /\ UNCHANGED <<boosted, buffer, answering, events>>
       /\ WithinBounds'

\* update_interest quotes only when time has passed since the last one; a repayment and
\* a liquidator's repay_on_behalf quote nothing else.
Repay(amount, later) ==
    /\ market.due > 0 => later
    /\ amount <= market.borrowed
    /\ market' = [TokensIn(Accrued, amount) EXCEPT !.borrowed = @ - amount]
    /\ cache' = IF later THEN Kept ELSE cache
    /\ UNCHANGED <<boosted, buffer, pool, answering, events>>
    /\ WithinBounds'

UpdateInterest ==
    /\ market' = Accrued
    /\ cache' = Kept
    /\ UNCHANGED <<boosted, buffer, pool, answering, events>>

-----------------------------------------------------------------------------
(* Calls of the admin *)

\* Shares of the vault it replaces stay where they are, and no longer count.
SetBoostedVault(v) ==
    /\ boosted' = v
    /\ cache' = NotCached
    /\ UNCHANGED <<market, buffer, pool, answering, events>>

SetIdleCashBuffer(bps) ==
    /\ buffer' = bps
    /\ UNCHANGED <<market, boosted, cache, pool, answering, events>>

RebalanceIdleCash ==
    LET moved == DeployAmount(market, Minus(market.live, DesiredIdle(market)))
    IN /\ market.live > 0
       /\ PoolTakes(moved)
       /\ market' = Deployed(market, moved)
       /\ pool' = PoolWith(moved)
       /\ cache' = Kept
       /\ UNCHANGED <<boosted, buffer, answering, events>>
       /\ WithinBounds'

\* reduce_reserves and reduce_admin_fees pay from the tokens at hand.
ReduceReserves(amount) ==
    /\ amount <= market.reserves /\ amount <= market.live
    /\ market' = [TokensOut(market, amount) EXCEPT !.reserves = @ - amount]
    /\ UNCHANGED <<boosted, buffer, cache, pool, answering, events>>

-----------------------------------------------------------------------------
(* Time, gifts and the boosted vaults *)

Happens == events < MaxEvents /\ events' = events + 1

Tick(interest, expires) ==
    /\ interest > 0 => market.borrowed > 0
    /\ market' = [market EXCEPT !.due = @ + interest]
    /\ cache' = [cache EXCEPT !.fresh = @ /\ ~expires]
    /\ Happens
    /\ UNCHANGED <<boosted, buffer, pool, answering>>
    /\ WithinBounds'

Donate(n) ==
    /\ market.live + n <= market.cash + MaxDonation
    /\ market' = [market EXCEPT !.live = @ + n]
    /\ Happens
    /\ UNCHANGED <<boosted, buffer, cache, pool, answering>>
    /\ WithinBounds'

\* What happens to a boosted vault is of interest once the market uses it.
Used(v) == v = boosted \/ pool[v].ours > 0

PoolGains(v, n) ==
    /\ Used(v) /\ pool[v].total > 0
    /\ pool' = [pool EXCEPT ![v].assets = @ + n]
    /\ Happens
    /\ UNCHANGED <<market, boosted, buffer, cache, answering>>
    /\ WithinBounds'

PoolLoses(v, n) ==
    /\ Used(v) /\ n <= pool[v].assets
    /\ pool' = [pool EXCEPT ![v].assets = @ - n]
    /\ Happens
    /\ UNCHANGED <<market, boosted, buffer, cache, answering>>

\* An outage of the boosted vaults begins or ends.
Outage ==
    /\ answering' = ~answering
    /\ Happens
    /\ UNCHANGED <<market, boosted, buffer, cache, pool>>

-----------------------------------------------------------------------------
Init ==
    /\ market = [cash |-> 0, live |-> 0, deposited |-> 0, borrowed |-> 0,
                 reserves |-> 0, supply |-> 0, due |-> 0]
    /\ boosted = None
    /\ buffer = 0
    /\ cache = NotCached
    /\ pool = FirstPool
    /\ answering = TRUE
    /\ events = 0

UserStep ==
    \/ \E n \in Amounts : Deposit(n) \/ Borrow(n)
    \/ \E n \in PTokenAmounts : Withdraw(n)
    \/ \E n \in Amounts, extra \in Extras : FlashLoan(n, extra)
    \/ \E n \in Amounts, later \in BOOLEAN : Repay(n, later)
    \/ UpdateInterest

AdminStep ==
    \/ \E v \in Vaults : SetBoostedVault(v)
    \/ \E bps \in Buffers : SetIdleCashBuffer(bps)
    \/ RebalanceIdleCash
    \/ \E n \in Extras : ReduceReserves(n)

Surroundings ==
    \/ \E interest \in Interests, expires \in BOOLEAN : Tick(interest, expires)
    \/ \E n \in Amounts : Donate(n)
    \/ \E v \in Vaults, n \in Amounts : PoolGains(v, n) \/ PoolLoses(v, n)
    \/ Outage

Next == UserStep \/ AdminStep \/ Surroundings

Spec == Init /\ [][Next]_vars

-----------------------------------------------------------------------------
(* Properties *)

\* The boosted vault says what the shares are worth, or there are none.
InSight == Answers \/ ~HasShares

\* While that is so, every amount that get_available_liquidity promises can be paid, however
\* cash, gifts and shares are mixed and the prices of shares round: no withdrawal, loan or
\* flash loan that passes its check fails for want of cash.
AvailableIsPayable ==
    InSight => \A n \in 0..AvailableLiquidity(market) : Payable(market, n)

\* What the market holds for its pTokens.
Worth ==
    market.cash + market.borrowed - market.reserves
        + (IF HasShares THEN Quote(boosted, pool[boosted].ours) ELSE 0)

\* What rounding may cost when shares are bought or redeemed.
SharePrice ==
    IF boosted = None \/ pool[boosted].total = 0 THEN 1
    ELSE CeilDiv(pool[boosted].assets, pool[boosted].total)

\* As long as the boosted vault answers, what a pToken is worth falls by more than the
\* rounding of one share only when the boosted vault loses or is replaced with shares left
\* in it: neither a deposit, a redemption, a loan nor a rebalancing passes value from one
\* holder to another, whatever was cached, given or earned before.
HoldersKeepWorth ==
    [][/\ InSight /\ market.supply > 0 /\ market'.supply > 0
       /\ boosted' = boosted
       /\ ~\E n \in Amounts : HasShares /\ PoolLoses(boosted, n)
       => RateOf(Worth' + SharePrice + 1, market'.supply) >= RateOf(Worth, market.supply)]_vars

=============================================================================
