---------------------------- MODULE AccountRisk ----------------------------
(***************************************************************************)
(* One account as the peridottroller values it across the markets it has   *)
(* entered: simple-peridottroller/src/contract.rs, with what the receipt   *)
(* vaults do when the account deposits, redeems, borrows or repays in them *)
(* and when it is liquidated.                                              *)
(*                                                                         *)
(* Markets are read one by one and each read may fail; interest that has   *)
(* fallen due is booked only when a market is accrued; amounts are         *)
(* converted between pTokens, underlying and USD with a floor each time.   *)
(* Market totals, cash and caps are ReceiptVault's, listing, entering and  *)
(* pauses MarketRegistry's: here no market is paused or out of cash.       *)
(***************************************************************************)
EXTENDS Integers, FiniteSets, Functions

CONSTANTS
    Markets,            \* supported markets that the account has entered
    Scale,              \* SCALE_1E6
    PriceScale,         \* scale of the oracle's prices
    CollateralFactor,   \* MarketCF of each market
    CloseFactor, Incentive, LiquidationFee,
    FeeRecipient        \* whether ReserveRecipient is set

FaultKinds == {"balance", "debt", "accrual", "token", "rate"}

\* Bounds of the model, not of the code.
CONSTANTS
    Prices,             \* prices each market's token may have
    Unquoted,           \* markets whose price may be unavailable
    Faults,             \* reads that may fail in each market
    MaxPTokens, MaxDebt,    \* in each market
    MaxRate,            \* interest stops once a market's exchange rate has reached this
    Amounts,            \* amounts of underlying a call may name
    PTokenAmounts,      \* amounts of pTokens a call may name
    MarginCaps          \* max_seize_ptokens of the margin controller's calls

\* UserMarkets is a list.
ASSUME MarketsAssumption == IsFiniteSet(Markets)

ASSUME RiskAssumption ==
    /\ Scale \in Nat \ {0} /\ PriceScale \in Nat \ {0}
    /\ CollateralFactor \in [Markets -> 0..Scale]
    /\ CloseFactor \in 0..Scale
    /\ Incentive \in Nat /\ Incentive >= Scale
    /\ LiquidationFee \in 0..Scale
    /\ FeeRecipient \in BOOLEAN
    /\ Prices \in [Markets -> SUBSET (Nat \ {0})]
    /\ Faults \in [Markets -> SUBSET FaultKinds]
    /\ MaxPTokens \in [Markets -> Nat] /\ MaxDebt \in [Markets -> Nat]
    /\ MaxRate \in [Markets -> Nat]
    /\ Amounts \subseteq Nat /\ PTokenAmounts \subseteq Nat /\ MarginCaps \subseteq Nat

VARIABLES
    position,   \* the account's pTokens and debt in each market, and its exchange rate
    due,        \* interest of each market that the next accrual will book
    price,      \* what a market's token is worth
    quoted,     \* markets whose price the cache, the oracle or the fallback can give
    fault       \* the read of each market that fails now, or "none"

world == <<price, quoted, fault>>
vars == <<position, due, world>>

TypeOK ==
    /\ position \in [Markets -> [ptokens : Nat, debt : Nat, rate : Nat \ {0}]]
    /\ due \in [Markets -> Nat]
    /\ price \in [Markets -> Nat \ {0}]
    /\ quoted \subseteq Markets
    /\ fault \in [Markets -> FaultKinds \cup {"none"}]

-----------------------------------------------------------------------------
(* Values *)

Minus(a, b) == IF a >= b THEN a - b ELSE 0        \* saturating_sub
Least(a, b) == IF a <= b THEN a ELSE b

Usd(amount, m) == (amount * price[m]) \div PriceScale

\* n pTokens as collateral, in USD.
Backing(n, rate, m) ==
    Usd((((n * rate) \div Scale) * CollateralFactor[m]) \div Scale, m)

\* update_interest of the markets ms.
Accrued(ms) ==
    [m \in Markets |->
        IF m \notin ms THEN position[m]
        ELSE [position[m] EXCEPT !.debt = IF @ > 0 THEN @ + due[m] ELSE 0,
                                 !.rate = @ + due[m]]]

DueAfter(ms) == [m \in Markets |-> IF m \in ms THEN 0 ELSE due[m]]

\* get_ptoken_balance, or 0 where it fails.
Balance(pos, m) == IF fault[m] = "balance" THEN 0 ELSE pos[m].ptokens

Involved(pos, m) == Balance(pos, m) > 0 \/ pos[m].debt > 0

\* Markets that sum_positions_usd skips because a debt may be hidden there.
DebtUnknown(pos, m) ==
    \/ fault[m] = "debt"
    \/ fault[m] = "token" /\ Involved(pos, m)
    \/ m \notin quoted /\ pos[m].debt > 0

\* Markets where it knows that collateral may be hidden: not those it counts as
\* empty for want of a price or of an exchange rate.
CollateralUnknown(pos, m) ==
    /\ CollateralFactor[m] > 0
    /\ \/ fault[m] = "balance"
       \/ DebtUnknown(pos, m) /\ Balance(pos, m) > 0

DebtUsd(pos, m) == IF DebtUnknown(pos, m) THEN 0 ELSE Usd(pos[m].debt, m)

CollateralUsd(pos, m) ==
    IF DebtUnknown(pos, m) \/ m \notin quoted \/ fault[m] = "rate" THEN 0
    ELSE Backing(Balance(pos, m), pos[m].rate, m)

\* sum_positions_usd over the markets ms.
KnownDebt(pos, ms) == SumFunctionOnSet([m \in Markets |-> DebtUsd(pos, m)], ms)
KnownCollateral(pos, ms) == SumFunctionOnSet([m \in Markets |-> CollateralUsd(pos, m)], ms)
Indeterminate(pos, ms) == \E m \in ms : DebtUnknown(pos, m)

-----------------------------------------------------------------------------
(* The account's own operations *)

Deposit(m, n) ==
    /\ fault[m] = "none"
    /\ n > 0
    /\ position[m].ptokens + n <= MaxPTokens[m]
    /\ position' = [Accrued({m}) EXCEPT ![m].ptokens = @ + n]
    /\ due' = DueAfter({m})
    /\ UNCHANGED world

\* Mutant: hypothetical_liquidity, which does not accrue the other markets.
BorrowTouchesOnly(m) == {m}

\* A borrow accrues the market and those others it sees a position in.
BorrowTouches(m) == {m} \cup {o \in Markets \ {m} : Involved(position, o)}

\* Mutant: the market itself is not left out of the sum, and its debt counts twice.
BorrowCountedTwice(pos, m, amount) ==
    /\ m \in quoted
    /\ KnownDebt(pos, Markets) + Usd(pos[m].debt, m) + Usd(amount, m)
          <= KnownCollateral(pos, Markets)

\* hypothetical_liquidity_with_hint: what is owed and what is added are converted apart.
BorrowCovered(pos, m, amount) ==
    LET others == Markets \ {m}
    IN /\ ~Indeterminate(pos, others)
       /\ \A o \in others : Involved(pos, o) => fault[o] # "accrual"
       /\ m \in quoted
       /\ KnownDebt(pos, others) + Usd(pos[m].debt, m) + Usd(amount, m)
             <= KnownCollateral(pos, others) + Backing(pos[m].ptokens, pos[m].rate, m)

Borrow(m, amount) ==
    LET pos == Accrued(BorrowTouches(m))
    IN /\ fault[m] = "none"
       /\ BorrowCovered(pos, m, amount)
       /\ pos[m].debt + amount <= MaxDebt[m]
       /\ position' = [pos EXCEPT ![m].debt = @ + amount]
       /\ due' = DueAfter(BorrowTouches(m))
       /\ UNCHANGED world

\* Redeeming and sending pTokens accrue the other markets where something is owed.
RedeemTouches(m) == {m} \cup {o \in Markets \ {m} : position[o].debt > 0}

\* get_borrows_excl, get_collateral_excl_usd and the check of withdraw and transfer.
RedeemCovered(pos, m, n) ==
    LET others == Markets \ {m}
        owed   == KnownDebt(pos, others)
    IN /\ \A o \in others : /\ fault[o] # "debt"
                            /\ pos[o].debt > 0 => o \in quoted /\ fault[o] \notin {"accrual", "token"}
       /\ owed > 0 \/ pos[m].debt > 0 =>
             /\ m \in quoted
             /\ owed + Usd(pos[m].debt, m)
                   <= (IF Indeterminate(pos, others) THEN 0 ELSE KnownCollateral(pos, others))
                      + Backing(pos[m].ptokens - n, pos[m].rate, m)

\* withdraw, transfer and transfer_from.
Redeem(m, n) ==
    LET pos == Accrued(RedeemTouches(m))
    IN /\ fault[m] = "none"
       /\ n \in 1..pos[m].ptokens
       /\ RedeemCovered(pos, m, n)
       /\ position' = [pos EXCEPT ![m].ptokens = @ - n]
       /\ due' = DueAfter(RedeemTouches(m))
       /\ UNCHANGED world

\* repay, and repay_on_behalf for the controller: nothing but m changes.
PayDebt(m, amount) ==
    /\ fault[m] \in {"none", "rate", "balance"}
    /\ position' = [Accrued({m}) EXCEPT ![m].debt = @ - Least(amount, position[m].debt)]
    /\ due' = DueAfter({m})
    /\ UNCHANGED world

Repay(m, amount) == position[m].debt > 0 /\ PayDebt(m, amount)

-----------------------------------------------------------------------------
(* Liquidation *)

\* Mutant: collateral that cannot be read is taken for none.
ShortAsFarAsKnown == KnownDebt(position, Markets) > KnownCollateral(position, Markets)

\* The gate of liquidate and repay_on_behalf_for_liquidator: short by what is known,
\* and no collateral unknown.  No market is accrued first.
Short ==
    /\ KnownDebt(position, Markets) > KnownCollateral(position, Markets)
    /\ \A m \in Markets : ~CollateralUnknown(position, m)

\* close factor
MaxRepay(m) == (position[m].debt * CloseFactor) \div Scale

\* pTokens of market c that a repayment in market r entitles to.
Entitlement(r, c, repay) ==
    (((((Usd(repay, r) * Incentive) \div Scale) * PriceScale) \div price[c]) * Scale)
        \div position[c].rate

\* Mutant: scaled down with a floor.
ScaledDown(repay, entitled, cap) ==
    IF entitled <= cap THEN repay ELSE (repay * cap) \div entitled

\* The repayment when no more than cap can be seized for it: scaled down, rounded up.
Scaled(repay, entitled, cap) ==
    IF entitled <= cap THEN repay
    ELSE IF repay * cap = 0 THEN 0 ELSE (repay * cap - 1) \div entitled + 1

\* Mutant: the seizure is not clamped to what may be taken.
Unclamped(entitled, cap) == entitled

Clamped(entitled, cap) == Least(entitled, cap)

\* What goes to the reserve recipient.
Fee(seized) == IF FeeRecipient THEN (seized * LiquidationFee) \div Scale ELSE 0

\* liquidate_internal once the account may be liquidated; `own` when the liquidator
\* is the borrower, who then loses the fee only.
Settle(r, c, amount, cap, own) ==
    LET repay    == Least(amount, MaxRepay(r))
        entitled == Entitlement(r, c, repay)
        paid     == Scaled(repay, entitled, cap)
        seized   == Clamped(entitled, cap)
        lost     == IF own THEN Fee(seized) ELSE seized
    IN /\ r # c
       /\ {r, c} \subseteq quoted
       /\ fault[r] \in {"none", "rate", "balance"}
       /\ fault[c] \in {"none", "debt", "accrual"}
       /\ repay > 0 /\ paid > 0 /\ seized > 0
       /\ position' = [Accrued({r}) EXCEPT ![r].debt = @ - paid, ![c].ptokens = @ - lost]
       /\ due' = DueAfter({r})
       /\ UNCHANGED world

Liquidate(r, c, amount, own) ==
    Short /\ Settle(r, c, amount, position[c].ptokens, own)

\* The margin controller vouches for a shortfall of its own and for how much may be seized.
LiquidateForMargin(r, c, amount, cap) ==
    Settle(r, c, amount, Least(cap, position[c].ptokens), FALSE)

RepayOnBehalfForLiquidator(m, amount) ==
    /\ Short
    /\ Least(amount, MaxRepay(m)) > 0
    /\ PayDebt(m, Least(amount, MaxRepay(m)))

-----------------------------------------------------------------------------
(* Previews, for a market that can be read *)

\* preview_borrow_max, where there is cash enough.
PreviewBorrowMax(m) ==
    IF Indeterminate(position, Markets) THEN 0
    ELSE (Minus(KnownCollateral(position, Markets), KnownDebt(position, Markets)) * PriceScale)
             \div price[m]

\* Mutant: the collateral that is to be redeemed counts as staying.
PreviewRedeemOwnStays(m) ==
    LET required == Minus(KnownDebt(position, Markets), KnownCollateral(position, Markets))
        kept     == (required * Scale * PriceScale) \div (CollateralFactor[m] * price[m])
        held     == (position[m].ptokens * position[m].rate) \div Scale
    IN IF Indeterminate(position, Markets) THEN 0
       ELSE IF KnownDebt(position, Markets) = 0 THEN position[m].ptokens
       ELSE IF CollateralFactor[m] = 0 THEN 0
       ELSE (Minus(held, kept) * Scale) \div position[m].rate

\* preview_redeem_max, likewise.
PreviewRedeemMax(m) ==
    LET required == Minus(KnownDebt(position, Markets), KnownCollateral(position, Markets \ {m}))
        kept     == (required * Scale * PriceScale) \div (CollateralFactor[m] * price[m])
        held     == (position[m].ptokens * position[m].rate) \div Scale
    IN IF Indeterminate(position, Markets) THEN 0
       ELSE IF KnownDebt(position, Markets) = 0 THEN position[m].ptokens
       ELSE IF CollateralFactor[m] = 0 THEN 0
       ELSE (Minus(held, kept) * Scale) \div position[m].rate

-----------------------------------------------------------------------------
(* The world outside *)

InterestFallsDue(m) ==
    /\ position[m].rate + due[m] < MaxRate[m]
    /\ due' = [due EXCEPT ![m] = @ + 1]
    /\ UNCHANGED <<position, world>>

PriceMoves(m) ==
    /\ price' \in {[price EXCEPT ![m] = p] : p \in Prices[m]}
    /\ UNCHANGED <<position, due, quoted, fault>>

\* The price expires in the cache and cannot be had elsewhere, or is back.
QuoteChanges(m) ==
    /\ m \in Unquoted
    /\ quoted' = IF m \in quoted THEN quoted \ {m} ELSE quoted \cup {m}
    /\ UNCHANGED <<position, due, price, fault>>

FaultChanges(m) ==
    /\ \E f \in Faults[m] \cup {"none"} : fault' = [fault EXCEPT ![m] = f]
    /\ UNCHANGED <<position, due, price, quoted>>

-----------------------------------------------------------------------------
(* The system *)

Init ==
    /\ position = [m \in Markets |-> [ptokens |-> 0, debt |-> 0, rate |-> Scale]]
    /\ due = [m \in Markets |-> 0]
    /\ price \in [Markets -> UNION {Prices[m] : m \in Markets}]
    /\ \A m \in Markets : price[m] \in Prices[m]
    /\ quoted = Markets
    /\ fault = [m \in Markets |-> "none"]

AccountStep(m) ==
    \/ \E n \in PTokenAmounts : Deposit(m, n) \/ Redeem(m, n)
    \/ \E a \in Amounts : Borrow(m, a) \/ Repay(m, a)

LiquidatorStep(m) ==
    \E a \in Amounts :
        \/ RepayOnBehalfForLiquidator(m, a)
        \/ \E c \in Markets : \/ \E own \in BOOLEAN : Liquidate(m, c, a, own)
                              \/ \E cap \in MarginCaps : LiquidateForMargin(m, c, a, cap)

WorldStep(m) ==
    InterestFallsDue(m) \/ PriceMoves(m) \/ QuoteChanges(m) \/ FaultChanges(m)

Next == \E m \in Markets : AccountStep(m) \/ LiquidatorStep(m) \/ WorldStep(m)

Spec == Init /\ [][Next]_vars

-----------------------------------------------------------------------------
(* Properties *)

\* What the account owes and what backs it, every market read and valued.
OwedIn(pos) == SumFunction([m \in Markets |-> Usd(pos[m].debt, m)])
BackedIn(pos) == SumFunction([m \in Markets |-> Backing(pos[m].ptokens, pos[m].rate, m)])

\* How far the account is short once all interest due is booked.
Gap == OwedIn(Accrued(Markets)) - BackedIn(Accrued(Markets))

\* What a step pays of the debt in market r, the interest it books there counted in.
Paid(r) == Accrued(IF due'[r] = 0 THEN {r} ELSE {})[r].debt - position'[r].debt

\* By borrowing or redeeming an account gets no further than its collateral reaches, all
\* interest due in all its markets counted, whichever reads fail: a borrow may leave it
\* short of the single USD unit that converting debt and loan apart can lose.
OwnStepsLeaveCovered ==
    [][(/\ price' = price
        /\ \A m \in Markets : due'[m] <= due[m] /\ Paid(m) <= 0
        /\ Gap' > Gap)
          => Gap' <= 1]_vars

\* Collateral that sum_positions_usd passes over in silence.
Overlooked(m) ==
    /\ position[m].ptokens > 0
    /\ m \notin quoted \/ fault[m] = "rate"

\* The gate of liquidations opens only for an account that the market values as short, or
\* one that has collateral without a price or an exchange rate: no other failing read makes
\* a covered account liquidatable (liquidate_internal, collateral_indeterminate).
OnlyShortAreLiquidatable ==
    Short => OwedIn(position) > BackedIn(position) \/ \E m \in Markets : Overlooked(m)

\* A liquidation in markets r and c takes no more than the incentive over what it repays.
TakesItsDue(r, c) ==
    LET paid  == Paid(r)
        taken == position[c].ptokens - position'[c].ptokens
    IN paid > 0 /\ taken > 0 =>
          taken * position[c].rate * price[c] <= paid * price[r] * Incentive

\* Whatever the clamps and roundings, no liquidation, the margin controller's and an own
\* one included, takes collateral worth more than what it repays and the incentive.
SeizedWithinIncentive == [][\A r, c \in Markets : r # c => TakesItsDue(r, c)]_vars

\* With nothing due and every read working, preview_borrow_max names an amount that
\* borrow accepts.
BorrowPreviewHonoured ==
    \A m \in Markets :
        /\ \A o \in Markets : due[o] = 0 /\ fault[o] = "none"
        /\ m \in quoted
        /\ PreviewBorrowMax(m) > 0
        => BorrowCovered(position, m, PreviewBorrowMax(m))

\* With nothing due and every read working, redeeming what preview_redeem_max returns
\* leaves the account short by no more than its roundings: the worth of two units of the
\* token, one not kept and one that the collateral factor cuts, and a USD unit. (The amount
\* itself may be refused.)
RedeemPreviewNearlyHonoured ==
    \A m \in Markets :
        /\ \A o \in Markets : due[o] = 0 /\ fault[o] = "none"
        /\ m \in quoted
        /\ PreviewRedeemMax(m) > 0
        => KnownDebt(position, Markets)
             <= KnownCollateral(position, Markets \ {m})
                + Backing(position[m].ptokens - PreviewRedeemMax(m), position[m].rate, m)
                + Usd(2, m) + 1

=============================================================================
