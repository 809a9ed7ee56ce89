--------------------------- MODULE ReceiptVault ---------------------------
(***************************************************************************)
(* One lending market: receipt-vault/src/contract.rs with no boosted vault *)
(* and no margin controller configured (both are optional in the code; a   *)
(* call into an unset one returns at once).                                *)
(*                                                                         *)
(* Every entry point is one transaction, so one action: Soroban runs calls *)
(* one after the other and undoes the whole call when it panics.  A panic  *)
(* is therefore a disabled action.  Amounts of tokens are natural numbers; *)
(* wallets outside the vault are not modelled (a user can pay what he      *)
(* chooses to pay), nor are events, storage lifetimes and u128 overflow.   *)
(***************************************************************************)
EXTENDS Integers, FiniteSets, Functions

CONSTANTS
    Users,              \* depositors, borrowers, liquidators, fee recipients
    Scale,              \* SCALE_1E6: rates, factors and fees are fractions of it
    IndexScale,         \* INDEX_SCALE_1E18: the borrow index of a new market
    YearDenominator,    \* seconds per year * SCALE_1E6, divisor of the interest
    BorrowRates,        \* rates the interest model (or the static rate) may give
    ReserveFactors, AdminFees, FlashFees, CollateralFactors,  \* what the admin may set
    SupplyCaps, BorrowCaps,
    Controllers,        \* peridottrollers the admin may wire the vault to
    OtherPositions      \* [collateral, borrows] a user may hold in other markets

\* Bounds of the model, not of the code.
CONSTANTS
    Amounts,            \* amounts of underlying a call may name
    PTokenAmounts,      \* amounts of pTokens a call may name
    FlashAmounts,       \* amounts a flash loan may name
    Extras,             \* what a flash borrower may return beyond the fee
    MaxAssets,          \* deposits, fees and gifts stop when tokens and loans reach this
    MaxIndex,           \* time stops once the borrow index has passed this
    MaxPending,         \* longest time that passes between two accruals
    MaxDonation         \* tokens sent to the vault outside of its entry points

ASSUME ScaleAssumption ==
    /\ Scale \in Nat \ {0} /\ IndexScale \in Nat \ {0}
    /\ YearDenominator \in Nat \ {0}

\* Addresses are keys of a fixed length.
ASSUME UsersAssumption == IsFiniteSet(Users)

ASSUME ParameterAssumption ==
    /\ BorrowRates \subseteq Nat
    /\ ReserveFactors \subseteq 0..Scale /\ AdminFees \subseteq 0..Scale
    /\ FlashFees \subseteq 0..Scale /\ CollateralFactors \subseteq 0..Scale
    /\ SupplyCaps \subseteq Nat /\ BorrowCaps \subseteq Nat
    /\ OtherPositions \subseteq [collateral : Nat, borrows : Nat]
    /\ Amounts \subseteq Nat /\ PTokenAmounts \subseteq Nat
    /\ FlashAmounts \subseteq Nat /\ Extras \subseteq Nat

VARIABLES
    market,         \* the market's totals, see Markets
    ptokens,        \* pToken balance of each user
    snapshot,       \* BorrowSnapshots: principal and index of the last write
    hasBorrowed,    \* HasBorrowed: "unset", "no" or "yes"
    principalTotal, \* TotalBorrowPrincipal, kept while a borrow cap is set
    config,         \* what the admin sets
    other           \* each user's positions in the controller's other markets

vars == <<market, ptokens, snapshot, hasBorrowed, principalTotal, config, other>>

-----------------------------------------------------------------------------
(* Types *)

Markets == [cash : Nat,      \* ManagedCash: cash the accounting knows of
            live : Nat,      \* token balance of the vault, gifts included
            borrowed : Nat,  \* TotalBorrowed
            index : Nat \ {0},
            reserves : Nat, fees : Nat,
            supply : Nat,    \* pToken total supply
            pending : Nat]   \* time since LastUpdateTime

Snapshots == [principal : Nat, index : Nat \ {0}]

\* A user without a BorrowSnapshots entry.
NoSnapshot == [principal |-> 0, index |-> 0]

\* Each fraction is bounded by Scale; nothing bounds reserveFactor + adminFee.
Configs == [reserveFactor : 0..Scale, adminFee : 0..Scale, flashFee : 0..Scale,
            collateralFactor : 0..Scale,  \* local, or the controller's once wired
            supplyCap : Nat, borrowCap : Nat,
            ratesReady : BOOLEAN, wired : BOOLEAN]

\* Every stored value keeps its type: no balance or total goes below zero, no index is
\* zero (get_user_borrow_balance divides by it), and a snapshot once written stays.
TypeOK ==
    /\ market \in Markets
    /\ ptokens \in [Users -> Nat]
    /\ snapshot \in [Users -> Snapshots \cup {NoSnapshot}]
    /\ hasBorrowed \in [Users -> {"unset", "no", "yes"}]
    /\ principalTotal \in Nat
    /\ config \in Configs
    /\ other \in [Users -> OtherPositions \cup {[collateral |-> 0, borrows |-> 0]}]

-----------------------------------------------------------------------------
(* Arithmetic and views *)

Minus(a, b) == IF a >= b THEN a - b ELSE 0        \* saturating_sub
Least(a, b) == IF a <= b THEN a ELSE b

TotalUnderlying(m) == Minus(Minus(m.cash + m.borrowed, m.reserves), m.fees)

AvailableLiquidity(m) == Minus(TotalUnderlying(m), m.borrowed)

\* get_exchange_rate panics on an empty pool with pTokens and on assets without any.
RateDefined(m) == (m.supply = 0) <=> (TotalUnderlying(m) = 0)

ExchangeRate(m) ==
    IF m.supply = 0 THEN Scale ELSE (TotalUnderlying(m) * Scale) \div m.supply

Underlying(n, m) == (n * ExchangeRate(m)) \div Scale

\* Mutant: the division of deposit rounds up.
MintedRoundedUp(amount, m) ==
    (amount * Scale + ExchangeRate(m) - 1) \div ExchangeRate(m)

Minted(amount, m) == (amount * Scale) \div ExchangeRate(m)

\* Tokens paid in and out; ManagedCash follows the balance (add_ and sub_managed_cash).
TokensIn(m, amount) == [m EXCEPT !.live = @ + amount, !.cash = @ + amount]

\* Mutant: a payment that does not reach ManagedCash.
TokensOutUncounted(m, amount) == [m EXCEPT !.live = @ - amount]

TokensOut(m, amount) == [m EXCEPT !.live = @ - amount, !.cash = Minus(@, amount)]

\* update_interest: what `rate` charges on the time since the last accrual.
Interest(rate) == (market.borrowed * rate * market.pending) \div YearDenominator

\* Mutant: the share of reserves and fees is not scaled down.
ShareUnscaled(interest, factor) == interest * factor

\* What reserves or admin fees take of the interest.
Share(interest, factor) == (interest * factor) \div Scale

\* delta of the borrow index, floor(index * interest / borrowed).
IndexGrowth(interest) ==
    IF market.borrowed = 0 THEN 0 ELSE (market.index * interest) \div market.borrowed

\* The market after update_interest.  Time moves on only if nothing was owed,
\* the rate is zero or the interest came to at least one unit.
Accrued(rate) ==
    LET interest == Interest(rate)
    IN [market EXCEPT
          !.borrowed = @ + interest,
          !.index    = @ + IndexGrowth(interest),
          !.reserves = @ + Share(interest, config.reserveFactor),
          !.fees     = @ + Share(interest, config.adminFee),
          !.pending  = IF market.borrowed = 0 \/ rate = 0 \/ interest > 0 THEN 0 ELSE @]

\* Mutant: the division of get_user_borrow_balance rounds up.
DebtRoundedUp(u, m) ==
    IF snapshot[u].principal = 0 THEN 0
    ELSE (snapshot[u].principal * m.index + snapshot[u].index - 1) \div snapshot[u].index

Debt(u, m) ==
    IF snapshot[u].principal = 0 THEN 0
    ELSE (snapshot[u].principal * m.index) \div snapshot[u].index

\* get_user_borrow_balance fails closed when the borrow record is missing.
DebtReadable(u) ==
    snapshot[u] = NoSnapshot =>
        /\ hasBorrowed[u] # "yes"
        /\ hasBorrowed[u] = "unset" => ptokens[u] = 0

\* ensure_user_borrow_flag.
FlagAfter(u) ==
    IF snapshot[u] # NoSnapshot THEN "yes"
    ELSE IF hasBorrowed[u] = "unset" /\ ptokens[u] = 0 THEN "no"
    ELSE hasBorrowed[u]

EnsureFlags(us) ==
    hasBorrowed' = [u \in Users |-> IF u \in us THEN FlagAfter(u) ELSE hasBorrowed[u]]

\* What the controller adds to the local position; nothing while unwired.
OtherOf(u) == IF config.wired THEN other[u] ELSE [collateral |-> 0, borrows |-> 0]

\* u's collateral, with n pTokens here, is worth what it owes, with this local debt.
Affords(u, n, debt, m) ==
    debt + OtherOf(u).borrows
        <= OtherOf(u).collateral + (Underlying(n, m) * config.collateralFactor) \div Scale

\* The checks fail closed: no rate, no health, unless nothing is owed.
Covered(u, n, debt, m) ==
    \/ debt = 0 /\ OtherOf(u).borrows = 0
    \/ RateDefined(m) /\ Affords(u, n, debt, m)

\* Mutant: the health check of withdraw and transfer counts the pTokens that leave.
RemainingAll(u, n) == ptokens[u]

\* pTokens that still back u's debts after n have left.
Remaining(u, n) == ptokens[u] - n

Move(from, to, n) ==
    LET taken == [ptokens EXCEPT ![from] = @ - n]
    IN [taken EXCEPT ![to] = @ + n]

\* write_borrow_snapshot.
WriteSnapshot(u, principal, m) ==
    /\ snapshot' = [snapshot EXCEPT ![u] = [principal |-> principal, index |-> m.index]]
    /\ hasBorrowed' = [hasBorrowed EXCEPT ![u] = "yes"]

-----------------------------------------------------------------------------
(* User operations *)

Deposit(u, amount) == \E rate \in BorrowRates :
    LET m == Accrued(rate)
    IN /\ DebtReadable(u)
       /\ RateDefined(m) /\ ExchangeRate(m) > 0
       /\ config.supplyCap = 0 \/ TotalUnderlying(m) + amount <= config.supplyCap
       /\ amount > 0 /\ Minted(amount, m) > 0
       /\ m.live + m.borrowed + amount <= MaxAssets
       /\ market' = [TokensIn(m, amount) EXCEPT !.supply = @ + Minted(amount, m)]
       /\ ptokens' = [ptokens EXCEPT ![u] = @ + Minted(amount, m)]
       /\ EnsureFlags({u})
       /\ UNCHANGED <<snapshot, principalTotal, config, other>>

\* Mutant: withdraw looks at the debts only before it burns the last pTokens.
LeavesNoDebt(n, m) == m.supply = n => m.borrowed = 0

\* Burning the last pTokens must leave neither debts nor value behind.
LeavesNoValue(n, m) ==
    m.supply = n => m.borrowed = 0 /\ TotalUnderlying(m) <= Underlying(n, m)

Withdraw(u, n) == \E rate \in BorrowRates :
    LET m    == Accrued(rate)
        paid == Underlying(n, m)
    IN /\ DebtReadable(u)
       /\ n <= ptokens[u] /\ n <= m.supply
       /\ RateDefined(m)
       /\ AvailableLiquidity(m) >= paid
       /\ Covered(u, Remaining(u, n), Debt(u, m), m)
       /\ LeavesNoValue(n, m)
       /\ m.live >= paid
       /\ market' = [TokensOut(m, paid) EXCEPT !.supply = @ - n]
       /\ ptokens' = [ptokens EXCEPT ![u] = @ - n]
       /\ EnsureFlags({u})
       /\ UNCHANGED <<snapshot, principalTotal, config, other>>

\* transfer and transfer_from; both end by reading the debt of sender and recipient.
Transfer(from, to, n) == \E rate \in BorrowRates :
    LET m == Accrued(rate)
    IN /\ n > 0 /\ n <= ptokens[from]
       /\ DebtReadable(from) /\ FlagAfter(to) # "unset"
       /\ Covered(from, Remaining(from, n), Debt(from, m), m)
       /\ market' = m
       /\ ptokens' = Move(from, to, n)
       /\ EnsureFlags({from, to})
       /\ UNCHANGED <<snapshot, principalTotal, config, other>>

Borrow(u, amount) == \E rate \in BorrowRates :
    LET m    == Accrued(rate)
        debt == Debt(u, m) + amount
    IN /\ config.ratesReady
       /\ DebtReadable(u)
       /\ (config.wired \/ ptokens[u] > 0) => RateDefined(m)
       /\ Covered(u, ptokens[u], debt, m)
       /\ AvailableLiquidity(m) >= amount
       /\ config.borrowCap = 0 \/ principalTotal + amount <= config.borrowCap
       /\ m.live >= amount
       /\ market' = [TokensOut(m, amount) EXCEPT !.borrowed = @ + amount]
       /\ WriteSnapshot(u, debt, m)
       /\ principalTotal' = IF config.borrowCap > 0 THEN principalTotal + amount
                            ELSE principalTotal
       /\ UNCHANGED <<ptokens, config, other>>

\* principal_component_of_repay: what is left of `paid` after the interest accrued
\* since the last snapshot.
PrincipalPart(u, debt, paid) ==
    Least(Minus(paid, Minus(debt, snapshot[u].principal)), snapshot[u].principal)

\* Mutant: the payment is not capped.
PaymentUncapped(u, amount, m) == amount

\* What repay takes: the call caps the amount by the debt before the accrual, the
\* accounting by the debt after it.
Payment(u, amount, m) == Least(Least(amount, Debt(u, market)), Debt(u, m))

RepayDebt(u, amount) == \E rate \in BorrowRates :
    LET m    == Accrued(rate)
        debt == Debt(u, m)
        paid == Payment(u, amount, m)
    IN /\ DebtReadable(u)
       /\ debt > 0
       /\ m.borrowed >= paid
       /\ market' = [TokensIn(m, paid) EXCEPT !.borrowed = @ - paid]
       /\ WriteSnapshot(u, debt - paid, m)
       /\ principalTotal' = IF config.borrowCap > 0
                            THEN Minus(principalTotal, PrincipalPart(u, debt, paid))
                            ELSE principalTotal
       /\ UNCHANGED <<ptokens, config, other>>

\* Nothing owed: the call returns after the accrual.
RepayNothing(u) == \E rate \in BorrowRates :
    LET m == Accrued(rate)
    IN /\ DebtReadable(u)
       /\ Debt(u, m) = 0
       /\ market' = m
       /\ EnsureFlags({u})
       /\ UNCHANGED <<ptokens, snapshot, principalTotal, config, other>>

Repay(u, amount) == RepayDebt(u, amount) \/ RepayNothing(u)

\* The receiver runs between the two transfers; it cannot call back into the vault
\* (FlashLoanActive, and Soroban forbids re-entry), so only what it returns matters.
FlashLoan(amount, extra) == \E rate \in BorrowRates :
    LET m   == Accrued(rate)
        fee == (amount * config.flashFee) \div Scale
    IN /\ amount > 0
       /\ AvailableLiquidity(m) >= amount
       /\ m.live >= amount
       /\ m.live + m.borrowed + fee + extra <= MaxAssets
       /\ market' = [TokensIn(TokensOut(m, amount), amount + fee + extra)
                        EXCEPT !.reserves = @ + fee + extra]
       /\ UNCHANGED <<ptokens, snapshot, hasBorrowed, principalTotal, config, other>>

-----------------------------------------------------------------------------
(* Calls of the controller during a liquidation *)

\* The liquidator pays from an allowance; for the market it is a repayment.
RepayOnBehalf(borrower, amount) ==
    config.wired /\ (RepayDebt(borrower, amount) \/ RepayNothing(borrower))

\* What u owes exceeds its collateral; pTokens without a rate count for nothing.
ShortAt(u, m) == ~Affords(u, ptokens[u], Debt(u, m), m)

Shortfall(u) == ShortAt(u, market)

\* Mutant: the liquidator receives the fee's part as well.
SeizedWithFee(borrower, liquidator, recipient, n, fee) ==
    LET charged == [ptokens EXCEPT ![borrower] = @ - n]
        paid    == [charged EXCEPT ![recipient] = @ + fee]
    IN [paid EXCEPT ![liquidator] = @ + n]

\* The pTokens after seize has paid the fee and the liquidator.
Seized(borrower, liquidator, recipient, n, fee) ==
    LET charged == [ptokens EXCEPT ![borrower] = @ - n]
        paid    == [charged EXCEPT ![recipient] = @ + fee]
    IN [paid EXCEPT ![liquidator] = @ + (n - fee)]

\* The controller found the borrower short at the state it read ("health indeterminate"
\* without a rate).  seize moves balances and nothing else: no accrual, no borrow flag.
Seize(borrower, liquidator, recipient, n, fee) ==
    /\ config.wired
    /\ n > 0 /\ fee <= n
    /\ RateDefined(market) /\ Shortfall(borrower)
    /\ n <= ptokens[borrower]
    /\ ptokens' = Seized(borrower, liquidator, recipient, n, fee)
    /\ UNCHANGED <<market, snapshot, hasBorrowed, principalTotal, config, other>>

-----------------------------------------------------------------------------
(* Anyone, and the admin *)

UpdateInterest == \E rate \in BorrowRates :
    /\ market.pending > 0
    /\ market' = Accrued(rate)
    /\ UNCHANGED <<ptokens, snapshot, hasBorrowed, principalTotal, config, other>>

\* reduce_reserves and reduce_admin_fees pay the admin without accruing first.
ReduceReserves(amount) ==
    /\ amount <= market.reserves /\ amount <= market.live
    /\ market' = [TokensOut(market, amount) EXCEPT !.reserves = @ - amount]
    /\ UNCHANGED <<ptokens, snapshot, hasBorrowed, principalTotal, config, other>>

ReduceAdminFees(amount) ==
    /\ amount <= market.fees /\ amount <= market.live
    /\ market' = [TokensOut(market, amount) EXCEPT !.fees = @ - amount]
    /\ UNCHANGED <<ptokens, snapshot, hasBorrowed, principalTotal, config, other>>

Configure(setting, value) ==
    /\ config' = [config EXCEPT ![setting] = value]
    /\ UNCHANGED <<market, ptokens, snapshot, hasBorrowed, other>>

\* The factors change without an accrual: interest pending is split by the new one.
SetReserveFactor(f) == Configure("reserveFactor", f) /\ UNCHANGED principalTotal

SetAdminFee(f) == Configure("adminFee", f) /\ UNCHANGED principalTotal

SetFlashLoanFee(f) == Configure("flashFee", f) /\ UNCHANGED principalTotal

\* The factor in force: the vault's own, or once wired the controller's for this market
\* (set_market_cf).  A lower one binds at once, for positions already open.
SetCollateralFactor(f) == Configure("collateralFactor", f) /\ UNCHANGED principalTotal

SetSupplyCap(cap) == Configure("supplyCap", cap) /\ UNCHANGED principalTotal

\* The principal tracker starts from everything owed and is dropped with the cap.
SetBorrowCap(cap) ==
    /\ Configure("borrowCap", cap)
    /\ principalTotal' = IF cap = 0 THEN 0
                         ELSE IF config.borrowCap = 0 THEN market.borrowed
                         ELSE principalTotal

\* set_interest_model or enable_static_rates.
EnableRates == ~config.ratesReady /\ Configure("ratesReady", TRUE) /\ UNCHANGED principalTotal

\* The controller has a factor of its own for the market (get_market_cf).  To wire the
\* vault anew shows as other positions and another factor.
SetPeridottroller(controller) ==
    /\ ~config.wired
    /\ \E f \in CollateralFactors \cup {config.collateralFactor} :
          config' = [config EXCEPT !.wired = TRUE, !.collateralFactor = f]
    /\ UNCHANGED <<market, ptokens, snapshot, hasBorrowed, principalTotal, other>>

-----------------------------------------------------------------------------
(* The world outside *)

Tick ==
    /\ market.pending < MaxPending /\ market.index <= MaxIndex
    /\ market' = [market EXCEPT !.pending = @ + 1]
    /\ UNCHANGED <<ptokens, snapshot, hasBorrowed, principalTotal, config, other>>

\* Underlying sent to the vault's address without calling it.
Donate ==
    /\ market.live < market.cash + MaxDonation /\ market.live + market.borrowed < MaxAssets
    /\ market' = [market EXCEPT !.live = @ + 1]
    /\ UNCHANGED <<ptokens, snapshot, hasBorrowed, principalTotal, config, other>>

\* The user acts in another market, or prices move.
OtherMarketsMove(u) ==
    /\ config.wired
    /\ \E p \in OtherPositions : other' = [other EXCEPT ![u] = p]
    /\ UNCHANGED <<market, ptokens, snapshot, hasBorrowed, principalTotal, config>>

-----------------------------------------------------------------------------
(* A vault just initialised *)

Init ==
    /\ market = [cash |-> 0, live |-> 0, borrowed |-> 0, index |-> IndexScale,
                 reserves |-> 0, fees |-> 0, supply |-> 0, pending |-> 0]
    /\ ptokens = [u \in Users |-> 0]
    /\ snapshot = [u \in Users |-> NoSnapshot]
    /\ hasBorrowed = [u \in Users |-> "unset"]
    /\ principalTotal = 0
    /\ config = [reserveFactor |-> 0, adminFee |-> 0, flashFee |-> 0,
                 collateralFactor |-> Scale \div 2, supplyCap |-> 0, borrowCap |-> 0,
                 ratesReady |-> FALSE, wired |-> FALSE]
    /\ other = [u \in Users |-> [collateral |-> 0, borrows |-> 0]]

UserStep(u) ==
    \/ \E a \in Amounts : Deposit(u, a) \/ Borrow(u, a) \/ Repay(u, a)
    \/ \E n \in PTokenAmounts : Withdraw(u, n)
    \/ \E to \in Users, n \in PTokenAmounts : Transfer(u, to, n)

LiquidationStep(borrower) ==
    \/ \E a \in Amounts : RepayOnBehalf(borrower, a)
    \/ \E liquidator, recipient \in Users, n, fee \in PTokenAmounts :
          Seize(borrower, liquidator, recipient, n, fee)

AdminStep ==
    \/ \E a \in Amounts : ReduceReserves(a) \/ ReduceAdminFees(a)
    \/ \E f \in ReserveFactors : SetReserveFactor(f)
    \/ \E f \in AdminFees : SetAdminFee(f)
    \/ \E f \in FlashFees : SetFlashLoanFee(f)
    \/ \E f \in CollateralFactors : SetCollateralFactor(f)
    \/ \E cap \in SupplyCaps : SetSupplyCap(cap)
    \/ \E cap \in BorrowCaps : SetBorrowCap(cap)
    \/ EnableRates
    \/ \E controller \in Controllers : SetPeridottroller(controller)

Next ==
    \/ \E u \in Users : UserStep(u) \/ LiquidationStep(u) \/ OtherMarketsMove(u)
    \/ \E a \in FlashAmounts, extra \in Extras : FlashLoan(a, extra)
    \/ UpdateInterest
    \/ AdminStep
    \/ Tick
    \/ Donate

Spec == Init /\ [][Next]_vars

-----------------------------------------------------------------------------
(* Properties *)

\* The accounting never counts a unit of cash the vault does not hold: every path that
\* pays tokens in or out changes ManagedCash and the token balance together.
ManagedCashBacked == market.cash <= market.live

\* What reserves and admin fees claim beyond cash and loans; get_total_underlying
\* saturates and shows it as an empty pool.
Deficit(m) == Minus(m.reserves + m.fees, m.cash + m.borrowed)

\* Reserves and admin fees together take no more than the interest.  Each setter bounds its
\* own factor, none the sum.
FactorsFit == config.reserveFactor + config.adminFee <= Scale

\* A deficit hidden by the saturating subtractions comes from nothing but an accrual under
\* factors above one, and grows by no more than that accrual adds: no payment, loan,
\* flash loan or withdrawal of reserves opens or deepens one.
NoHiddenDeficit ==
    [][\/ Deficit(market') <= Deficit(market)
       \/ ~FactorsFit /\ \E rate \in BorrowRates :
            Deficit(market') <= Deficit(Accrued(rate))]_vars

\* What the borrowers owe together never exceeds TotalBorrowed, so that the checked_sub of
\* repay ("repay exceeds total borrowed") can never lock a borrower in his debt, however
\* the roundings of debts and index fall.
DebtsCovered == SumFunction([u \in Users |-> Debt(u, market)]) <= market.borrowed

\* A market without pTokens holds exactly what reserves and fees claim: withdraw refuses
\* to burn the last ones while debts or value remain, so the next depositor starts at the
\* initial rate, owns all he pays in and pays for nobody's deficit.
ZeroSupplyIsEmpty ==
    market.supply = 0 =>
        market.borrowed = 0 /\ market.cash = market.reserves + market.fees

\* Each user's pTokens, one by one.
Units(balances) == UNION {{<<u, i>> : i \in 1..balances[u]} : u \in Users}

\* The pToken supply is what the users hold: no transfer, seizure or fee makes or loses one.
SupplyIsHeld == Cardinality(Units(ptokens)) = market.supply

\* While pTokens exist the quoted exchange rate falls in no step but an accrual under
\* factors above one, and then no further than that accrual takes it: every conversion of
\* users, liquidators and flash borrowers is rounded, and suppliers never pay for it.
RateNeverFalls ==
    [][market.supply > 0 /\ market'.supply > 0 =>
         \/ ExchangeRate(market') >= ExchangeRate(market)
         \/ ~FactorsFit /\ \E rate \in BorrowRates :
              ExchangeRate(market') >= ExchangeRate(Accrued(rate))]_vars

\* An account falls short only if the interest due alone makes it short, or through its
\* positions elsewhere, the wiring of the controller or a lower collateral factor: no
\* deposit, withdrawal, transfer, loan or repayment, of its owner or of anyone else, whatever
\* is rounded and whatever it accrues first, makes an account liquidatable.
NoSelfInflictedShortfall ==
    [][\A u \in Users :
         ~Shortfall(u) /\ Shortfall(u)' =>
            \/ \E rate \in BorrowRates : ShortAt(u, Accrued(rate))
            \/ other'[u] # other[u]
            \/ config'.wired # config.wired
            \/ config'.collateralFactor < config.collateralFactor]_vars

\* Nobody holding pTokens is locked out: get_user_borrow_balance, which deposit, withdraw
\* and transfer all call, answers for every holder.
HoldersCanAct == \A u \in Users : ptokens[u] > 0 => DebtReadable(u)

=============================================================================
