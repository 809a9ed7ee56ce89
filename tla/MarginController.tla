------------------------- MODULE MarginController -------------------------
(***************************************************************************)
(* The margin controller: leveraged positions on top of the receipt        *)
(* vaults, in the two modes that margin-controller/src/contract.rs keeps   *)
(* side by side.                                                           *)
(*                                                                         *)
(* A Legacy position is a share of its owner's ordinary debt in a vault,   *)
(* and its pTokens stay in the owner's account under a lock. A MarginV2    *)
(* position has a debt of its own in the vault, and its pTokens are in the *)
(* controller's account, pooled with everybody's margin balance.           *)
(*                                                                         *)
(* A call is one step: the contracts it calls run inside it and a panic in *)
(* any of them undoes it. Interest is the exception to what a call can     *)
(* foresee: a balance that it read before the vault accrued is stale.      *)
(* pTokens are worth one underlying each; pauses, caps and cash of the     *)
(* vaults are ReceiptVault's and MarketRegistry's. Users have entered every*)
(* market, and can pay any amount of any token from their wallets.         *)
(***************************************************************************)
EXTENDS Integers, FiniteSets, Functions

CONSTANTS
    Users,              \* who own positions
    Assets, Vaults,
    AssetOf,            \* the underlying token of each vault
    FirstMarket,        \* the vault that set_market first gives each asset
    CollateralFactor, CloseFactor, Incentive, Bonus,    \* in percent
    LiquidationFee,     \* of what a liquidation seizes, in percent
    MaxBorrowSteps,     \* MAX_BORROW_STEPS
    MaxSlippage,        \* MaxSlippageBps, in percent
    MaxLeverage, MaxUserPositions,
    VaultCallsBack      \* whether a vault asks the controller while it is called

Custody == "controller"     \* env.current_contract_address() as a holder of pTokens
Keeper == "keeper"          \* liquidates, and owns no position

\* Bounds of the model, not of the code.
CONSTANTS
    MaxPositions,
    MaxPTokens, MaxCustody,     \* of a user and of the controller, in each vault
    MaxDebt, MaxMarginDebt,     \* of a user in each vault, and of a position
    MaxInterest,                \* of one accrual
    MaxOutput,                  \* of one swap
    Mappings,           \* vaults that the admin may set as the market of each asset
    Prices,             \* each asset may have
    Amounts             \* a call may name

ASSUME MarginAssumption ==
    /\ Custody \notin Users /\ Keeper \notin Users
    /\ IsFiniteSet(Users) /\ IsFiniteSet(Vaults) /\ Users # {} /\ Assets # {}
    /\ AssetOf \in [Vaults -> Assets]
    /\ FirstMarket \in [Assets -> Vaults]
    /\ \A a \in Assets : AssetOf[FirstMarket[a]] = a
    /\ CollateralFactor \in 0..100 /\ CloseFactor \in 0..100
    /\ Incentive \in Nat /\ Bonus \in Nat /\ MaxSlippage \in 0..100
    /\ LiquidationFee \in 0..100 /\ MaxBorrowSteps \in Nat
    /\ MaxLeverage \in Nat /\ MaxUserPositions \in Nat
    /\ VaultCallsBack \in BOOLEAN
    /\ MaxPositions \in Nat \ {0} /\ MaxPTokens \in Nat /\ MaxCustody \in Nat
    /\ MaxDebt \in Nat /\ MaxMarginDebt \in Nat /\ MaxInterest \in Nat
    /\ MaxOutput \in Nat /\ Mappings \in [Assets -> SUBSET Vaults]
    /\ Prices \in [Assets -> SUBSET (Nat \ {0})]
    /\ Amounts \subseteq Nat \ {0}

Ids == 1..MaxPositions
Holders == Users \cup {Custody}

VARIABLES
    market,     \* Market: the vault of each asset
    counter,    \* PositionCounter
    position,   \* Position, with its mode, vaults and initial lock
    shares,     \* DebtSharesTotal of each user and debt asset
    balance,    \* MarginBalancePtokens of each user and vault
    ptokens,    \* of each holder in each vault
    debt,       \* get_user_borrow_balance of each user in each vault
    marginDebt, \* get_margin_borrow_balance of each position in its debt vault
    bypass,     \* MarginWithdrawBypass of each holder in each vault
    due,        \* vaults in which interest has fallen due since they last accrued
    price       \* of each asset

books == <<counter, position, shares, balance>>
vault == <<ptokens, debt, marginDebt, bypass, due>>
vars == <<market, books, vault, price>>

Position ==
    [status : {"none", "open", "closed", "liquidated"}, mode : {"Legacy", "MarginV2"},
     owner : Users, asset : Assets, coll : Assets,      \* debt_asset, collateral_asset
     base : Vaults, lent : Vaults, held : Vaults,
     ptokens : Nat, shares : Nat, lock : Nat]

TypeOK ==
    /\ market \in [Assets -> Vaults]
    /\ counter \in 0..MaxPositions
    /\ position \in [Ids -> Position]
    /\ shares \in [Users -> [Assets -> Nat]]
    /\ balance \in [Users -> [Vaults -> Nat]]
    /\ ptokens \in [Holders -> [Vaults -> Nat]]
    /\ debt \in [Users -> [Vaults -> Nat]]
    /\ marginDebt \in [Ids -> Nat]
    /\ bypass \in [Holders -> [Vaults -> BOOLEAN]]
    /\ due \in [Vaults -> BOOLEAN]
    /\ price \in [Assets -> Nat \ {0}]

-----------------------------------------------------------------------------
(* Values and interest *)

Minus(a, b) == IF a >= b THEN a - b ELSE 0      \* saturating_sub
Least(a, b) == IF a <= b THEN a ELSE b
CeilDiv(a, b) == (a + b - 1) \div b

\* Of the token that a vault holds. The controller prices the asset that it looks
\* a vault up by, which set_market need not have matched.
PriceOf(v) == price[AssetOf[v]]

\* oracle_min_out, with the output the oracle expects.
ExpectedOut(in, out, n) == (n * price[in]) \div price[out]
MinOut(in, out, n) == (ExpectedOut(in, out, n) * (100 - MaxSlippage)) \div 100

\* What a swap may pay: no less than the controller's floor, if the oracle expects
\* anything.
SwapOutputs(in, out, n) ==
    {r \in 1..MaxOutput : ExpectedOut(in, out, n) > 0 /\ r >= MinOut(in, out, n)}

\* What update_interest of the vaults vs may add to each debt in each vault.
Accruals(vs) ==
    {g \in [Vaults -> 0..MaxInterest] : \A v \in Vaults : v \notin vs \/ ~due[v] => g[v] = 0}

Grown(amount, g) == IF amount = 0 THEN 0 ELSE amount + g
GrownDebt(g) == [u \in Users |-> [v \in Vaults |-> Grown(debt[u][v], g[v])]]
GrownMarginDebt(g) == [i \in Ids |-> Grown(marginDebt[i], g[position[i].lent])]
DueAfter(vs) == [v \in Vaults |-> due[v] /\ v \notin vs]
Only(g, vs) == [v \in Vaults |-> IF v \in vs THEN g[v] ELSE 0]

\* The vaults that a check of u's account accrues besides those of vs: where she
\* owes something, for a withdrawal; where she is involved at all, for a loan.
OwedToo(u, vs) == vs \cup {v \in Vaults : debt[u][v] > 0}
InvolvedToo(u, vs) == OwedToo(u, vs) \cup {v \in Vaults : ptokens[u][v] > 0}

\* The peridottroller's view of an account: pTokens tok, debts dbt.
Backing(tok) == SumFunction([v \in Vaults |-> tok[v] * PriceOf(v)]) * CollateralFactor
Owed(dbt) == SumFunction([v \in Vaults |-> dbt[v] * PriceOf(v)]) * 100
Covered(tok, dbt) == Owed(dbt) = 0 \/ Backing(tok) >= Owed(dbt)

-----------------------------------------------------------------------------
(* Positions, shares and locks *)

IsOpen(i, mode) == position[i].status = "open" /\ position[i].mode = mode
OpenOf(u) == {i \in Ids : position[i].status = "open" /\ position[i].owner = u}

\* locked_ptokens_in_market
LockedBy(i, u, v) ==
    IF ~(IsOpen(i, "Legacy") /\ position[i].owner = u) THEN 0
    ELSE (IF position[i].held = v THEN position[i].ptokens ELSE 0)
       + (IF position[i].base = v THEN position[i].lock ELSE 0)

Locked(u, v) == SumFunction([i \in Ids |-> LockedBy(i, u, v)])

\* Mutant: the lock is compared with the balance before the pTokens leave.
HoldsLocked(u, v, n) == ptokens[u][v] >= Locked(u, v)

\* enforce_margin_lock
LeavesLocked(u, v, n) == ptokens[u][v] - n >= Locked(u, v)

\* begin_margin_withdraw: the holder's next withdraw does not ask for the lock.
Begun(b, h, v) == [b EXCEPT ![h][v] = TRUE]

\* Mutant: the bypass is read and not removed.
Kept(b, h, v) == b

\* consume_margin_withdraw_bypass
Consumed(b, h, v) == [b EXCEPT ![h][v] = FALSE]

\* What begin_margin_withdraw and a withdraw of h in v leave of the bypasses.
Withdrawn(b, h, v) == Consumed(Begun(b, h, v), h, v)

\* calculate_new_debt_shares
NewShares(borrowed, sharesBefore, debtBefore) ==
    IF sharesBefore = 0 \/ debtBefore = 0 THEN borrowed
    ELSE CeilDiv(borrowed * sharesBefore, debtBefore)

\* Mutant: the position's part of the debt is rounded down.
DebtForDown(p) ==
    LET total == shares[p.owner][p.asset]
        owed == debt[p.owner][p.lent]
    IN IF total = 0 \/ p.shares = 0 THEN 0
       ELSE IF p.shares >= total THEN owed
       ELSE (p.shares * owed) \div total

\* debt_for_shares_in_vault: what a position owes, by the balance last booked.
DebtFor(p) ==
    LET total == shares[p.owner][p.asset]
        owed == debt[p.owner][p.lent]
    IN IF total = 0 \/ p.shares = 0 THEN 0
       ELSE IF p.shares >= total THEN owed
       ELSE CeilDiv(p.shares * owed, total)

\* Mutant: a closed position leaves the total as it was.
NotBurned(u, a, n) == shares

\* set_debt_shares_total after n shares have been paid for.
Burned(u, a, n) == [shares EXCEPT ![u][a] = Minus(@, n)]

\* The position's own pTokens, discounted, do not cover what it owes.
Underwater(p, owed) ==
    p.ptokens * price[p.coll] * CollateralFactor < owed * price[p.asset] * 100

\* remove_user_position, clear_position_initial_lock, _vaults and _mode (read as
\* Legacy from then on). The amounts that the record of a Legacy position keeps
\* are not read again; the vault keeps a MarginV2 debt under its own key.
Ended(p, status) ==
    [p EXCEPT !.status = status, !.mode = "Legacy", !.base = p.lent, !.held = p.lent,
              !.ptokens = 0, !.shares = 0, !.lock = 0]

\* next_position_id and push_user_position.
Push(p) ==
    /\ counter < MaxPositions
    /\ Cardinality(OpenOf(p.owner)) < MaxUserPositions
    /\ counter' = counter + 1
    /\ position' = [position EXCEPT ![counter + 1] = p]

\* The vaults that open_position and open_position_v2 choose: a long borrows the
\* collateral asset, a short holds it.
Sides(c, b) ==
    {[base |-> market[c], lent |-> market[c], held |-> market[b], asset |-> c, coll |-> b],
     [base |-> market[c], lent |-> market[b], held |-> market[c], asset |-> b, coll |-> c]}

\* borrow_amount of n pTokens of collateral c under a leverage.
Leveraged(s, c, n, leverage) ==
    (n * price[c] * (leverage - 1)) \div price[s.asset]

\* Mutant: the initial collateral of a position is forgotten.
OpenedWithoutLock(mode, u, s, n, new, lock) ==
    [status |-> "open", mode |-> mode, owner |-> u, asset |-> s.asset, coll |-> s.coll,
     base |-> s.base, lent |-> s.lent, held |-> s.held,
     ptokens |-> n, shares |-> new, lock |-> 0]

Opened(mode, u, s, n, new, lock) ==
    [status |-> "open", mode |-> mode, owner |-> u, asset |-> s.asset, coll |-> s.coll,
     base |-> s.base, lent |-> s.lent, held |-> s.held,
     ptokens |-> n, shares |-> new, lock |-> lock]

WithinBounds ==      \* of the model
    /\ \A u \in Users, v \in Vaults : ptokens[u][v] <= MaxPTokens /\ debt[u][v] <= MaxDebt
    /\ \A v \in Vaults : ptokens[Custody][v] <= MaxCustody
    /\ \A i \in Ids : marginDebt[i] <= MaxMarginDebt

-----------------------------------------------------------------------------
(* Legacy positions *)

\* What the loop of open_position may have bought with a loan of n, for an account
\* with pTokens tok: each turn borrows what the liquidity allows
\* (max_borrow_step_for_position), swaps it and deposits what it paid. The first
\* turn reads the debts as they are booked, stale; its borrow books dbt.
Bought(s, tok, stale, dbt, n) ==
    LET Owing(drawn) == [dbt EXCEPT ![s.lent] = @ + drawn]
        Liquid(b) ==
            Minus(Backing([tok EXCEPT ![s.held] = @ + b.got]),
                  Owed(IF b.drawn = 0 THEN stale ELSE Owing(b.drawn))) \div (price[s.asset] * 100)
        Step(b) == Least(n - b.drawn, Liquid(b))
        Lends(b) ==
            /\ b.drawn < n
            /\ Covered([tok EXCEPT ![s.held] = @ + b.got], Owing(b.drawn + Step(b)))
        After(b) ==
            {[drawn |-> b.drawn + Step(b), got |-> b.got + r] :
                r \in SwapOutputs(s.asset, s.coll, Step(b))}
        turns[k \in 0..MaxBorrowSteps] ==
            IF k = 0 THEN {[drawn |-> 0, got |-> 0]}
            ELSE LET before == turns[k - 1]
                 IN {b \in before : b.drawn = n} \cup UNION {After(b) : b \in {x \in before : Lends(x)}}
    IN {b.got : b \in {x \in turns[MaxBorrowSteps] : x.drawn = n}}

\* open_position. The debt is read when only the collateral's vault has accrued.
OpenPosition(u, c, b, n, leverage) ==
    /\ c # b
    /\ \E s \in Sides(c, b) :
        LET borrow == Leveraged(s, c, n, leverage)
            touched == InvolvedToo(u, {s.base, s.lent, s.held})
        IN /\ borrow > 0
           /\ \E r \in SwapOutputs(s.asset, s.coll, borrow), g \in Accruals(touched) :
                LET before == GrownDebt(Only(g, {s.base}))[u]
                    after == [GrownDebt(g) EXCEPT ![u][s.lent] = @ + borrow]
                    deposited == [ptokens EXCEPT ![u][s.base] = @ + n]
                    new == NewShares(after[u][s.lent] - before[s.lent],
                                     shares[u][s.asset], before[s.lent])
                IN /\ r \in Bought(s, deposited[u], before, GrownDebt(g)[u], borrow)
                   /\ Push(Opened("Legacy", u, s, r, new, n))
                   /\ shares' = [shares EXCEPT ![u][s.asset] = @ + new]
                   /\ ptokens' = [deposited EXCEPT ![u][s.held] = @ + r]
                   /\ debt' = after
                   /\ marginDebt' = GrownMarginDebt(g)
                   /\ due' = DueAfter(touched)
    /\ UNCHANGED <<market, balance, price, bypass>>
    /\ WithinBounds'

\* open_position_no_swap and open_position_no_swap_short: the shares are priced
\* by the debt before the borrow accrues it.
OpenPositionNoSwap(u, c, d, n, borrow, leverage) ==
    LET s == [base |-> market[c], lent |-> market[d], held |-> market[c], asset |-> d, coll |-> c]
        touched == InvolvedToo(u, {s.base, s.lent})
        deposited == [ptokens EXCEPT ![u][s.base] = @ + n]
    IN /\ c # d
       /\ leverage * 100 <= 100 + CollateralFactor
       /\ borrow * price[d] < ((n * price[c] * CollateralFactor) \div 100) * leverage
       /\ ptokens' = deposited
       /\ \E g \in Accruals(touched) :
            LET before == GrownDebt(Only(g, {s.base}))[u]
                new == NewShares(borrow, shares[u][d], before[s.lent])
            IN /\ Push(Opened("Legacy", u, s, n, new, 0))
               /\ shares' = [shares EXCEPT ![u][d] = @ + new]
               /\ debt' = [GrownDebt(g) EXCEPT ![u][s.lent] = @ + borrow]
               /\ marginDebt' = GrownMarginDebt(g)
       /\ Covered(deposited[u], debt'[u])
       /\ due' = DueAfter(touched)
       /\ UNCHANGED <<market, balance, price, bypass>>
       /\ WithinBounds'

\* The first call that close_position makes on the vaults: withdraw of the
\* position's pTokens. The lock is bypassed, the account check is not.
CollateralComesOut(p, g) ==
    /\ ptokens[p.owner][p.held] >= p.ptokens
    /\ Covered([ptokens[p.owner] EXCEPT ![p.held] = @ - p.ptokens],
               GrownDebt(g)[p.owner])

\* close_position: withdraw and sell the position, repay what its shares owed by
\* the last booked balance, then withdraw the initial collateral.
ClosePosition(i) ==
    LET p == position[i]
        u == p.owner
        owed == DebtFor(p)
        left == Burned(u, p.asset, p.shares)[u][p.asset]
        touched == OwedToo(u, {p.base, p.lent, p.held})
        sold == [ptokens EXCEPT ![u][p.held] = @ - p.ptokens]
        freed == [sold EXCEPT ![u][p.base] = @ - p.lock]
    IN /\ IsOpen(i, "Legacy")
       /\ owed > 0
       /\ p.ptokens > 0 => SwapOutputs(p.coll, p.asset, p.ptokens) # {}
       /\ \E g \in Accruals(touched) :
            LET repaid == [GrownDebt(g) EXCEPT ![u][p.lent] = @ - owed]
            IN /\ CollateralComesOut(p, g)
               /\ left = 0 => repaid[u][p.lent] = 0     \* else "residual debt"
               /\ p.lock > 0 => /\ freed[u][p.base] >= 0
                                /\ Covered(freed[u], repaid[u])
               /\ debt' = repaid
               /\ marginDebt' = GrownMarginDebt(g)
       /\ shares' = Burned(u, p.asset, p.shares)
       /\ ptokens' = freed
       /\ bypass' = IF p.lock > 0 THEN Withdrawn(Withdrawn(bypass, u, p.held), u, p.base)
                    ELSE Withdrawn(bypass, u, p.held)
       /\ position' = [position EXCEPT ![i] = Ended(p, "closed")]
       /\ due' = DueAfter(touched)
       /\ UNCHANGED <<market, counter, balance, price>>
       /\ WithinBounds'

\* Mutant: the seizure is not capped by what there is to seize.
SeizureUncapped(u, lent, held, amount, cap) ==
    LET repay == Least(amount, (debt[u][lent] * CloseFactor) \div 100)
    IN [repay |-> repay, seized |-> (((repay * PriceOf(lent)) * Incentive) \div 100) \div PriceOf(held)]

\* What liquidate_internal lets a liquidator repay and seize: at most the close
\* factor of the account's debt in the vault, and at most cap pTokens.
Seizure(u, lent, held, amount, cap) ==
    LET repay == Least(amount, (debt[u][lent] * CloseFactor) \div 100)
        full == (((repay * PriceOf(lent)) * Incentive) \div 100) \div PriceOf(held)
    IN IF full <= cap THEN [repay |-> repay, seized |-> full]
       ELSE [repay |-> CeilDiv(repay * cap, full), seized |-> cap]

\* The part of a position's shares that a repayment of paid burns.
BurnedShares(p, paid, owed) ==
    IF paid >= owed THEN p.shares
    ELSE Least(CeilDiv(p.shares * paid, owed), p.shares)

Paid(tok, w, v, n) == IF w \in Users THEN [tok EXCEPT ![w][v] = @ + n] ELSE tok

\* What the liquidator gets of n seized pTokens; the fee goes to the reserve
\* recipient, who is none of the users.
LessFee(n) == n - (n * LiquidationFee) \div 100

\* liquidate_position by w, through liquidate_for_margin.
LiquidatePosition(w, i) ==
    LET p == position[i]
        u == p.owner
        owed == DebtFor(p)
        total == debt[u][p.lent]
        z == Seizure(u, p.lent, p.held, owed, Least(ptokens[u][p.held], p.ptokens))
    IN /\ IsOpen(i, "Legacy") /\ w # u /\ p.lent # p.held
       /\ owed > 0 /\ Underwater(p, owed)
       /\ p.ptokens > 0 /\ z.repay > 0 /\ z.seized > 0
       /\ \E g \in Accruals({p.lent}) :
            LET after == Grown(total, g[p.lent]) - z.repay
                burned == BurnedShares(p, total - after, owed)
                q == [p EXCEPT !.shares = @ - burned, !.ptokens = @ - z.seized]
            IN /\ after < total                         \* else "no liquidation progress"
               /\ burned <= shares[u][p.asset]          \* else "share underflow"
               /\ debt' = [GrownDebt(g) EXCEPT ![u][p.lent] = after]
               /\ marginDebt' = GrownMarginDebt(g)
               /\ shares' = Burned(u, p.asset, burned)
               /\ position' = [position EXCEPT ![i] =
                                IF q.shares = 0 THEN Ended(q, "liquidated") ELSE q]
       /\ ptokens' = Paid([ptokens EXCEPT ![u][p.held] = @ - z.seized], w, p.held, LessFee(z.seized))
       /\ due' = DueAfter({p.lent})
       /\ UNCHANGED <<market, counter, balance, price, bypass>>
       /\ WithinBounds'

-----------------------------------------------------------------------------
(* The owner's ordinary dealings with the vaults *)

\* deposit_collateral, or deposit in the vault itself.
DepositCollateral(u, v, n) ==
    /\ ptokens' = [ptokens EXCEPT ![u][v] = @ + n]
    /\ \E g \in Accruals({v}) : debt' = GrownDebt(g) /\ marginDebt' = GrownMarginDebt(g)
    /\ due' = DueAfter({v})
    /\ UNCHANGED <<market, books, price, bypass>>
    /\ WithinBounds'

\* u's account after n of its pTokens have left v, and after the vault has accrued.
TakesOut(u, v, n) ==
    /\ n <= ptokens[u][v]
    /\ \E g \in Accruals(OwedToo(u, {v})) : debt' = GrownDebt(g) /\ marginDebt' = GrownMarginDebt(g)
    /\ Covered([ptokens[u] EXCEPT ![v] = @ - n], debt'[u])
    /\ due' = DueAfter(OwedToo(u, {v}))
    /\ UNCHANGED <<market, books, price>>
    /\ WithinBounds'

\* withdraw_collateral: the controller checks the lock and has the vault skip it.
WithdrawCollateral(u, a, n) ==
    /\ LeavesLocked(u, market[a], n)
    /\ ptokens' = [ptokens EXCEPT ![u][market[a]] = @ - n]
    /\ TakesOut(u, market[a], n)
    /\ bypass' = Withdrawn(bypass, u, market[a])

\* withdraw of the vault itself.
Withdraw(u, v, n) ==
    /\ bypass[u][v] \/ LeavesLocked(u, v, n)
    /\ ptokens' = [ptokens EXCEPT ![u][v] = @ - n]
    /\ TakesOut(u, v, n)
    /\ bypass' = Consumed(bypass, u, v)

\* transfer of the vault itself, to anybody but the controller.
Transfer(u, w, v, n) ==
    /\ LeavesLocked(u, v, n)
    /\ ptokens' = Paid([ptokens EXCEPT ![u][v] = @ - n], w, v, n)
    /\ TakesOut(u, v, n)
    /\ UNCHANGED bypass

\* The vault's borrow: the debt joins the one that the shares divide.
Borrow(u, v, n) ==
    /\ \E g \in Accruals(InvolvedToo(u, {v})) :
        /\ debt' = [GrownDebt(g) EXCEPT ![u][v] = @ + n]
        /\ marginDebt' = GrownMarginDebt(g)
    /\ Covered(ptokens[u], debt'[u])
    /\ due' = DueAfter(InvolvedToo(u, {v}))
    /\ UNCHANGED <<market, books, ptokens, price, bypass>>
    /\ WithinBounds'

\* The vault's repay; the controller does not hear of it.
Repay(u, v, n) ==
    /\ n <= debt[u][v]
    /\ \E g \in Accruals({v}) :
        /\ debt' = [GrownDebt(g) EXCEPT ![u][v] = @ - n]
        /\ marginDebt' = GrownMarginDebt(g)
    /\ due' = DueAfter({v})
    /\ UNCHANGED <<market, books, ptokens, price, bypass>>
    /\ WithinBounds'

\* The peridottroller's liquidate of an account that is short: the vault's seize
\* does not ask for the lock.
LiquidateAccount(w, u, lent, held, n) ==
    LET z == Seizure(u, lent, held, n, ptokens[u][held])
    IN /\ lent # held
       /\ ~Covered(ptokens[u], debt[u])
       /\ z.repay > 0 /\ z.seized > 0
       /\ ptokens' = Paid([ptokens EXCEPT ![u][held] = @ - z.seized], w, held, LessFee(z.seized))
       /\ \E g \in Accruals({lent}) :
            /\ debt' = [GrownDebt(g) EXCEPT ![u][lent] = @ - z.repay]
            /\ marginDebt' = GrownMarginDebt(g)
       /\ due' = DueAfter({lent})
       /\ UNCHANGED <<market, books, price, bypass>>
       /\ WithinBounds'

-----------------------------------------------------------------------------
(* Margin balances and MarginV2 positions. The vaults ask the controller for   *)
(* the lock in transfer, for the position's owner in borrow_for_margin and     *)
(* repay_for_margin; the host refuses to enter a contract that is being called.*)

CallbackAllowed == ~VaultCallsBack

\* Margin balances that users and their open MarginV2 positions have in custody.
ClaimOf(i, v) ==
    IF ~IsOpen(i, "MarginV2") THEN 0
    ELSE (IF position[i].held = v THEN position[i].ptokens ELSE 0)
       + (IF position[i].base = v THEN position[i].lock ELSE 0)

Claims(v) ==
    SumFunction([u \in Users |-> balance[u][v]]) + SumFunction([i \in Ids |-> ClaimOf(i, v)])

\* transfer of n pTokens in vault v.
Transferred(from, to, v, n) ==
    LET out == [ptokens EXCEPT ![from][v] = @ - n]
    IN [out EXCEPT ![to][v] = @ + n]

TransferSpotToMargin(u, a, n) ==
    LET v == market[a]
    IN /\ CallbackAllowed
       /\ n <= ptokens[u][v]
       /\ LeavesLocked(u, v, n)
       /\ ptokens' = Transferred(u, Custody, v, n)
       /\ balance' = [balance EXCEPT ![u][v] = @ + n]
       /\ \E g \in Accruals(OwedToo(u, {v})) : debt' = GrownDebt(g) /\ marginDebt' = GrownMarginDebt(g)
       /\ Covered(ptokens'[u], debt'[u])
       /\ due' = DueAfter(OwedToo(u, {v}))
       /\ UNCHANGED <<market, counter, position, shares, price, bypass>>
       /\ WithinBounds'

TransferMarginToSpot(u, a, n) ==
    LET v == market[a]
    IN /\ CallbackAllowed
       /\ n <= balance[u][v] /\ n <= ptokens[Custody][v]
       /\ ptokens' = Transferred(Custody, u, v, n)
       /\ balance' = [balance EXCEPT ![u][v] = @ - n]
       /\ \E g \in Accruals({v}) : debt' = GrownDebt(g) /\ marginDebt' = GrownMarginDebt(g)
       /\ due' = DueAfter({v})
       /\ UNCHANGED <<market, counter, position, shares, price, bypass>>
       /\ WithinBounds'

\* open_position_v2: the collateral leaves the margin balance, what the loan
\* bought passes through the owner's account into custody.
OpenPositionV2(u, c, b, n, leverage) ==
    /\ CallbackAllowed
    /\ c # b
    /\ \E s \in Sides(c, b) :
        LET borrow == Leveraged(s, c, n, leverage)
            touched == OwedToo(u, {s.lent, s.held})
        IN /\ n <= balance[u][s.base]
           /\ borrow > 0
           /\ balance' = [balance EXCEPT ![u][s.base] = @ - n]
           /\ \E r \in SwapOutputs(s.asset, s.coll, borrow), g \in Accruals(touched) :
                /\ Push(Opened("MarginV2", u, s, r, 0, n))
                /\ ptokens' = [ptokens EXCEPT ![Custody][s.held] = @ + r]
                /\ debt' = GrownDebt(g)
                /\ marginDebt' = [GrownMarginDebt(g) EXCEPT ![counter + 1] = borrow]
                /\ Covered(ptokens[u], debt'[u])        \* of the transfer into custody
           /\ due' = DueAfter(touched)
    /\ UNCHANGED <<market, shares, price, bypass>>
    /\ WithinBounds'

\* Mutant: a position is repaid up to the close factor, as an account is.
RepaidInPart(i, owed, g) ==
    [GrownMarginDebt(g) EXCEPT ![i] = @ - (owed * CloseFactor) \div 100]

\* repay_for_margin of what was last booked, after the vault has accrued.
RepaidMargin(i, owed, g) == [GrownMarginDebt(g) EXCEPT ![i] = @ - owed]

\* close_position_v2: the debt is the last booked one; the surplus of the sale
\* and the initial lock return to the margin balance.
ClosePositionV2(i) ==
    LET p == position[i]
        u == p.owner
        owed == marginDebt[i]
        touched == {p.lent, p.held}
        sold == [ptokens EXCEPT ![Custody][p.held] = @ - p.ptokens]
        unlocked == [balance EXCEPT ![u][p.base] = @ + p.lock]
    IN /\ CallbackAllowed
       /\ IsOpen(i, "MarginV2")
       /\ AssetOf[p.held] = p.coll /\ AssetOf[p.lent] = p.asset  \* it holds no other tokens
       /\ owed > 0
       /\ p.ptokens <= ptokens[Custody][p.held]
       /\ \E r \in SwapOutputs(p.coll, p.asset, p.ptokens), g \in Accruals(touched) :
            /\ r >= owed
            /\ ptokens' = [sold EXCEPT ![Custody][p.lent] = @ + (r - owed)]
            /\ balance' = [unlocked EXCEPT ![u][p.lent] = @ + (r - owed)]
            /\ debt' = GrownDebt(g)
            /\ marginDebt' = RepaidMargin(i, owed, g)
       /\ bypass' = Withdrawn(bypass, Custody, p.held)
       /\ position' = [position EXCEPT ![i] = Ended(p, "closed")]
       /\ due' = DueAfter(touched)
       /\ UNCHANGED <<market, counter, shares, price>>
       /\ WithinBounds'

\* What liquidate_position_v2 seizes of the position for a debt of owed.
SeizedV2(p, owed) ==
    LET worth == (((owed * price[p.asset]) * Bonus) \div price[p.coll]) \div 100
    IN Least(IF worth = 0 THEN 1 ELSE worth, p.ptokens)

\* liquidate_position_v2 by w: repays what was last booked, takes the initial
\* lock whole, and forgets what it does not seize of the position.
LiquidatePositionV2(w, i) ==
    LET p == position[i]
        owed == marginDebt[i]
        seized == SeizedV2(p, owed)
        touched == {p.lent, p.held, p.base}
        out == [ptokens EXCEPT ![Custody][p.held] = @ - seized]
    IN /\ CallbackAllowed
       /\ IsOpen(i, "MarginV2") /\ w # p.owner
       /\ owed > 0 /\ Underwater(p, owed)
       /\ seized <= ptokens[Custody][p.held]
       /\ p.lock <= out[Custody][p.base]
       /\ ptokens' = Paid(Paid([out EXCEPT ![Custody][p.base] = @ - p.lock], w, p.held, seized),
                          w, p.base, p.lock)
       /\ \E g \in Accruals(touched) :
            /\ debt' = GrownDebt(g)
            /\ marginDebt' = RepaidMargin(i, owed, g)
       /\ position' = [position EXCEPT ![i] = Ended(p, "liquidated")]
       /\ due' = DueAfter(touched)
       /\ UNCHANGED <<market, counter, shares, balance, price, bypass>>
       /\ WithinBounds'

-----------------------------------------------------------------------------
(* The world *)

SetMarket(a, v) ==
    /\ market[a] # v
    /\ market' = [market EXCEPT ![a] = v]
    /\ UNCHANGED <<books, vault, price>>

FallDue(v) ==
    /\ ~due[v]
    /\ \/ \E u \in Users : debt[u][v] > 0
       \/ \E i \in Ids : marginDebt[i] > 0 /\ position[i].lent = v
    /\ due' = [due EXCEPT ![v] = TRUE]
    /\ UNCHANGED <<market, books, ptokens, debt, marginDebt, price, bypass>>

Accrue(v) ==
    /\ due[v]
    /\ \E g \in Accruals({v}) : debt' = GrownDebt(g) /\ marginDebt' = GrownMarginDebt(g)
    /\ due' = DueAfter({v})
    /\ UNCHANGED <<market, books, ptokens, price, bypass>>
    /\ WithinBounds'

MovePrice(a) ==
    /\ \E x \in Prices[a] : x # price[a] /\ price' = [price EXCEPT ![a] = x]
    /\ UNCHANGED <<market, books, vault>>

NoPosition(u) ==
    [status |-> "none", mode |-> "Legacy", owner |-> u, asset |-> CHOOSE a \in Assets : TRUE,
     coll |-> CHOOSE a \in Assets : TRUE,
     base |-> CHOOSE v \in Vaults : TRUE, lent |-> CHOOSE v \in Vaults : TRUE,
     held |-> CHOOSE v \in Vaults : TRUE, ptokens |-> 0, shares |-> 0, lock |-> 0]

Init ==
    /\ market = FirstMarket
    /\ counter = 0
    /\ position = [i \in Ids |-> NoPosition(CHOOSE u \in Users : TRUE)]
    /\ shares = [u \in Users |-> [a \in Assets |-> 0]]
    /\ balance = [u \in Users |-> [v \in Vaults |-> 0]]
    /\ ptokens = [h \in Holders |-> [v \in Vaults |-> 0]]
    /\ debt = [u \in Users |-> [v \in Vaults |-> 0]]
    /\ marginDebt = [i \in Ids |-> 0]
    /\ bypass = [h \in Holders |-> [v \in Vaults |-> FALSE]]
    /\ due = [v \in Vaults |-> FALSE]
    /\ price \in {x \in [Assets -> UNION {Prices[a] : a \in Assets}] :
                    \A a \in Assets : x[a] \in Prices[a]}

Legacy ==
    \/ \E u \in Users, c, b \in Assets, n \in Amounts, leverage \in 2..MaxLeverage :
        OpenPosition(u, c, b, n, leverage)
    \/ \E u \in Users, c, d \in Assets, n, borrow \in Amounts, leverage \in 1..MaxLeverage :
        OpenPositionNoSwap(u, c, d, n, borrow, leverage)
    \/ \E i \in Ids : ClosePosition(i)
    \/ \E w \in Users \cup {Keeper}, i \in Ids : LiquidatePosition(w, i)

Custodial ==
    \/ \E u \in Users, a \in Assets, n \in Amounts :
        TransferSpotToMargin(u, a, n) \/ TransferMarginToSpot(u, a, n)
    \/ \E u \in Users, c, b \in Assets, n \in Amounts, leverage \in 2..MaxLeverage :
        OpenPositionV2(u, c, b, n, leverage)
    \/ \E i \in Ids : ClosePositionV2(i)
    \/ \E w \in Users \cup {Keeper}, i \in Ids : LiquidatePositionV2(w, i)

Spot ==
    \/ \E u \in Users, v \in Vaults, n \in Amounts :
        \/ DepositCollateral(u, v, n) \/ Withdraw(u, v, n)
        \/ Borrow(u, v, n) \/ Repay(u, v, n)
    \/ \E u \in Users, a \in Assets, n \in Amounts : WithdrawCollateral(u, a, n)
    \/ \E u \in Users, w \in Users \cup {Keeper}, v \in Vaults, n \in Amounts :
        Transfer(u, w, v, n)
    \/ \E w \in Users \cup {Keeper}, u \in Users, lent, held \in Vaults, n \in Amounts :
        LiquidateAccount(w, u, lent, held, n)

World ==
    \/ \E a \in Assets : \E v \in Mappings[a] : SetMarket(a, v)
    \/ \E a \in Assets : MovePrice(a)
    \/ \E v \in Vaults : FallDue(v) \/ Accrue(v)

Next == Legacy \/ Custodial \/ Spot \/ World

Spec == Init /\ [][Next]_vars

-----------------------------------------------------------------------------
(* Properties *)

SharesHeld(u, a) ==
    [i \in Ids |-> IF IsOpen(i, "Legacy") /\ position[i].owner = u /\ position[i].asset = a
                   THEN position[i].shares ELSE 0]

\* The total that divides a user's debt (DebtSharesTotal) is exactly what her
\* open Legacy positions in that asset hold, whatever was opened, closed in
\* between, liquidated in parts, or repaid behind the controller's back.
SharesMatch ==
    \A u \in Users, a \in Assets : SumFunction(SharesHeld(u, a)) = shares[u][a]

LockHeld(u, v) == ptokens[u][v] >= Locked(u, v)

\* A user's pTokens cover what her open positions lock, unless a liquidation of
\* the whole account took them: no call of hers, no other position's closing or
\* liquidation, no remapping of a market makes the lock exceed the balance.
LocksKept ==
    [][\A u \in Users, v \in Vaults :
        LockHeld(u, v) =>
            \/ LockHeld(u, v)'
            \/ \E w \in Users \cup {Keeper}, lent \in Vaults, n \in Amounts :
                LiquidateAccount(w, u, lent, v, n)]_vars

\* A position that is closed when its vault has no unbooked interest repays at
\* least its shares' part of the debt: what is left per remaining share of the
\* owner does not rise.
CloseRepaysItsShares ==
    [][\A i \in Ids :
        LET p == position[i]
        IN IsOpen(i, "Legacy") /\ position'[i].status = "closed" /\ ~due[p.lent]
            => debt'[p.owner][p.lent] * shares[p.owner][p.asset]
                <= debt[p.owner][p.lent] * shares'[p.owner][p.asset]]_vars

\* Custody is exact: pTokens that nobody claims any more appear only where a
\* MarginV2 position is liquidated, and never a claim without its pTokens.
OnlyLiquidationStrands ==
    [][\A v \in Vaults :
        \/ ptokens'[Custody][v] - Claims(v)' = ptokens[Custody][v] - Claims(v)
        \/ /\ ptokens'[Custody][v] - Claims(v)' > ptokens[Custody][v] - Claims(v)
           /\ \E i \in Ids : /\ IsOpen(i, "MarginV2") /\ position[i].held = v
                             /\ position'[i].status = "liquidated"]_vars

\* A MarginV2 position that ends while its vault has no unbooked interest leaves
\* no debt: none could be repaid once the position is not open.
SettledOwesNothing ==
    [][\A i \in Ids :
        IsOpen(i, "MarginV2") /\ position'[i].status # "open" /\ ~due[position[i].lent]
            => marginDebt'[i] = 0]_vars

\* "Allow voluntary close of underwater positions by topping up debt asset from
\* wallet" (close_position): with no interest unbooked and a wallet that can pay
\* anything, the vault lets the owner take the position's pTokens out.
OwnersCanClose ==
    \A i \in Ids :
        IsOpen(i, "Legacy") /\ DebtFor(position[i]) > 0 /\ (\A v \in Vaults : ~due[v])
            => CollateralComesOut(position[i], [v \in Vaults |-> 0])

=============================================================================
