# Peridot on Soroban: TLA+ models and proofs

TLA+ specifications of the lending protocol in `src/peridot-contracts/contracts`, the TLC
configurations that model-check them, and theorems about them proved with TLAPS.
`ReceiptVault` below is the module, *receipt-vault* the contract. Source lines are written
`RV:n` (`receipt-vault/src/contract.rs`), `PC:n` (`simple-peridottroller/src/contract.rs`) and
`MC:n` (`margin-controller/src/contract.rs`).

## 1. The system

| Component | State | Operations | Modules |
|---|---|---|---|
| *receipt-vault*: one lending market, one instance per token | managed cash, total borrowed, borrow index, reserves, admin fees, pToken balances, a debt snapshot per user, factors and caps | deposit, withdraw, transfer, borrow, repay, flash_loan, repay_on_behalf, seize, update_interest, admin setters, withdrawal of reserves | `ReceiptVault` |
| *simple-peridottroller*, registry: which markets exist and who is in them | supported markets, token allowlist, each user's list, entrants per market, zero-totals proofs, four pauses per market, owners of boosted vaults | add/remove/force_remove_market, verify_market_zero_totals, enter/exit_market, set_pause_*, pause_*_g, bind_boosted_vault | `MarketRegistry` |
| *simple-peridottroller*, risk: what an account is worth and when it is liquidated | none of its own: it reads the vaults and prices | hypothetical_liquidity_with_hint, get_borrows_excl, get_collateral_excl_usd, liquidate, liquidate_for_margin, repay_on_behalf_for_liquidator, previews | `AccountRisk` |
| *simple-peridottroller*, administration | close factor, incentive, collateral factors, oracle, code; each with a pending value | delayed setters, propose/upgrade_wasm | `Timelock`, `ParameterNotice` |
| *simple-peridottroller*, prices | the oracle, the name it knows a token by, an age multiplier, cached reports, fallback prices with their age | cache_price, get_price_usd, set_oracle, set_price_fallback, backfill_fallback_price_set_at | `Prices`, `Timelock` |
| *simple-peridottroller*, rewards | speeds, supply and borrow index per market, index and accrued amount per user | accrue_user_market (as the vaults call it), claim, set_supply_speed, set_borrow_speed | `Rewards` |
| *margin-controller* and the vault's margin entry points | the market of each asset, positions, debt shares, locks, margin balances | open, close, liquidate in two modes, transfer_spot_to_margin and back, set_market | `MarginController` |
| *receipt-vault*, boosted vault | shares of another vault that the idle cash is lent to, the value they had when it last answered | deposit_into_boosted, redeem_from_boosted, rebalance_idle_cash, set_boosted_vault | `BoostedVault` |
| *jump-rate-model* | base rate, two slopes, kink | utilization, borrow rate, supply rate | `JumpRateModel` |
| *peridot-token*, *smart-account-basic*, *smart-account-factory*, *swap-adapter*, mocks, bot, dashboard, scripts | see `PROJECT.json` | | not modelled |

How they interact. A user calls a vault. The vault asks the controller whether the operation
is paused, and for withdraw, transfer and borrow whether the account stays covered; the
controller answers by reading the user's *other* markets one by one, some of which it
accrues first. A liquidator calls the controller, which repays in one vault
(`repay_on_behalf`) and seizes pTokens in another (`seize`). Prices come from a cache, an
external oracle or a fallback. Before a vault changes what a user holds, it tells the controller,
which pays her rewards for what she held. A vault may keep its idle cash in a boosted vault and
calls back what a withdrawal or loan needs. The margin controller borrows from the vaults for
positions whose pTokens it locks in the owner's account (Legacy) or holds itself (MarginV2).
Soroban runs one transaction at a time, undoes a call that
panics and forbids re-entry, so **an entry point is one atomic action and a panic is a
disabled action** in every module.

What is hard in this code, hence what the properties are about (`PROJECT.json`, `hazards`,
names the lines):

* long sequences of legal calls: rounding that adds up, a last pToken burned while something
  is left behind, a cap switched off and on, a market delisted and listed again;
* two records of one quantity: managed cash and token balance, entrant counts and user
  lists, owner records in two contracts, total borrowed and the users' debts;
* state that is stale when used: interest not yet booked in the markets an account is judged
  by, a proof of empty totals that outlives its truth, balances read before pTokens leave;
* reads that fail one by one while a sum over markets is taken;
* time: pauses that end, notices that must be given, prices that age;
* the same value from three sources of different age (prices; the worth of boosted shares);
* one contract asking another in the middle of a call that the other is waiting for.

What makes each component correct:

* **vault** - its books are backed by tokens; no call hides a deficit; debts never exceed
  the total; rounding favours the pool; nobody is pushed into a shortfall by a call; a market
  without pTokens is empty.
* **registry** - no debt escapes account liquidity; delisting looks at an exact count; the
  allowlist follows the listings, whichever market does not answer; a boosted vault serves one
  market; no pause lasts for ever.
* **risk** - an account cannot leave itself uncovered; failing reads do not make a covered
  account liquidatable; a liquidation takes no more than it pays for; previews are honoured.
* **administration** - a value comes into force only after it was public for the whole delay.
* **prices** - what is quoted is recent by the rules in force now, never goes back to an older
  report of the same source, and is a configured price only as long as somebody vouched for it.
* **rewards** - no more is paid than was emitted; what was earned is not lost; new pTokens earn
  nothing for the past.
* **boosted vault** - what is promised as liquidity can be paid out; no call passes value from one
  holder to another.
* **margin** - shares of debt add up; locked pTokens are there; custody matches claims; a position
  that ends takes its debt with it.

## 2. Plan

Order of work, most important first. Done:

1. `ReceiptVault`: one market with all its user, controller and admin entry points.
2. `MarketRegistry`: markets, entrants, pauses, with the vaults as *has pTokens / has debt*.
3. `ParameterNotice` (abstract) and `Timelock` (refines it).
4. `AccountRisk`: one account over several markets, failing reads, liquidation amounts.
5. `MarginController`: positions in both modes with the vaults' margin entry points.
6. `Rewards`: indices, payments and claims in one market.
7. `Prices`: cache, oracle and fallback, with `Timelock` for the change of oracle (`INSTANCE`).
8. `BoostedVault`: idle cash lent elsewhere, with quotes that fail, lag and round.
9. `JumpRateModel`: the rate functions, for proofs alone.
10. `Arithmetic`: lemmas about division and about sums over finite sets, for the proofs.
11. Proofs about modules 1 to 9 (section 6).

Sums over users, markets and positions are `SumFunction` and `SumFunctionOnSet` of the community
module `Functions`, so that `Arithmetic` can state once what a sum does when one summand changes.

## 3. Modules and how they correspond to the code

Parameters are CONSTANTS with named assumptions; constants under *Bounds of the model* are
not in the code. `MC*` modules only give values to constants. Definitions whose comment begins with *Mutant* or
*A bug* are wrong variants of the definition that follows them; no specification uses them,
they are what each property is tried against.

### ReceiptVault

Variables: `market` (the totals of `storage.rs`; `live` is the token contract's balance of
the vault, `pending` the time since `LastUpdateTime`), `ptokens`, `snapshot`
(`BorrowSnapshots`), `hasBorrowed` (`HasBorrowed`, three-valued), `principalTotal`, `config`,
`other` (what the controller adds to a user's position). One action per entry point; all but
`Seize`, the two withdrawals of reserves and the setters begin with `Accrued(rate)`, the
whole of `update_interest`, with any rate of `BorrowRates`. The admin sets reserve factor, admin fee,
flash loan fee, collateral factor and caps to any values of `ReserveFactors` and so on;
`collateralFactor` is the one in force, the vault's own until it is wired and the controller's for
this market from then on.

Abstractions: prices are one (a market is judged against `other`, given in its own token); the rate is any
of a set, so the jump rate model and the admin's rate setters are covered by it; the borrow flag is kept in
full since it decides who is locked out. Left out: wallets, events, storage lifetimes (but for the
fail-closed reading of a missing record), u128 overflow, `recover_*`, admin handover and upgrade; the
boosted vault and `TotalDeposited` are in `BoostedVault`, the margin entry points in `MarginController`. An
accrual that panics in the code (overflow, a rate beyond the limit) is a call that does not happen. When the
call of the rate model fails, the code goes on with the static rate (`RV:1949`), which is one more of the
rates that `Accrued` may be given.

### MarketRegistry

Variables follow `DataKey` of the controller; `holders` and `debtors` say who has pTokens and
debts in each vault. Amounts are zero or not. A pause or a proof is *what is left of it*, so
an expired entry and an absent one are the same, as `is_pause_active` makes them. A borrow
asks for an entered market, a liquidation for an entered collateral market, a deposit for
neither. A pause without an expiry, which a contract upgraded from earlier code may hold, has
`Endless` left; `MigrateLegacyPauses` gives a batch of them one, by the position (`Rank`) of the
supported markets among the keys. `underlying` says which markets have their token cached
(`MarketUnderlying`). A removal scans the other markets by their addresses up to the first that settles
whether the token stays allowed (`Settling`): one that has it, or one whose token is neither cached nor,
for `remove_market`, told when asked; those that answer before it are cached (`Cached`).
`force_remove_market` asks nobody. Left out: change of guardian, vaults not yet wired.

### ParameterNotice and Timelock

`ParameterNotice` promises that a value replaces another only after it has been public for
`Delay` without interruption. `Timelock` is the code: one pending value and an
`execute_after` per parameter, four setters of one shape, first values without delay for
oracle and collateral factor, and the staged upgrade. `GivesNotice == Notice!Spec` is the
refinement: a value's notice is `Delay - wait` while it is the pending one. Left out: setters
without delay, two-step admin, a pending value whose time was archived (it cannot arise on a
fresh deployment). The contract's unit tests are built with a delay of 0, so these branches
do not run there.

### AccountRisk

One account and the markets it has entered. `position` has pTokens, debt and exchange rate
per market; `due` is interest that an accrual would book; `fault` is the read that fails now
(balance, debt, accrual, token, rate), `quoted` the markets with a price. `KnownDebt`,
`KnownCollateral`, `Indeterminate` and `CollateralUnknown` are the four results of
`sum_positions_usd_for_markets`, read by read. `Borrow` and `Redeem` accrue what the code
accrues, no more; `Settle` is `liquidate_internal` from the close factor to the seizure, with
every floor and the ceiling of the scaled repayment; `own` is a liquidator who is the
borrower. Abstractions: interest comes in whole units and moves the debt and the exchange
rate of its market alike; cash, caps, pauses and listings are the other modules' subject.

### Prices

One token. `cache`, `fallback` and `report` hold *who reported for which asset, how long ago*;
amounts are left out, since no branch depends on them beyond "positive". `value`, `pending` and
`wait` are `Timelock`'s variables, instantiated for the one setting `oracle`, and `SetOracle` is
its `Set`. `CachePrice` is `cache_price`; `QuoteCached`, `QuoteLive` and `QuoteFallback` are the order in
which `get_price_usd` looks; a cached report is judged by the resolution stored with it and the multiplier in
force now, a direct one by the oracle's. `quote` and `vouched` (how long ago an admin set the
fallback or gave a legacy one a time) record what the properties speak of. Amounts and decimals are
left out.

### Rewards

One market. `held` is what each user has in it, `index`, `userIndex`, `accrued` and `elapsed` the
records of the controller (time as *what has passed since*), `minted` the reward tokens. `Enlarge`
and `Reduce` are deposit/borrow and withdraw/repay, which announce the user with what she held
*before*; `Transfer` announces both with what they hold *after*; `Liquidate` announces
nobody, neither for the debt it repays nor for the pTokens it moves.
`InterestAccrues` is an update of interest, which enlarges debts without announcement. `Claim`
takes how its reads and the mint answer as a parameter. A product beyond `MaxWord` sets the speed
to zero and moves the time on, as `PC:3388` does. Left out: that a user has several markets.

### BoostedVault

One market as totals, its boosted vaults as *pools* of assets and shares that gain, lose and stop
answering. `Boosted` is `get_boosted_underlying` with its four sources (no shares, quote, fresh
cache, the larger of cache and books), `Payable` and `Redeemed` are
`redeem_from_boosted`, in which the number of shares comes from the preview or from the ratio and
is rounded up. Entry points are those of the vault that touch cash; who may call them (collateral,
lists, caps) is `ReceiptVault`'s question, so every amount of `Amounts` may be tried. A boosted
vault is changed only after it was used, to keep runs small.

### MarginController

`position`, `shares`, `balance`, `market` and `counter` are the controller's records, `ptokens`, `debt`,
`marginDebt` and `due` the vaults'. *Legacy* positions are a share of the owner's ordinary debt and lock her
pTokens; *MarginV2* positions (`Custodial`) have a debt of their own and their pTokens belong to the
controller. `due` says that a vault has unbooked interest: a debt read before the vault accrues is the old
one. `bypass` is the vault's `MarginWithdrawBypass`: `begin_margin_withdraw` sets it, `withdraw` reads and
removes it (`Begun`, `Consumed`), and a `Withdraw` by the owner herself skips the lock if one is left. A
swap pays any amount from the slippage limit upwards, to `MaxOutput`. `OpenPosition` borrows in turns as the
code does (`Bought`; `MaxBorrowSteps` is 32 there), each as far as the liquidity at that moment allows. The
controller prices the asset it was given, the peridottroller the token a vault holds (`PriceOf`);
`SetMarket` may make them differ, as `set_market` checks nothing, to the vaults of `Mappings`. Users may
also deposit, withdraw, transfer, borrow and repay beside their positions, and be liquidated as accounts
(`LiquidateAccount`, `liquidate_for_margin` and `seize`, which does not look at locks), by themselves too,
which the controller's `liquidate_position` and `liquidate_position_v2` refuse (`MC:963`, `MC:1105`). A
liquidation fee goes to a recipient who is none of the users. `VaultCallsBack` says whether a vault asks the
margin controller inside a call of that controller. The vault of this repository does
(`enforce_margin_lock`, `get_margin_position_owner`), and Soroban refuses the second entry, so with `TRUE`
no step of a MarginV2 position and no transfer between spot and margin is enabled; the unit tests use a mock
vault that does not ask (`margin-controller/src/test.rs:1021`). `margin` takes `TRUE`: Legacy positions work
with real vaults. `margin_custody` takes `FALSE`, since with `TRUE` that half of the module is dead; section
5 records it. pTokens are worth one underlying, so the inner floor of the discounted collateral (`MC:630`)
takes nothing off; pauses, caps and cash are the vaults'. Left out: the upgrade timelock of this contract,
and pTokens sent to the controller by a plain `transfer`, which nobody can claim.

### JumpRateModel

Three pure functions and the limits the setters put on their parameters, as operators without
state; nothing is left of it for TLC to explore, and its theorems hold for every value. They are
proved in `ReceiptVaultProofs`, which instantiates it beside `ReceiptVault`, so one of them speaks
of the states of a vault that asks for a rate.

## 4. Runs

| Run | Instance | States | Shows |
|---|---|---|---|
| `vault` | 2 users; first without controller (caps, interest, flash loans, gifts), then wired (liquidations, positions elsewhere); reserve factor and admin fee of 0 or of everything, a collateral factor that is lowered | 593,896 | `TypeOK`, `ManagedCashBacked`, `ZeroSupplyIsEmpty`, `DebtsCovered`, `SupplyIsHeld`, `NoHiddenDeficit`, `RateNeverFalls`, `NoSelfInflictedShortfall` |
| `vault_frozen` | part of the above | | finding 1 |
| `registry` | 2 markets of one token, 2 users, 1 boosted vault | 566,337 | `CountsMatchEntrants`, `DebtsAreVisible`, `BoostedVaultsExclusive` |
| `registry_pauses` | 2 markets of one token, cached or not, their pauses with and without expiry, time | 441,732 | `TypeOK`, `MigrationMissesNone`, `AllowlistMatchesMarkets`, `PausesLapse`, `DelistedMarketsThaw` |
| `timelock` | 2 settings and the code, 3 values, delay 2 | 13,860 | `GivesNotice` |
| `risk` | collateral market, debt market, failing market | 46,056 | `TypeOK`, `OwnStepsLeaveCovered`, `OnlyShortAreLiquidatable`, `SeizedWithinIncentive`, `BorrowPreviewHonoured`, `RedeemPreviewNearlyHonoured` |
| `prices` | 2 oracles, 2 names of the token | 465,284 | `TypeOK`, `QuotesAreRecent`, `QuotesAdvance`, `FallbackIsVouchedFor` |
| `rewards` | 2 users, speeds 0 and 1, overflow at 3 | 252,468 | `TypeOK`, `EmissionBoundsClaims`, `EntitlementKept`, `NewLiquidatorsStartNow` |
| `margin` | Legacy, vaults that call back: 1 user and a keeper, 2 assets, 2 positions | 224,100 | `TypeOK`, `SharesMatch`, `LocksKept`, `CloseRepaysItsShares` |
| `margin_custody` | MarginV2: 1 position, an asset mapped to two vaults of its own and one of the other | 211,968 | `OnlyLiquidationStrands`, `SettledOwesNothing` |
| `margin_close` | as `margin`, collateral factor 75% | | finding 2 |
| `boosted` | 1 boosted vault shared with another depositor, 1 of the market alone | 723,112 | `TypeOK`, `AvailableIsPayable`, `HoldersKeepWorth` |

Why the bounds are enough for what they are for:

* *Scales of 10 instead of 10^6 or 10^18* make every division lose up to a tenth, so rounding
  shows in values of a few units; amounts that do and do not divide evenly are among the inputs.
* *Two users* give transfer, liquidation by another, a fee recipient who is one of them, and
  a borrower beside a supplier. Symmetry over users (and markets, oracles) is used in safety runs
  only.
* In `vault`, `MaxAssets`, `MaxIndex`, `MaxPending` and `MaxDonation` stop growth after an accrual,
  one gift and a few deposits: enough for every property to be broken by a wrong variant of the
  code. The run wires the vault after it was used under its local rules, so debts of that time are
  part of it. A rate of 5 over 2 makes the interest on one unit 2 and on two units 5, so an index of
  35 leaves fractions on the debts of two borrowers and a rate that does not divide evenly on the
  pTokens. Both factors are 0 or the whole interest; with both at their maximum an accrual books the
  interest twice and opens a deficit, the case that `FactorsFit` excuses. Flash loans carry a fee or
  none and are returned exactly or with one unit more. pTokens leave in threes, so that shares of one
  and two remain behind. It does not check for deadlock, nor do `margin*` and `boosted`: at the bounds
  the model stops where the program would go on.
* In `registry` the pauses last one unit, so they end between any two calls. In `registry_pauses` two
  markets share a token, the case in which delisting must not remove it from the allowlist, and every
  set of listed markets and pauses, and of markets whose token is not cached, may be what an upgrade
  leaves. A removal asks the remaining markets for theirs, and each answers or does not. That a token
  outlives its last market while a market of another token is unknown needs a third market and is left
  to the theorem `AllowlistExact`. The pauses are migrated one market at a time, so listings and
  delistings fall between the batches. The run has no users: nothing they do changes a pause or the
  allowlist, and `registry` has their steps. The borrow pause that a
  delisting asks for comes with the liquidation pause.
* In `risk` the collateral has two prices, market x may lose each of its five reads and its
  price, a margin call may cap the seizure below what is held, and the close factor leaves a
  part. Both branches of the scaling and of the fee occur.
* In `prices` `MaxAge` exceeds every limit, so what reaches it stays too old; two sources report,
  so quotes change between oracles and names. A multiplier above the maximum is tried and refused.
* In `rewards` a market is rewarded on one side at a time (`MaxRewarded`), the two sides being
  independent but for the user's sum; the smallest overflow comes after two ticks.
* In `margin` two positions of one user share a debt, which is what shares are for; a collateral factor of
  100% makes room for positions within amounts of two, and two borrow steps for loans of two.
  `margin_custody` has a second vault of one asset because `set_market` may replace the vault under an open
  position, and maps it to the other asset's vault too. A liquidation fee of a half is what shows on amounts
  of two.
* In `boosted` amounts of 4 make the rounding of one share small against what a wrong value would
  move; `MaxEvents` allows three ticks, gifts, gains, losses and outages in all, so a stale cache,
  a gain and an outage can meet.

Fairness: `FairSpec` of `MarketRegistry` assumes weak fairness of `Tick` alone: time passes.
Nothing is assumed of users, liquidators or the admin, who may never act. All other specifications
have no fairness.

What properties exclude, and why:

* `OwnStepsLeaveCovered` allows one USD unit: the code converts the present debt and the new
  loan to USD apart and floors both, so their sum can be one unit more than what was compared. It
  speaks of steps that pay nothing: a repayment or liquidation judges no account (a liquidation of a
  short account may leave it shorter).
* `OnlyShortAreLiquidatable` excludes collateral that has no price or no exchange rate
  (`Overlooked`): the code counts it as zero without calling the sum indeterminate (`PC:3020`
  says so), so the other collateral of such an account can be liquidated although it is covered.
* `RedeemPreviewNearlyHonoured` allows the worth of two token units and a USD unit:
  `preview_redeem_max` rounds down what has to remain (`PC:2272`), and `withdraw` may refuse the
  amount.
* `EmissionBoundsClaims` and `EntitlementKept` exclude the steps in which holdings change without
  announcement or with the holdings afterwards (transfers, liquidations, interest).
* `PausesLapse`, `DelistedMarketsThaw` and `MigrationMissesNone` excuse a pause without an expiry that
  the migration cannot reach: its market was delisted then, or slipped past the cursor when another
  was delisted during the migration.
* `CloseRepaysItsShares` and `SettledOwesNothing` speak of closings with no interest unbooked.
* `LocksKept` excuses the liquidation of the account, whose `seize` does not ask for locks, and
  `OnlyLiquidationStrands` that of a MarginV2 position, which forgets what it does not seize.
* `NoHiddenDeficit` and `RateNeverFalls` excuse an accrual under a reserve factor and an admin fee that
  sum to more than one (`FactorsFit`), which the setters admit, and then only as far as that accrual goes
  by itself: the payment or withdrawal that it is a part of may add nothing to it.
* `NoSelfInflictedShortfall` excuses what interest alone does to the account, positions elsewhere, the
  wiring and a lowered collateral factor.
* `AllowlistMatchesMarkets` lets a token outlive its last market while the token of another listed market
  is unknown: the removal cannot tell and keeps it (`PC:293`), and no later one looks at it again.
* `HoldersKeepWorth` and `AvailableIsPayable` speak of a boosted vault that answers.

## 5. Where code and documentation disagree

1. `vault_frozen`: `seize` pays pTokens to accounts whose borrow flag was never set; their
   later calls panic with "borrow state missing" until the admin intervenes.
2. `margin_close`: a comment lets owners close underwater positions by topping up from the wallet;
   the close withdraws the position's pTokens before it repays, and the vault refuses that while
   the debt is booked, even for a position in the state it was opened in.

`PROJECT.json` quotes the lines. Seen while modelling, each in the action or exclusion it names,
without a run of its own:

* *vault* - the reserve factor and the admin fee are bounded one by one; both at 100% book twice
  the interest, so that claims outgrow cash and loans and the exchange rate falls (what `FactorsFit`
  excuses; `vault` has such accruals).
  `TotalBorrowPrincipal` is seeded with interest when a cap is set, and keeps it after it was
  repaid. A vault that lent under its local rules and is then wired has borrowers who have not
  entered it, and the controller does not count their debts (`RV:1480`).
* *registry* - a zero-totals proof outlives its truth: a deposit after the pauses were lifted is
  not seen by a removal within the day. The migration of pauses counts keys (`PC:1081`): a market
  delisted before its last batch brings the next one behind the cursor, whose pause then stays
  without an expiry, as does that of a market listed again later, and `PauseExpiryMigrationDone`
  keeps the migration from being run again; the admin can lift such a pause, or set it anew with an
  expiry, while the market is listed.
* *administration* - a pending value has no latest time: naming the value in force returns without
  clearing it (`PC:547`), so it can be applied at any later moment.
* *risk* - whether an account may be liquidated is asked before its debt market accrues (`PC:2459`).
* *rewards* - a receiver of pTokens, and a liquidator with an old index, are paid for the past of
  what they receive, the giver is not; debts that grow by interest are paid as if they had been
  larger all along.
* *boosted* - the cached value is not corrected when shares are bought or redeemed. With no answer
  within the hour, the total drops by the last deployment (4 deposited, 4 deposited, outage: 4 of
  8 are counted) or counts the last redemption twice. A quote of zero, which is what a total loss
  gives, is replaced by cache or books. Replacing a boosted vault leaves its shares behind.
* *rates* - the model admits a base rate and slopes of 1000 % a year each, and `update_interest`
  panics beyond 1000 % in all (`RV:1963`): with such parameters a well used market answers no call
  that accrues, repayments and deposits included, until the admin lowers them (`RateWithinLimit`).
* *margin* - as section 3 says, every MarginV2 call and every transfer between spot and margin
  enters the margin controller a second time and is refused. A debt read before the accrual lets a
  MarginV2 close leave a rest that nobody can repay (`MC:1228`); for a Legacy position the shares
  are priced on the older debt (`MC:653`) or the call panics (`MC:1377`). A MarginV2 liquidation
  leaves what is beyond debt and bonus with the controller, unclaimed (`MC:1171`). Debt shares are
  kept by asset and margin balances by vault, so remapping an asset detaches them. A position's
  own underwater test leaves the initial collateral out (`MC:976`).
* *re-entry* - `set_peridottroller` probes the new controller (`RV:1491`), and flash loans and
  margin calls hand control to other contracts (`RV:3074`); that a second entry is refused is the
  host's doing, not the code's, and is assumed in every module.

## 6. Proofs

All theorems hold for every value of the constants under the named assumptions of the modules
(`ScaleAssumption`, `ParameterAssumption`, `UsersAssumption`, `RegistryAssumption`, `TimelockAssumption`,
`RiskAssumption`, `MarketsAssumption`, `PricesAssumption`, `BoostedAssumption`, `MarginAssumption`,
`RewardsAssumption`), which only type the parameters and bound factors by the scale, as the setters do, make
users and markets finitely many where they are counted, and (`RegistryAssumption`) order the markets by
address; `PricesAssumption` keeps *unset* and *none* apart from times, reports and oracles. The runs
evaluate them too.

**Arithmetic.** Quotients are bounded by products (`DivNat`, `CancelFactor`, `ProductMonotone`), and
sums over finite sets are built up: `SumStep` takes one element off, `SumChange` says that a sum
moves by as much as its one summand that changed, `SumMonotone`, `SumPlus` and `SumTimes` compare
sums. They need induction over finite sets, which the library states with an operator parameter that
the provers cannot instantiate. `SetInduction` states it with a set `G` of subsets instead: if the
empty set is in `G`, and with a set also that set and one more element, then every finite set is in `G`.

**ReceiptVaultProofs.** `TypeCorrect` is by itself inductive. For the rest, each action is
first shown to be a *posting* (`NextPosting`): after an optional accrual the books change in
one of eight ways (kept, deposited, withdrawn, lent, repaid, flashed, reserves paid, fees
paid). The invariants are then proved of postings only.
* `CashBacked`: `ManagedCashBacked` is inductive over postings.
* `EmptyWithoutSupply`: `ZeroSupplyIsEmpty`, from the two zero-supply tests of withdraw; the
  quantity that works is cash against reserves and fees rather than the saturating total.
* `DeficitsComeFromFactors` and `RateMonotone` assume nothing of the factors but what the setters check.
  An accrual books as much to the two claims as the loans grow by, if the factors in force fit
  (`AccruedClaims`), and a posting after it moves cash and claims alike (`PostingDeficit`). In a pool with a
  deficit the saturating total is zero, and so is the rate, which `PostingRate` treats beside the case in which
  the total is the real one.
* `SupplyHeld`: `SupplyIsHeld`. The supply is the cardinality of the set of single pTokens
  (`Units`), which a credit extends by a disjoint block and a debit shrinks (`HeldMore`,
  `HeldLess`, from the library's facts on finite sets); a transfer is a debit and a credit, a
  seizure a debit and two credits, whoever coincides with whom. `SupplyInv` adds that the set
  is finite; the users need not be.
* `NobodyPushedShort`: `NoSelfInflictedShortfall`, for all factors. `NextStands` says of
  each step and user that pTokens do not leave and the debt does not grow, or the call has checked
  the position it leaves, or the user was short before. The check is made on the accrued books
  *before* the payment; `PostingCovers` carries it over the payment, since the rate never falls
  (`RateMonotone`'s lemmas), the pool keeps some value, and a market left without supply has no
  holders (`SupplyInv`) and a readable rate (`ZeroSupplyIsEmpty`).
* `DebtsStayCovered`: `DebtsCovered`. The sum of the *floored* debts is not inductive, since an
  accrual may raise each floor by more than its share of the interest. What is inductive is that the
  unrounded debts fit, `sum(principal * index / snapshot index) <= borrowed`, and it has to be said
  without fractions: for any common multiple `N` of the snapshots' indices (`Rated`), the debts as
  multiples of `1/N` (`SharesCovered`). An accrual keeps it because the index grows by a quotient
  rounded down (`AccruedCovers`); a loan or repayment writes a new snapshot at the present index whose
  debt is the old floored debt plus or minus exactly what `TotalBorrowed` moves by. The product of all
  snapshot indices is such an `N`, which needs an induction over the users of its own.
* `RateRisesWithUse` (monotone in what is lent, across the kink and through every floor),
  `SuppliersEarnWhatIsPaid` (the supply rate on the whole pool is at most the borrow rate on the
  loans) and `RateWithinLimit` (when base rate and the steeper slope together stay within the vault's
  limit, so does every rate) are about `JumpRateModel`. `ModelAnswersTheVault` combines the model with
  the postings: it answers a new vault, and begins to refuse (reserves and fees above cash and loans, upon
  which the vault takes the static rate) only in a step under factors above one. It speaks of a vault
  without boosted cash (`RV:1896`).

**MarketRegistryProofs.** `CountsExact` and `DebtsStayVisible` come from one inductive
invariant, `VisibilityInv`: counts match the entrants, entered markets are supported, debts
are in entered markets. None is inductive alone: delisting is safe because the count is
exact, the count stays meaningful because a debt keeps its owner from leaving. The counting
uses the library's facts on finite cardinality. `AllowlistExact` follows removal by removal: nothing that
settles the scan has another market with the token (`RemovalStep`);
`BoostedStayExclusive` follows from `OwnersKept` (the registry knows the owner of every vault
in use). `MigrationComplete` proves `MigrationMissesNone` step by step: a listing moves positions
only away from the cursor, a batch leaves nothing without expiry between the old cursor and the
new, and the last batch ends where the keys do, since a market's position is below their number.

**AccountRiskProofs.** `TypeCorrect`: no call repays more than is owed or takes more than is
held. `SeizuresArePaidFor`: `SeizedWithinIncentive`. Every step is shown to be an own step
(one market's pTokens or debt), a liquidation or an outside step (`StepKinds`). The
arithmetic is in two lemmas: `EntitlementWorth` (the four floors lose value, never gain it)
and `ScaledKeepsProportion` (rounding the scaled repayment up keeps what is seized within the
proportion; rounding it down would not, and TLC finds that case).
The others are about the totals over any number of markets, any of which may fail to be read.
`LiquidatableAreShort`: what is seen of a market is no more debt and no less collateral than there
is, unless its collateral is overlooked (`KnownWithin`), so a shortfall that is seen is real.
`BorrowPreviewSafe` and `RedeemPreviewNearlySafe` follow the conversions of the two previews and of the
checks they invert (`UsdOfTokens`, `RedeemLeaves`, `KeptBacks`), each of which cuts at most a unit. TLC
found the bound first stated for the redemption too small.
`OwnStepsKeepCovered` compares `Gap` before and after. Accruing some markets first does not change what
full accrual comes to (`RevisedInFull`), so a call changes one summand of each of the two sums
(`GapRevised`); where the gap grows the call has checked sums in which every other market's debt was
read or is none (`OthersSeen`), hence those of the position it leaves, but for the unit of `BorrowGap`.

**PricesProofs.** `TypeCorrect` is inductive. The rest follow from `PricesInv`, which adds three
facts about history: a cached report is no newer than the last one of its source (`CacheKept`), a
configured price is exactly as old as the admin's last word on it (`FallbackKept`), and the last
quote is not newer than the report or cache entry that would be quoted next from its source
(`QuoteKept`). Without `CacheKept` a larger multiplier could bring back a report older than one quoted in
between. `QuotesStayRecent`, `QuotesNeverGoBack` and `FallbackVouchedFor` are then proved of the three steps
that quote. The module also holds the proofs about the timelock, since the oracle of `Prices` is one of its
settings: it instantiates `Timelock` for any settings, under `LockAssumption`, which repeats what
`Timelock` assumes of them. `NoticeGiven` is the refinement: initial states map to initial
states, each action to `Announce`, `TakeEffect` or `Elapse`, or to a stutter.
`OracleChangesAnnounced` proves it of `Prices` as well: only `set_oracle` and time touch
the timelock's records, so every other call stutters.

**BoostedVaultProofs.** `BooksInv` is the type and that the books count no more cash than there
are tokens; it is inductive, one lemma per call, because every payout is covered by what
`ensure_liquid_cash` made available (`PaidOut`). `PromisesArePayable` proves `AvailableIsPayable`: the
shares given up are either all the market has, whose quote was promised, or
`ceil((needed + 1) * total / assets)` of them, whose payout rounds down to no less than `needed + 1`
(`SharesCover`). With the quotient rounded down it fails, as TLC shows.
`HoldersKeep` proves `HoldersKeepWorth`: a pToken's worth is split into the books (`Book`) and the
shares (`ShareValue`). Buying shares costs less than one share's price and a unit (`BuyLoss`),
redeeming at most a unit (`RedeemLoss`), both by cross-multiplied inequalities; a call that keeps the
pToken supply needs no more (`SameSupply`), and for `Deposit` and `Withdraw` the rate at which pTokens
are minted or paid, rounded down, still bounds the rate after (`RateAtLeast`). That the cached value is
not used while the boosted vault answers enters through `RateInSight`.

**RewardsProofs.** `RewardsInv` is the type and that no user's index is ahead of the market's
(`UsersBehind`): without it what is pending could be a debt. A step either pays a user up to the new
index (`PaidFor`) or leaves her rewards and her index alone (`Unpaid`), and one lemma per call says whom it
pays and for which holdings (`AccrueUsersPays`, `ClaimPays`). `EarningsKept` proves `EntitlementKept`:
paid or not, what a user is owed grows with her holding and with the index (`OwedGrows`), also after
it is rounded (`PaidWorth`, `UnpaidWorth`). `EmissionBounds` proves `EmissionBoundsClaims`: an index moves
by a quotient rounded down, so that times all holdings it is no more than what was emitted
(`DeltaEmits`), and after an accrual no emission is left over (`Indexes`); summed over the users,
what the index gives cannot exceed that (`IndexesBound`). Where no index moves, only the
passing of time adds anything (`IdleBound`, `TickBound`). That a speed set again starts its
time anew is what `SetSpeedIndexes` needs. `LiquidatorsStartNow` proves `NewLiquidatorsStartNow`.

**MarginControllerProofs.** `TypeCorrect` is inductive by itself, one lemma per call: a position's part of a
debt is at most the debt (`DebtForPart`), a seizure at most its cap (`SeizurePart`), the shares burned at
most the position's (`BurnedPart`). `SharesExact` proves `SharesMatch` by `SharesInv`, which adds to it the
type and that an id not given yet names no open position (`Unopened`): without that a new position could
replace shares that are counted. `ClosesPayTheirShare` and `SettledStay` rest on `OnlyItsOwnEnd` (a position
ends by an operation on itself) and on what that operation repays: a part rounded *up* leaves no more per
share (`ShareLeft`), and with no interest due what was last booked is the whole debt (`RepaidWhole`).
`LocksStay` proves `LocksKept`, and `CustodyExact` proves `OnlyLiquidationStrands`, both step by step from
`SharesInv`. A call changes one position, so a sum over positions moves by that position's lock or claim
(`LockPut`, `ClaimPut`), and the pTokens have to move by no less (`LockStep`: a new lock comes with its
pTokens, a close takes out at most what the position held, a spot call leaves what is locked, and none finds
a bypass, since each that is begun is consumed in the same call: `NoBypass` in `LocksInv`) or by exactly as
much (`SpareStep`: `Spare`, custody beyond all claims, stays, and rises where a liquidated MarginV2 position
held more than was seized). `TypeCorrect` bounds what is seized, and `Unopened` makes a new position replace
none that locks or claims.

Only model-checked: liveness (`PausesLapse`, `DelistedMarketsThaw`), which is out of the prover's
reach. Every other property of a passing run is proved.

## 7. Not modelled

The jump rate model's result is any rate in `ReceiptVault`. Smart
accounts, their factory and the swap adapter authorize or forward calls and share no state with
the markets; the swap appears in `MarginController` as what it may return. Mocks are test doubles.
Bot, dashboard and scripts are clients. Storage archival appears only where the code fails closed
on a missing record: a network with archived entries would need one more environment step per
record, and the protocol's answer is an admin's `recover_*` or migration call. Wide-integer overflow
is left out where the code uses saturating or checked operations and a checked one that fails is a
call that does not happen; the reward index, which goes on after an overflow, is modelled.
Administration without effect on the above (two-step admin, the margin controller's upgrade, the
setters without delay) is left out of the modules named in section 3.

## 8. Running

In this directory, with the TLA+ tools and community modules:

| Configuration | Module |
|---|---|
| `Vault.cfg`, `VaultFrozen.cfg` | `MCReceiptVault` |
| `Registry.cfg`, `RegistryPauses.cfg` | `MCMarketRegistry` |
| `Timelock.cfg` | `Timelock` |
| `Risk.cfg` | `MCAccountRisk` |
| `Prices.cfg` | `MCPrices` |
| `Rewards.cfg` | `MCRewards` |
| `Margin.cfg`, `MarginCustody.cfg`, `MarginClose.cfg` | `MCMarginController` |
| `Boosted.cfg` | `MCBoostedVault` |

    tlc -workers 2 -config Vault.cfg MCReceiptVault
    tlapm ReceiptVaultProofs.tla

and likewise for the other rows and proof modules. The runs of section 5 are meant to end in a
violation.
