-------------------------- MODULE MarketRegistry --------------------------
(***************************************************************************)
(* The peridottroller's registry of markets, as                            *)
(* simple-peridottroller/src/contract.rs keeps it: which markets and       *)
(* tokens are supported, which markets each user has entered and how many  *)
(* users each market counts, the four pauses of a market, the zero-totals  *)
(* proof that allows a market to be delisted, and which market owns which  *)
(* boosted vault.  The receipt vaults appear by what the registry reads of *)
(* them and what they ask of it: who holds pTokens, who owes a debt.       *)
(*                                                                         *)
(* The vaults are wired to the peridottroller.  Amounts are left out: the  *)
(* registry only tells zero from more than zero.  Time is kept as what is  *)
(* left of a pause or of a proof, so an expired entry and an absent one    *)
(* (is_pause_active removes the former) are both 0.  A contract upgraded   *)
(* from code without expiries may hold pauses that have none, until they   *)
(* are migrated, batch by batch, and markets whose token it never cached.  *)
(***************************************************************************)
EXTENDS Integers, FiniteSets

CONSTANTS
    Markets,        \* receipt vaults that may become markets
    Users,
    Tokens,
    TokenOf,        \* get_underlying_token of each market
    BoostedVaults,  \* vaults a market may lend its idle cash to
    None,           \* no boosted vault, no owner
    MaxUserMarkets, \* MAX_USER_MARKETS
    PauseDuration,  \* MAX_PAUSE_DURATION_SECS
    ProofAge,       \* FORCE_REMOVE_ZERO_TOTALS_MAX_AGE_SECS
    Rank,           \* of each market's address, which orders the keys of SupportedMarkets
    Upgraded,       \* whether the contract may hold pauses from before there were expiries
                    \* and markets from before their tokens were cached
    UsedPauses,     \* bound of the model: the pauses anyone uses
    Limits          \* bound of the model: batches of the migration

PauseKinds == {"borrow", "redeem", "liquidation", "deposit"}
Endless == -1       \* what is left of a pause without an expiry
PauseTimes == {Endless} \cup 0..(PauseDuration + 1)

ASSUME RegistryAssumption ==
    /\ IsFiniteSet(Users) /\ IsFiniteSet(Markets)
    /\ TokenOf \in [Markets -> Tokens]
    /\ None \notin Markets /\ None \notin BoostedVaults
    /\ MaxUserMarkets \in Nat
    /\ PauseDuration \in Nat /\ ProofAge \in Nat
    /\ Rank \in [Markets -> Nat] /\ \A m, n \in Markets : Rank[m] = Rank[n] => m = n
    /\ Upgraded \in BOOLEAN
    /\ UsedPauses \subseteq PauseKinds /\ Limits \subseteq Nat \ {0}

VARIABLES
    supported,  \* SupportedMarkets
    tokens,     \* SupportedToken
    underlying, \* the markets that have a MarketUnderlying
    entered,    \* UserMarkets
    counts,     \* MarketUserCounts
    pause,      \* what is left of each pause, 0 when it is off or has expired
    migration,  \* PauseExpiryMigrationCursor, PauseExpiryMigrationDone
    proof,      \* what is left of MarketZeroTotalsVerifiedAt
    owner,      \* BoostedVaultOwner
    boosted,    \* each vault's own BoostedVault
    holders,    \* users with pTokens, in each vault
    debtors     \* users with a borrow balance, in each vault

registry == <<supported, tokens, underlying, entered, counts, proof>>
pausing == <<pause, migration>>
boosting == <<owner, boosted>>
positions == <<holders, debtors>>
vars == <<registry, pausing, boosting, positions>>

TypeOK ==
    /\ supported \subseteq Markets
    /\ tokens \subseteq Tokens
    /\ underlying \subseteq supported
    /\ entered \in [Users -> SUBSET Markets]
    /\ counts \in [Markets -> Nat]
    /\ pause \in [PauseKinds -> [Markets -> PauseTimes]]
    /\ migration \in [cursor : Nat, done : BOOLEAN]
    /\ proof \in [Markets -> 0..(ProofAge + 1)]
    /\ owner \in [BoostedVaults -> Markets \cup {None}]
    /\ boosted \in [Markets -> BoostedVaults \cup {None}]
    /\ holders \in [Markets -> SUBSET Users]
    /\ debtors \in [Markets -> SUBSET Users]

-----------------------------------------------------------------------------
(* What the handlers read *)

\* A pause is active up to and including its expiry, and without one for good.
Paused(kind, m) == pause[kind][m] # 0

OpeningsPaused(m) == Paused("borrow", m) /\ Paused("deposit", m)

\* The positions in the markets the user has entered, all that account
\* liquidity looks at.
CountedCollateral(u, held) == \E m \in entered[u] \cap supported : u \in held[m]
CountedDebt(u) == \E m \in entered[u] \cap supported : u \in debtors[m]

\* The health check in terms of zero and more than zero: a debt, in vault m
\* or in a market that counts, needs collateral in vault m or in a market that counts.
Healthy(u, m, held) ==
    (u \in debtors[m] \/ CountedDebt(u)) => (u \in held[m] \/ CountedCollateral(u, held))

-----------------------------------------------------------------------------
(* Markets and entrants *)

AddMarket(m) ==
    /\ supported' = supported \cup {m}
    /\ tokens' = tokens \cup {TokenOf[m]}
    /\ underlying' = underlying \cup {m}
    /\ proof' = [proof EXCEPT ![m] = 0]
    /\ UNCHANGED <<entered, counts, pausing, boosting, positions>>

VerifyMarketZeroTotals(m) ==
    /\ m \in supported
    /\ OpeningsPaused(m)
    /\ holders[m] = {} /\ debtors[m] = {}
    /\ proof' = [proof EXCEPT ![m] = ProofAge + 1]
    /\ UNCHANGED <<supported, tokens, underlying, entered, counts, pausing, boosting, positions>>

\* A bug in entering: the entrant is counted again on every call.
EnterMarketTwice(u, m) ==
    /\ m \in supported
    /\ Cardinality(entered[u]) < MaxUserMarkets
    /\ entered' = [entered EXCEPT ![u] = @ \cup {m}]
    /\ counts' = [counts EXCEPT ![m] = @ + 1]
    /\ UNCHANGED <<supported, tokens, underlying, proof, pausing, boosting, positions>>

\* Entering a market again changes nothing.
EnterMarket(u, m) ==
    /\ m \in supported
    /\ m \notin entered[u]
    /\ Cardinality(entered[u]) < MaxUserMarkets
    /\ entered' = [entered EXCEPT ![u] = @ \cup {m}]
    /\ counts' = [counts EXCEPT ![m] = @ + 1]
    /\ UNCHANGED <<supported, tokens, underlying, proof, pausing, boosting, positions>>

\* A bug in leaving: the debt is not looked at.
ExitMarketIndebted(u, m) ==
    /\ m \in entered[u]
    /\ m \in supported
    /\ u \notin holders[m]
    /\ entered' = [entered EXCEPT ![u] = @ \ {m}]
    /\ counts' = [counts EXCEPT ![m] = IF @ <= 1 THEN 0 ELSE @ - 1]
    /\ UNCHANGED <<supported, tokens, underlying, proof, pausing, boosting, positions>>

\* A user leaves a market once no pTokens and no debt are left in it.
ExitMarket(u, m) ==
    /\ m \in entered[u]
    /\ m \in supported
    /\ u \notin holders[m] /\ u \notin debtors[m]
    /\ entered' = [entered EXCEPT ![u] = @ \ {m}]
    /\ counts' = [counts EXCEPT ![m] = IF @ <= 1 THEN 0 ELSE @ - 1]
    /\ UNCHANGED <<supported, tokens, underlying, proof, pausing, boosting, positions>>

\* The other markets that end the scan of a removal: one with the same token, or one
\* whose token is not cached and that does not answer.
Settling(m, answers) ==
    {n \in supported \ {m} : n \notin underlying \cup answers \/ TokenOf[n] = TokenOf[m]}

\* A bug in delisting: a market that does not answer is passed over.
TokensWithoutUnknown(m, answers) ==
    IF \E n \in (supported \ {m}) \cap (underlying \cup answers) : TokenOf[n] = TokenOf[m]
    THEN tokens \cup {TokenOf[m]}
    ELSE tokens \ {TokenOf[m]}

\* The token stays allowed as long as another market has it, or may have it.
TokensWithout(m, answers) ==
    IF Settling(m, answers) # {}
    THEN tokens \cup {TokenOf[m]}
    ELSE tokens \ {TokenOf[m]}

\* The scan goes by the addresses, to the first market that ends it, and caches what
\* it has been told.
Cached(m, answers) ==
    {n \in answers : n # m /\ \A k \in Settling(m, answers) : Rank[n] <= Rank[k]}

ApplyMarketRemoval(m, answers) ==
    /\ supported' = supported \ {m}
    /\ tokens' = TokensWithout(m, answers)
    /\ underlying' = (underlying \ {m}) \cup Cached(m, answers)
    /\ proof' = [proof EXCEPT ![m] = 0]

\* What both removals rest on: the count, the proof, and the cached token.
Delist(m, answers) ==
    /\ m \in supported
    /\ counts[m] = 0
    /\ OpeningsPaused(m)
    /\ proof[m] > 0
    /\ m \in underlying
    /\ ApplyMarketRemoval(m, answers)
    /\ UNCHANGED <<entered, counts, pausing, boosting, positions>>

\* remove_market asks other markets for their tokens, where none is cached; those of
\* answers tell it.
RemoveMarket(m) == \E answers \in SUBSET supported : Delist(m, answers)

\* force_remove_market asks no market, but its caller, for the token.
ForceRemoveMarket(m, token) == token = TokenOf[m] /\ Delist(m, {})

-----------------------------------------------------------------------------
(* Pauses *)

\* The pauses after one of them is set or lifted in market m.  A pause of
\* liquidations also starts a pause of borrowing; lifting it lifts only itself.
PausesAfter(kind, m, paused) ==
    [k \in PauseKinds |->
        IF k = kind \/ (kind = "liquidation" /\ paused /\ k = "borrow")
        THEN [pause[k] EXCEPT ![m] = IF paused THEN PauseDuration + 1 ELSE 0]
        ELSE pause[k]]

\* A bug in the setter: it takes any address for a market.
SetPauseAnywhere(kind, m, paused) ==
    /\ pause' = PausesAfter(kind, m, paused)
    /\ UNCHANGED <<registry, migration, boosting, positions>>

SetPause(kind, m, paused) ==
    /\ m \in supported
    /\ pause' = PausesAfter(kind, m, paused)
    /\ UNCHANGED <<registry, migration, boosting, positions>>

\* The guardian can pause, and only pause.
GuardianPause(kind, m) ==
    /\ m \in supported
    /\ pause' = PausesAfter(kind, m, TRUE)
    /\ UNCHANGED <<registry, migration, boosting, positions>>

\* A bug in the expiry: it does not count while liquidations are paused.
AgedUnlessFrozen(left, m) ==
    IF left > 0 /\ pause["liquidation"][m] = 0 THEN left - 1 ELSE left

\* A bug in the expiry: it wraps around once the time is past.
AgedPastZero(left, m) == left - 1

\* What is left of a pause or a proof of market m one unit of time later.
Aged(left, m) == IF left > 0 THEN left - 1 ELSE left

Tick ==
    /\ pause' = [k \in PauseKinds |-> [m \in Markets |-> Aged(pause[k][m], m)]]
    /\ proof' = [m \in Markets |-> Aged(proof[m], m)]
    /\ UNCHANGED <<supported, tokens, underlying, entered, counts, migration, boosting, positions>>

\* Where a market stands among the keys of SupportedMarkets.
Position(m) == Cardinality({n \in supported : Rank[n] < Rank[m]})

\* A bug in the migration: the last market of a batch is left out.
InBatchButLast(m, start, next) == start <= Position(m) /\ Position(m) < next - 1

\* backfill_missing_pause_expiries_batch takes the keys from start to next.
InBatch(m, start, next) == start <= Position(m) /\ Position(m) < next

\* migrate_legacy_pause_expiries goes on where it stopped, over the markets that are
\* supported then, until it has passed the last one; once done, it does nothing.
MigrateLegacyPauses(limit) ==
    LET start == migration.cursor
        total == Cardinality(supported)
        next  == IF start >= total THEN total
                 ELSE IF start + limit <= total THEN start + limit ELSE total
    IN /\ ~migration.done
       /\ migration' = [cursor |-> next, done |-> next >= total]
       /\ pause' = [k \in PauseKinds |-> [m \in Markets |->
                        IF m \in supported /\ InBatch(m, start, next) /\ pause[k][m] = Endless
                        THEN PauseDuration + 1 ELSE pause[k][m]]]
       /\ UNCHANGED <<registry, boosting, positions>>

-----------------------------------------------------------------------------
(* Boosted vaults *)

\* A bug in binding: the new vault's owner is not looked at.
BindableUnchecked(m, old, new) == old # None => owner[old] \in {m, None}

\* Neither the vault a market gives up nor the one it takes may be another's.
Bindable(m, old, new) ==
    /\ old # None => owner[old] \in {m, None}
    /\ owner[new] \in {m, None}

\* The vault's set_boosted_vault: bind_boosted_vault, then its own record.
SetBoostedVault(m, new) ==
    /\ m \in supported
    /\ Bindable(m, boosted[m], new)
    /\ owner' = [v \in BoostedVaults |->
                    CASE v = new -> m
                      [] v # new /\ v = boosted[m] -> None
                      [] OTHER -> owner[v]]
    /\ boosted' = [boosted EXCEPT ![m] = new]
    /\ UNCHANGED <<registry, pausing, positions>>

-----------------------------------------------------------------------------
(* Positions in the vaults *)

\* A deposit asks for the pause, not for an entry nor for a supported market.
Deposit(u, m) ==
    /\ ~Paused("deposit", m)
    /\ holders' = [holders EXCEPT ![m] = @ \cup {u}]
    /\ UNCHANGED <<registry, pausing, boosting, debtors>>

\* The last pTokens of a user: less than all of them changes nothing here.
WithdrawAll(u, m) ==
    /\ u \in holders[m]
    /\ ~Paused("redeem", m)
    /\ holders' = [holders EXCEPT ![m] = @ \ {u}]
    /\ Healthy(u, m, holders')
    /\ UNCHANGED <<registry, pausing, boosting, debtors>>

\* Of all pTokens or of a part of them.  To oneself it changes nothing here.
Transfer(from, to, m, all) ==
    /\ from # to
    /\ from \in holders[m]
    /\ ~Paused("redeem", m)
    /\ holders' = [holders EXCEPT ![m] = (IF all THEN @ \ {from} ELSE @) \cup {to}]
    /\ Healthy(from, m, holders')
    /\ UNCHANGED <<registry, pausing, boosting, debtors>>

\* A bug in the health check of a borrow: the market need not be entered.
BorrowAllowedOutside(u, m) == u \in holders[m] \/ CountedCollateral(u, holders)

\* hypothetical_liquidity_with_hint: the calling market must be entered; it
\* is not looked up among the supported ones.
BorrowAllowed(u, m) == m \in entered[u] /\ (u \in holders[m] \/ CountedCollateral(u, holders))

\* Somebody must have supplied what is borrowed.
Borrow(u, m) ==
    /\ ~Paused("borrow", m)
    /\ BorrowAllowed(u, m)
    /\ holders[m] # {}
    /\ debtors' = [debtors EXCEPT ![m] = @ \cup {u}]
    /\ UNCHANGED <<registry, pausing, boosting, holders>>

\* The rest of a debt: a part of it changes nothing here.
RepayAll(u, m) ==
    /\ u \in debtors[m]
    /\ debtors' = [debtors EXCEPT ![m] = @ \ {u}]
    /\ UNCHANGED <<registry, pausing, boosting, holders>>

\* Prices may have moved against the borrower: whether there is a shortfall is open.
\* The close factor leaves a part of the debt.  The liquidator, and the
\* reserve recipient where there is a fee, get pTokens of a market they need not
\* have entered.
Liquidate(borrower, liquidator, recipient, repayMarket, collateralMarket, all) ==
    /\ {repayMarket, collateralMarket} \subseteq supported
    /\ repayMarket # collateralMarket
    /\ ~Paused("liquidation", repayMarket) /\ ~Paused("liquidation", collateralMarket)
    /\ collateralMarket \in entered[borrower]
    /\ borrower \in debtors[repayMarket] \cap holders[collateralMarket]
    /\ CountedDebt(borrower)
    /\ holders' = [holders EXCEPT ![collateralMarket] =
                      (IF all THEN @ \ {borrower} ELSE @) \cup {liquidator, recipient}]
    /\ UNCHANGED <<registry, pausing, boosting, debtors>>

-----------------------------------------------------------------------------
(* The system *)

\* A contract upgraded from earlier code has markets and may have pauses of any of them,
\* delisted ones included.
Init ==
    /\ supported \in IF Upgraded THEN SUBSET Markets ELSE {{}}
    /\ tokens = {TokenOf[m] : m \in supported}
    /\ underlying \in SUBSET supported
    /\ pause \in [PauseKinds -> [Markets -> {0, Endless}]]
    /\ \A k \in PauseKinds, m \in Markets :
           pause[k][m] # 0 => Upgraded /\ k \in UsedPauses
    /\ migration = [cursor |-> 0, done |-> FALSE]
    /\ entered = [u \in Users |-> {}]
    /\ counts = [m \in Markets |-> 0]
    /\ proof = [m \in Markets |-> 0]
    /\ owner = [v \in BoostedVaults |-> None]
    /\ boosted = [m \in Markets |-> None]
    /\ holders = [m \in Markets |-> {}]
    /\ debtors = [m \in Markets |-> {}]

Admin(m) ==
    \/ AddMarket(m) \/ VerifyMarketZeroTotals(m) \/ RemoveMarket(m)
    \/ \E token \in Tokens : ForceRemoveMarket(m, token)
    \/ \E kind \in UsedPauses, paused \in BOOLEAN : SetPause(kind, m, paused)
    \/ \E kind \in UsedPauses : GuardianPause(kind, m)
    \/ \E new \in BoostedVaults : SetBoostedVault(m, new)

User(u, m) ==
    \/ EnterMarket(u, m) \/ ExitMarket(u, m)
    \/ Deposit(u, m) \/ WithdrawAll(u, m) \/ Borrow(u, m) \/ RepayAll(u, m)
    \/ \E to \in Users, all \in BOOLEAN : Transfer(u, to, m, all)
    \/ \E liquidator, recipient \in Users, collateralMarket \in Markets, all \in BOOLEAN :
           Liquidate(u, liquidator, recipient, m, collateralMarket, all)

Next ==
    \/ Tick
    \/ \E m \in Markets : Admin(m)
    \/ \E limit \in Limits : MigrateLegacyPauses(limit)
    \/ \E u \in Users, m \in Markets : User(u, m)

Spec == Init /\ [][Next]_vars

\* Time passes whatever anyone does.
FairSpec == Spec /\ WF_vars(Tick)

-----------------------------------------------------------------------------
(* Properties *)

\* MarketUserCounts, which is all that a delisting looks at, is the number of
\* users whose list has the market, through every entering, leaving, delisting
\* and listing again (ensure_user_market_entered, exit_market).
CountsMatchEntrants ==
    \A m \in Markets : counts[m] = Cardinality({u \in Users : m \in entered[u]})

\* No market leaves the registry while it is in a user's list: the loops over
\* entered markets skip unsupported ones, which would make a debt invisible.
EnteredAreSupported == \A u \in Users : entered[u] \subseteq supported

\* Every debt is one that account liquidity and liquidation see: its market is
\* entered by its borrower and supported (borrow, exit_market, remove_market).
DebtsAreVisible ==
    \A m \in Markets : \A u \in debtors[m] : m \in entered[u] /\ m \in supported

Listed == {TokenOf[m] : m \in supported}

\* The token of every listed market is allowed, whichever market that shares it leaves;
\* and a token outlives its last market only where the token of a market that is still
\* listed is unknown, and stays so (add_market, apply_market_removal).
AllowlistMatchesMarkets ==
    /\ [](Listed \subseteq tokens)
    /\ [][\A t \in tokens' \ Listed' :
            t \in tokens \ Listed \/ ~(supported' \subseteq underlying')]_vars

\* A boosted vault serves one market: the vaults' own records never name the
\* same one, delisted markets included (bind_boosted_vault, set_boosted_vault).
BoostedVaultsExclusive ==
    \A m1, m2 \in Markets : boosted[m1] = boosted[m2] => m1 = m2 \/ boosted[m1] = None

\* The registry knows the owner of every boosted vault in use.
OwnersAreKnown == \A m \in Markets : boosted[m] # None => owner[boosted[m]] = m

\* A pause ends by itself: it is off again and again, or set again and again, unless it
\* is from before the upgrade and never migrated (MAX_PAUSE_DURATION_SECS, is_pause_active).
PausesLapse ==
    \A kind \in PauseKinds, m \in Markets :
        \/ []<>~Paused(kind, m)
        \/ []<><<pause'[kind][m] > pause[kind][m]>>_vars
        \/ <>[](pause[kind][m] = Endless)

\* Nobody can keep a delisted market closed: its last suppliers can redeem once
\* the pauses of its last day have run out (set_pause_state needs a listing), unless it
\* was delisted with a pause from before the upgrade, which the migration passes over.
DelistedMarketsThaw ==
    \A m \in Markets :
        m \notin supported ~>
            ~Paused("redeem", m) \/ m \in supported \/ pause["redeem"][m] = Endless

\* A supported market that has a pause without an expiry.
Frozen(m) == m \in supported /\ \E k \in PauseKinds : pause[k][m] = Endless

\* The migration has passed where this market stands.
Passed(m) == migration.done \/ Position(m) < migration.cursor

\* A step leaves no market frozen behind the migration that was not so before.
NoneSlips(m) ==
    Frozen(m)' /\ Passed(m)' =>
        \/ Frozen(m) /\ Passed(m)
        \/ AddMarket(m) /\ ~Frozen(m)
        \/ ~migration.done /\ \E n \in Markets : RemoveMarket(n)

\* The migration misses no market, however its batches are cut and though the keys it
\* counts by move when markets are listed: only a market delisted while it runs, which
\* makes the next one slip past the cursor, or one listed again with its old pauses
\* leaves a market behind it frozen (migrate_legacy_pause_expiries).
MigrationMissesNone == [][\A m \in Markets : NoneSlips(m)]_vars

=============================================================================
