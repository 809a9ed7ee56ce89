------------------------------ MODULE Rewards ------------------------------
(***************************************************************************)
(* Reward accounting of the peridottroller for one market: a supply and a  *)
(* borrow index that grow with time, a user's index of the last time she   *)
(* was paid, what she has accrued over all markets and what was minted to  *)
(* her (simple-peridottroller/src/contract.rs, accrue_market,              *)
(* distribute_supply, distribute_borrow, claim).                           *)
(*                                                                         *)
(* The vault tells the peridottroller of a user before it changes what she *)
(* holds, after it has moved pTokens, or not at all (liquidations): the    *)
(* hints of receipt-vault/src/contract.rs are the holdings of that moment. *)
(* Whether the account may do what it asks is AccountRisk's question.      *)
(***************************************************************************)
EXTENDS Integers, FiniteSets, Functions

CONSTANTS
    Users,
    Scale,          \* INDEX_SCALE_1E18
    MaxWord,        \* the largest u128
    MaxSupply       \* of the reward token

Sides == {"supply", "borrow"}
Unset == 0          \* no UserSupplyIndex is stored; an index is never 0

\* Bounds of the model, not of the code.
CONSTANTS
    MaxElapsed,     \* since an index was last moved
    MaxIndex, MaxHeld, MaxInterest, MaxEarned,
    MaxRewarded,    \* sides that have a speed, or an index that moved, at a time
    Speeds,         \* the admin may set
    Amounts         \* a call may name

ASSUME RewardsAssumption ==
    /\ IsFiniteSet(Users) /\ Users # {}
    /\ Scale \in Nat \ {0} /\ MaxWord \in Nat /\ MaxSupply \in Nat
    /\ MaxElapsed \in Nat /\ MaxIndex \in Nat /\ MaxHeld \in Nat
    /\ MaxInterest \in Nat /\ MaxEarned \in Nat /\ MaxRewarded \in 0..2
    /\ Speeds \subseteq Nat /\ Amounts \subseteq Nat \ {0}

VARIABLES
    token,      \* whether PeridotToken is set
    wired,      \* whether the vault has its peridottroller
    speed,      \* SupplySpeed, BorrowSpeed
    elapsed,    \* time since SupplyIndexTime, BorrowIndexTime
    index,      \* SupplyIndex, BorrowIndex
    userIndex,  \* UserSupplyIndex, UserBorrowIndex
    held,       \* pTokens and debt of each user
    accrued,    \* Accrued of each user
    minted      \* reward tokens of each user

setup == <<token, wired>>
market == <<speed, elapsed, index>>
paid == <<userIndex, accrued, minted>>
vars == <<setup, market, held, paid>>

TypeOK ==
    /\ token \in BOOLEAN /\ wired \in BOOLEAN
    /\ speed \in [Sides -> Nat]
    /\ elapsed \in [Sides -> Nat]
    /\ index \in [Sides -> Nat]
    /\ userIndex \in [Sides -> [Users -> Nat]]
    /\ held \in [Sides -> [Users -> Nat]]
    /\ accrued \in [Users -> Nat]
    /\ minted \in [Users -> Nat]

-----------------------------------------------------------------------------
(* accrue_market *)

Total(side) == SumFunction(held[side])

\* The emission since the index last moved, times the scale of the index.
Product(side, s, t) == (s * t) * Scale
Overflows(side) == Product(side, speed[side], elapsed[side]) > MaxWord

\* What accrue_market adds to an index: nothing while nobody holds anything, and
\* nothing, once, when the product overflows.
Delta(side, total) ==
    IF total = 0 \/ Overflows(side) THEN 0
    ELSE Product(side, speed[side], elapsed[side]) \div total

IndexAfter == [side \in Sides |-> index[side] + Delta(side, Total(side))]
SpeedAfter ==
    [side \in Sides |-> IF Total(side) > 0 /\ Overflows(side) THEN 0 ELSE speed[side]]
ElapsedAfter == [side \in Sides |-> IF speed[side] > 0 THEN 0 ELSE elapsed[side]]

AccrueMarket ==
    /\ index' = IndexAfter
    /\ speed' = SpeedAfter
    /\ elapsed' = ElapsedAfter

-----------------------------------------------------------------------------
(* distribute_supply and distribute_borrow *)

\* Mutant: a supplier without an index is paid from the first one on.
PaidFromTheStart(side, u, idx) ==
    IF userIndex[side][u] = Unset THEN Scale ELSE userIndex[side][u]

\* The index from which a user is paid. A supplier without one starts now; a
\* borrower without one starts with the market, and Init stores that.
PaidUpTo(side, u, idx) ==
    IF side = "supply" /\ userIndex[side][u] = Unset THEN idx ELSE userIndex[side][u]

Earned(side, u, n, idx) == (n * (idx - PaidUpTo(side, u, idx))) \div Scale

\* What accrue_user_market adds to the rewards of a user who holds hold.
Gain(u, hold, idx) ==
    Earned("supply", u, hold["supply"][u], idx["supply"])
        + Earned("borrow", u, hold["borrow"][u], idx["borrow"])

\* The users us are paid up to now for what they hold in hold.
Distribute(us, hold) ==
    /\ accrued' = [u \in Users |-> IF u \in us THEN accrued[u] + Gain(u, hold, IndexAfter)
                                   ELSE accrued[u]]
    /\ userIndex' = [side \in Sides |-> [u \in Users |->
                        IF u \in us THEN IndexAfter[side] ELSE userIndex[side][u]]]

\* accrue_user_rewards of a wired vault; accrue_user_market does nothing without
\* a reward token.
Rewarding == token /\ wired

AccrueUsers(us, hold) ==
    IF Rewarding THEN AccrueMarket /\ Distribute(us, hold)
    ELSE UNCHANGED <<market, userIndex, accrued>>

-----------------------------------------------------------------------------
(* The vault's entry points *)

WithinBounds ==     \* of the model
    /\ \A side \in Sides : index[side] <= MaxIndex
    /\ \A side \in Sides, u \in Users : held[side][u] <= MaxHeld
    /\ \A u \in Users : accrued[u] + minted[u] <= MaxEarned
    /\ Cardinality({side \in Sides : speed[side] > 0 \/ index[side] > Scale}) <= MaxRewarded

\* deposit (pTokens) and borrow (debt): the user is paid for what she held before.
Enlarge(side, u, n) ==
    /\ AccrueUsers({u}, held)
    /\ held' = [held EXCEPT ![side][u] = @ + n]
    /\ UNCHANGED <<setup, minted>>
    /\ WithinBounds'

\* Mutant: one may withdraw or repay what one does not hold.
AnyAmount(side, u, n) == n \in Amounts

\* The balance check of withdraw, the cap of repay.
MayLeave(side, u, n) == n <= held[side][u]

\* withdraw and repay.
Reduce(side, u, n) ==
    /\ MayLeave(side, u, n)
    /\ AccrueUsers({u}, held)
    /\ held' = [held EXCEPT ![side][u] = @ - n]
    /\ UNCHANGED <<setup, minted>>
    /\ WithinBounds'

Moved(from, to, n) ==
    [held EXCEPT !["supply"][from] = @ - n, !["supply"][to] = @ + n]

\* transfer and transfer_from: both are paid for what they hold afterwards.
Transfer(from, to, n) ==
    /\ from # to
    /\ MayLeave("supply", from, n)
    /\ held' = Moved(from, to, n)
    /\ AccrueUsers({from, to}, Moved(from, to, n))
    /\ UNCHANGED <<setup, minted>>
    /\ WithinBounds'

\* repay_on_behalf in the market of the debt, seize in that of the collateral:
\* nobody is paid.
Liquidate(borrower, liquidator, repaid, seized) ==
    /\ borrower # liquidator
    /\ repaid + seized > 0
    /\ MayLeave("borrow", borrower, repaid) /\ MayLeave("supply", borrower, seized)
    /\ held' = [Moved(borrower, liquidator, seized) EXCEPT !["borrow"][borrower] = @ - repaid]
    /\ UNCHANGED <<setup, market, paid>>
    /\ WithinBounds'

\* update_interest: every debt grows.
InterestAccrues(n) ==
    /\ \E u \in Users : held["borrow"][u] > 0
    /\ held' = [held EXCEPT !["borrow"] =
                    [u \in Users |-> IF @[u] = 0 THEN 0 ELSE @[u] + n]]
    /\ UNCHANGED <<setup, market, paid>>
    /\ WithinBounds'

-----------------------------------------------------------------------------
(* The peridottroller's entry points *)

\* accrue_user_market without hints, by anyone.
AccrueUserMarket(u) ==
    /\ token
    /\ AccrueMarket /\ Distribute({u}, held)
    /\ UNCHANGED <<setup, held, minted>>
    /\ WithinBounds'

\* Mutant: what could not be minted is forgotten.
MintForgets(u, amount, room) ==
    /\ minted' = IF amount <= room THEN [minted EXCEPT ![u] = @ + amount] ELSE minted
    /\ accrued' = [accrued EXCEPT ![u] = 0]

\* The mint of claim: it may fail, and what was accrued stays.
Mint(u, amount, room) ==
    IF token /\ amount <= room
    THEN /\ minted' = [minted EXCEPT ![u] = @ + amount]
         /\ accrued' = [accrued EXCEPT ![u] = 0]
    ELSE /\ accrued' = [accrued EXCEPT ![u] = amount]
         /\ UNCHANGED minted

Room == MaxSupply - SumFunction(minted)

\* What claim_market_best_effort gets of the market: nothing at all (or the user
\* has not entered it), its totals only, or all it asks for.
Answers == {"none", "totals", "all"}

\* The user's holdings are asked for when the index is not hers.
Known(side, u) == IF userIndex[side][u] = Unset THEN Scale ELSE userIndex[side][u]

\* claim, claim_self and claim_all.
Claim(u, answer) ==
    /\ answer = "totals" => \E side \in Sides : IndexAfter[side] # Known(side, u)
    /\ IF answer = "none" THEN UNCHANGED market ELSE AccrueMarket
    /\ userIndex' = [side \in Sides |-> [v \in Users |->
                        IF answer = "all" /\ v = u THEN IndexAfter[side] ELSE userIndex[side][v]]]
    /\ Mint(u, accrued[u] + (IF answer = "all" THEN Gain(u, held, IndexAfter) ELSE 0), Room)
    /\ UNCHANGED <<setup, held>>
    /\ WithinBounds'

\* Mutant: the time is not anchored when emission starts again.
AccruedOnly(side, s) == ElapsedAfter

\* The time of the index after set_supply_speed or set_borrow_speed.
Anchored(side, s) ==
    [ElapsedAfter EXCEPT ![side] = IF s > 0 /\ speed[side] = 0 THEN 0 ELSE @]

\* set_supply_speed and set_borrow_speed: both indexes accrue first.
SetSpeed(side, s) ==
    /\ index' = IndexAfter
    /\ elapsed' = Anchored(side, s)
    /\ speed' = [SpeedAfter EXCEPT ![side] = s]
    /\ UNCHANGED <<setup, held, paid>>
    /\ WithinBounds'

SetPeridotToken ==
    /\ ~token
    /\ token' = TRUE
    /\ UNCHANGED <<wired, market, held, paid>>

\* It accrues once without hints: the market, which is on the stack, cannot be asked
\* for its totals, so nothing may be left to accrue.
SetPeridottroller ==
    /\ ~wired
    /\ token => \A side \in Sides : speed[side] = 0 \/ elapsed[side] = 0
    /\ wired' = TRUE
    /\ UNCHANGED <<token, market, held, paid>>

Tick ==
    /\ \A side \in Sides : speed[side] > 0 => elapsed[side] < MaxElapsed
    /\ elapsed' = [side \in Sides |-> IF elapsed[side] < MaxElapsed THEN elapsed[side] + 1
                                      ELSE elapsed[side]]
    /\ UNCHANGED <<setup, speed, index, held, paid>>

Init ==
    /\ token \in BOOLEAN /\ wired \in BOOLEAN
    /\ speed = [side \in Sides |-> 0]
    /\ elapsed = [side \in Sides |-> 0]
    /\ index = [side \in Sides |-> Scale]
    /\ userIndex = [side \in Sides |-> [u \in Users |->
                        IF side = "supply" THEN Unset ELSE Scale]]
    /\ held = [side \in Sides |-> [u \in Users |-> 0]]
    /\ accrued = [u \in Users |-> 0]
    /\ minted = [u \in Users |-> 0]

Next ==
    \/ \E side \in Sides, u \in Users, n \in Amounts : Enlarge(side, u, n) \/ Reduce(side, u, n)
    \/ \E u, v \in Users, n \in Amounts : Transfer(u, v, n)
    \/ \E u, v \in Users, n, k \in {0} \cup Amounts : Liquidate(u, v, n, k)
    \/ \E n \in 1..MaxInterest : InterestAccrues(n)
    \/ \E u \in Users : AccrueUserMarket(u) \/ \E answer \in Answers : Claim(u, answer)
    \/ \E side \in Sides, s \in Speeds : SetSpeed(side, s)
    \/ SetPeridotToken \/ SetPeridottroller \/ Tick

Spec == Init /\ [][Next]_vars

-----------------------------------------------------------------------------
(* Properties *)

\* What a user would be paid, were she distributed to now.
Pending(side, u) == held[side][u] * (index[side] - PaidUpTo(side, u, index[side]))
Entitlement(u) ==
    (minted[u] + accrued[u])
        + (Pending("supply", u) \div Scale) + (Pending("borrow", u) \div Scale)

\* Emission that no index has been moved by yet.
Unindexed ==
    Product("supply", speed["supply"], elapsed["supply"])
        + Product("borrow", speed["borrow"], elapsed["borrow"])

\* What a user was paid and could claim, before it is rounded, times the scale.
Worth(u) == (minted[u] + accrued[u]) * Scale + Pending("supply", u) + Pending("borrow", u)
Outstanding == Unindexed + SumFunction([u \in Users |-> Worth(u)])

\* What the market emits in one unit of time.
Emission == Product("supply", speed["supply"], 1) + Product("borrow", speed["borrow"], 1)

\* The holdings of a user change, and she is not paid for those she had before.
Unannounced ==
    \/ \E u, v \in Users, n \in Amounts : Transfer(u, v, n)
    \/ \E u, v \in Users, n, k \in {0} \cup Amounts : Liquidate(u, v, n, k)
    \/ \E n \in 1..MaxInterest : InterestAccrues(n)
    \/ held' # held /\ ~Rewarding

\* Rewards come from time alone: as long as holdings change only in calls that
\* pay for the old ones first, all that users have been paid and could claim grows
\* by no more than the emission of the time that passes, however accruals, claims,
\* failed mints, and changes of the speeds follow one another.
EmissionBoundsClaims ==
    [][\/ Unannounced
       \/ Outstanding' <= Outstanding + (IF Tick THEN Emission ELSE 0)]_vars

\* u gives pTokens away, is liquidated, or changes her holdings while the vault or
\* the peridottroller does not keep rewards.
GivesUp(u) ==
    \/ \E v \in Users, n \in Amounts : Transfer(u, v, n)
    \/ \E v \in Users, n, k \in {0} \cup Amounts : Liquidate(u, v, n, k)
    \/ ~Rewarding /\ \E side \in Sides, n \in Amounts : Reduce(side, u, n)

\* What a user has earned is never lost: not in a claim whose mint or whose reads
\* fail, not in her own later calls, and not by what others do.
EntitlementKept == [][\A u \in Users : GivesUp(u) \/ Entitlement(u)' >= Entitlement(u)]_vars

\* pTokens seized by a liquidator who had never been paid supply rewards here earn
\* him nothing for the time before, then or in any later claim (the intent of
\* test_liquidator_does_not_receive_retroactive_supply_rewards_after_seize; one who
\* has an older index is paid back to it).
NewLiquidatorsStartNow ==
    [][\A u, v \in Users, n, k \in {0} \cup Amounts :
        Liquidate(u, v, n, k) /\ userIndex["supply"][v] = Unset
            => Entitlement(v)' <= Entitlement(v)]_vars

=============================================================================
