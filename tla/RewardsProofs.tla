--------------------------- MODULE RewardsProofs ---------------------------
(***************************************************************************)
(* Proofs about the rewards of a market, for any number of users, any      *)
(* speeds, scale, width of words and supply of the reward token: types,    *)
(* that rewards come from emission alone, that what was earned is not      *)
(* lost, and what a new liquidator is owed.                                *)
(***************************************************************************)
EXTENDS Rewards, Arithmetic

-----------------------------------------------------------------------------
(* What a user is owed *)

\* A user's index is never ahead of the market's: what she holds since then is worth
\* something, not a debt.
UsersBehind == \A side \in Sides, u \in Users : userIndex[side][u] <= index[side]

RewardsInv == TypeOK /\ UsersBehind

LEMMA TotalNat ==
    ASSUME TypeOK, NEW side \in Sides
    PROVE  Total(side) \in Nat
<1>1. DOMAIN held[side] = Users /\ \A u \in Users : held[side][u] \in Nat
  BY DEF TypeOK
<1>2. Total(side) = SumFunctionOnSet(held[side], Users)
  BY <1>1 DEF Total, SumFunction
<1> QED BY <1>1, <1>2, RewardsAssumption, SumNat

LEMMA ProductIsNat ==
    ASSUME NEW side, NEW s \in Nat, NEW t \in Nat
    PROVE  Product(side, s, t) \in Nat
<1>1. s * t \in Nat
  BY ProductNat
<1> QED BY <1>1, RewardsAssumption, ProductNat DEF Product

\* An index moves by no more than what was emitted for each unit held.
LEMMA DeltaEmits ==
    ASSUME TypeOK, NEW side \in Sides
    PROVE  /\ Delta(side, Total(side)) \in Nat
           /\ Total(side) \in Nat
           /\ Product(side, speed[side], elapsed[side]) \in Nat
           /\ Delta(side, Total(side)) * Total(side) <= Product(side, speed[side], elapsed[side])
<1> DEFINE t == Total(side)
           p == Product(side, speed[side], elapsed[side])
           x == Delta(side, t)
<1>1. t \in Nat /\ p \in Nat
  BY TotalNat, ProductIsNat DEF TypeOK
<1>2. CASE t = 0 \/ Overflows(side)
  <2>1. x = 0
    BY <1>2 DEF Delta
  <2> HIDE DEF x, t, p
  <2>2. x \in Nat /\ x * t <= p
    BY <1>1, <2>1
  <2> QED BY <1>1, <2>2 DEF x, t, p
<1>3. CASE ~(t = 0 \/ Overflows(side))
  <2>1. x = p \div t
    BY <1>3 DEF Delta
  <2> HIDE DEF x, t, p
  <2>2. x \in Nat /\ x * t <= p
    BY <1>1, <1>3, <2>1, DivNat
  <2> QED BY <1>1, <2>2 DEF x, t, p
<1> QED BY <1>2, <1>3

LEMMA IndexGrows ==
    ASSUME TypeOK
    PROVE  /\ IndexAfter \in [Sides -> Nat]
           /\ \A side \in Sides : IndexAfter[side] = index[side] + Delta(side, Total(side))
           /\ \A side \in Sides : Delta(side, Total(side)) \in Nat /\ index[side] \in Nat
<1>1. \A side \in Sides : Delta(side, Total(side)) \in Nat /\ index[side] \in Nat
  BY DeltaEmits DEF TypeOK
<1> QED BY <1>1 DEF IndexAfter

\* The user's own index, or the present one: no later than the present one.
LEMMA PaidUpToNat ==
    ASSUME RewardsInv, NEW side \in Sides, NEW u \in Users,
           NEW idx \in Nat, index[side] <= idx
    PROVE  PaidUpTo(side, u, idx) \in Nat /\ PaidUpTo(side, u, idx) <= idx
  BY DEF RewardsInv, TypeOK, UsersBehind, PaidUpTo

\* What n units are owed when the index is idx, times the scale.
Owed(side, u, n, idx) == n * (idx - PaidUpTo(side, u, idx))

\* What is owed grows with the holding, and with the index by as much for each unit.
LEMMA OwedGrows ==
    ASSUME RewardsInv, NEW side \in Sides, NEW u \in Users, NEW n \in Nat, NEW k \in Nat, n <= k,
           NEW x \in Nat
    PROVE  /\ Owed(side, u, n, index[side]) \in Nat
           /\ Owed(side, u, k, index[side] + x) \in Nat
           /\ Owed(side, u, n, index[side]) <= Owed(side, u, k, index[side] + x)
           /\ Owed(side, u, n, index[side] + x) <= Owed(side, u, n, index[side]) + n * x
<1> DEFINE i == index[side]
           j == i + x
           p == PaidUpTo(side, u, i)
           q == PaidUpTo(side, u, j)
<1>1. i \in Nat /\ j \in Nat /\ i <= j
  BY DEF RewardsInv, TypeOK
<1>2. p \in Nat /\ p <= i /\ q \in Nat /\ q <= j
  BY <1>1, PaidUpToNat
<1>3. (p = i /\ q = j) \/ p = q
  BY DEF PaidUpTo
<1> HIDE DEF i, j, p, q
<1> DEFINE a == i - p
           b == j - q
<1>4. a \in Nat /\ b \in Nat /\ a <= b /\ b <= a + x
  BY <1>1, <1>2, <1>3 DEF j
<1> HIDE DEF a, b
<1>5. n * a \in Nat /\ n * b \in Nat /\ k * b \in Nat /\ n * x \in Nat
  BY <1>4, ProductNat
<1>6. n * a <= n * b
  <2>1. a * n <= b * n /\ a * n = n * a /\ b * n = n * b
    BY <1>4, ProductMonotone
  <2> QED BY <2>1
<1>7. n * b <= k * b
  BY <1>4, ProductMonotone
<1>8. n * b <= n * a + n * x
  <2>1. n * (a + x) = n * a + n * x
    BY <1>4
  <2>2. b * n <= (a + x) * n /\ b * n = n * b /\ (a + x) * n = n * (a + x)
    BY <1>4, ProductMonotone
  <2> QED BY <2>1, <2>2
<1>9. n * a <= k * b
  BY <1>5, <1>6, <1>7
<1> QED BY <1>5, <1>8, <1>9 DEF Owed, a, b, i, j, p, q

LEMMA PendingOwed ==
    ASSUME NEW side, NEW u
    PROVE  Pending(side, u) = Owed(side, u, held[side][u], index[side])
  BY DEF Pending, Owed

\* What a distribution pays for is what is owed at the new index, rounded down.
LEMMA EarnedOwed ==
    ASSUME NEW side, NEW u, NEW n, NEW idx
    PROVE  Earned(side, u, n, idx) = Owed(side, u, n, idx) \div Scale
  BY DEF Earned, Owed

Holdings == [Sides -> [Users -> Nat]]

LEMMA GainNat ==
    ASSUME RewardsInv, NEW u \in Users, NEW hold \in Holdings
    PROVE  /\ \A side \in Sides : Earned(side, u, hold[side][u], IndexAfter[side]) \in Nat
           /\ Gain(u, hold, IndexAfter) \in Nat
<1>1. ASSUME NEW side \in Sides
      PROVE  Earned(side, u, hold[side][u], IndexAfter[side]) \in Nat
  <2>1. /\ IndexAfter[side] = index[side] + Delta(side, Total(side))
        /\ Delta(side, Total(side)) \in Nat /\ hold[side][u] \in Nat
    BY IndexGrows DEF RewardsInv, Holdings
  <2>2. ASSUME NEW n \in Nat, NEW x \in Nat PROVE Owed(side, u, n, index[side] + x) \in Nat
    <3>1. n <= n
      OBVIOUS
    <3> QED BY <3>1, OwedGrows, Zenon
  <2>3. Owed(side, u, hold[side][u], IndexAfter[side]) \in Nat
    BY <2>1, <2>2
  <2> QED BY <2>3, EarnedOwed, RewardsAssumption, DivNat
<1>2. "supply" \in Sides /\ "borrow" \in Sides
  BY DEF Sides
<1> QED BY <1>1, <1>2 DEF Gain

-----------------------------------------------------------------------------
(* Types *)

LEMMA AccrueMarketType ==
    ASSUME TypeOK, AccrueMarket
    PROVE  /\ index' \in [Sides -> Nat] /\ speed' \in [Sides -> Nat]
           /\ elapsed' \in [Sides -> Nat]
           /\ \A side \in Sides : index[side] <= index'[side]
<1>1. index' = IndexAfter /\ speed' = SpeedAfter /\ elapsed' = ElapsedAfter
  BY DEF AccrueMarket
<1>2. SpeedAfter \in [Sides -> Nat] /\ ElapsedAfter \in [Sides -> Nat]
  BY DEF SpeedAfter, ElapsedAfter, TypeOK
<1> QED BY <1>1, <1>2, IndexGrows

LEMMA DistributeType ==
    ASSUME RewardsInv, NEW us, NEW hold \in Holdings,
           Distribute(us, hold), index' = IndexAfter
    PROVE  /\ userIndex' \in [Sides -> [Users -> Nat]] /\ UsersBehind'
           /\ accrued' \in [Users -> Nat]
<1>1. \A u \in Users : Gain(u, hold, IndexAfter) \in Nat
  BY GainNat
<1>2. accrued' \in [Users -> Nat]
  BY <1>1 DEF Distribute, RewardsInv, TypeOK
<1>3. /\ IndexAfter \in [Sides -> Nat]
      /\ \A side \in Sides : index[side] <= IndexAfter[side] /\ index[side] \in Nat
  BY IndexGrows DEF RewardsInv
<1>4. ASSUME NEW side \in Sides, NEW u \in Users
      PROVE  userIndex'[side][u] \in Nat /\ userIndex'[side][u] <= index'[side]
  BY <1>3 DEF Distribute, RewardsInv, TypeOK, UsersBehind
<1>5. userIndex' \in [Sides -> [Users -> Nat]]
  BY <1>3 DEF Distribute, RewardsInv, TypeOK
<1> QED BY <1>2, <1>4, <1>5 DEF UsersBehind

\* What a call of a vault leaves, whatever it does to the holdings.
LEMMA AccrueUsersType ==
    ASSUME RewardsInv, NEW us, NEW hold \in Holdings, AccrueUsers(us, hold),
           held' \in Holdings, UNCHANGED <<setup, minted>>
    PROVE  RewardsInv'
<1>1. CASE Rewarding
  <2>1. AccrueMarket /\ Distribute(us, hold) /\ index' = IndexAfter
    BY <1>1 DEF AccrueUsers, AccrueMarket
  <2> QED BY <2>1, AccrueMarketType, DistributeType DEF RewardsInv, TypeOK, setup, Holdings
<1>2. CASE ~Rewarding
  BY <1>2 DEF AccrueUsers, RewardsInv, TypeOK, UsersBehind, setup, market, Holdings
<1> QED BY <1>1, <1>2

LEMMA MovedType ==
    ASSUME TypeOK, NEW from \in Users, NEW to \in Users, from # to, NEW n \in Nat,
           MayLeave("supply", from, n)
    PROVE  /\ Moved(from, to, n) \in Holdings
           /\ Moved(from, to, n)["borrow"] = held["borrow"]
           /\ \A u \in Users : Moved(from, to, n)["supply"][u] =
                IF u = from THEN held["supply"][u] - n
                ELSE IF u = to THEN held["supply"][u] + n ELSE held["supply"][u]
<1>1. held["supply"] \in [Users -> Nat] /\ held["borrow"] \in [Users -> Nat]
      /\ n <= held["supply"][from]
  BY DEF TypeOK, Sides, MayLeave
<1>2. held \in [Sides -> [Users -> Nat]] /\ "supply" \in Sides /\ "borrow" \in Sides
  BY DEF TypeOK, Sides
<1>3. \A u \in Users : Moved(from, to, n)["supply"][u] =
                           IF u = from THEN held["supply"][u] - n
                           ELSE IF u = to THEN held["supply"][u] + n ELSE held["supply"][u]
  BY <1>1, <1>2 DEF Moved
<1>4. Moved(from, to, n)["borrow"] = held["borrow"]
  BY <1>1, <1>2 DEF Moved
<1>5. Moved(from, to, n) \in Holdings
  BY <1>1, <1>2 DEF Moved, Holdings
<1> QED BY <1>3, <1>4, <1>5

LEMMA HeldIs == TypeOK => held \in Holdings
  BY DEF TypeOK, Holdings

LEMMA EnlargeType ==
    ASSUME RewardsInv, NEW side \in Sides, NEW u \in Users, NEW n \in Amounts,
           Enlarge(side, u, n) \/ Reduce(side, u, n)
    PROVE  RewardsInv'
<1>1. AccrueUsers({u}, held) /\ UNCHANGED <<setup, minted>>
  BY DEF Enlarge, Reduce
<1>2. held \in Holdings /\ held[side][u] \in Nat /\ n \in Nat
  BY HeldIs, RewardsAssumption DEF RewardsInv, Holdings
<1>3. held' \in Holdings
  BY <1>2 DEF Enlarge, Reduce, MayLeave, Holdings
<1> QED BY <1>1, <1>2, <1>3, AccrueUsersType

LEMMA TransferType ==
    ASSUME RewardsInv, NEW u \in Users, NEW v \in Users, NEW n \in Amounts, Transfer(u, v, n)
    PROVE  RewardsInv'
<1>1. Moved(u, v, n) \in Holdings
  BY MovedType, RewardsAssumption DEF Transfer, RewardsInv
<1> QED BY <1>1, AccrueUsersType DEF Transfer

\* Only the holdings change.
LEMMA HoldingsType ==
    ASSUME RewardsInv, held' \in Holdings, UNCHANGED <<setup, market, paid>>
    PROVE  RewardsInv'
  BY DEF RewardsInv, TypeOK, UsersBehind, Holdings, setup, market, paid

LEMMA LiquidateType ==
    ASSUME RewardsInv, NEW u \in Users, NEW v \in Users, NEW n \in Nat, NEW k \in Nat,
           Liquidate(u, v, n, k)
    PROVE  RewardsInv'
<1>1. Moved(u, v, k) \in Holdings /\ Moved(u, v, k)["borrow"] = held["borrow"]
  BY MovedType DEF Liquidate, RewardsInv
<1>2. n <= held["borrow"][u] /\ held' = [Moved(u, v, k) EXCEPT !["borrow"][u] = @ - n]
  BY DEF Liquidate, MayLeave
<1>3. Moved(u, v, k)["borrow"][u] \in Nat /\ Moved(u, v, k)["borrow"][u] - n \in Nat
  BY <1>1, <1>2 DEF Holdings, Sides
<1>4. held' \in Holdings
  BY <1>1, <1>2, <1>3 DEF Holdings, Sides
<1> QED BY <1>4, HoldingsType DEF Liquidate

LEMMA InterestType ==
    ASSUME RewardsInv, NEW n \in Nat, InterestAccrues(n)
    PROVE  RewardsInv'
<1>1. held \in Holdings
  BY HeldIs DEF RewardsInv
<1>2. held' \in Holdings
  BY <1>1 DEF InterestAccrues, Holdings, Sides
<1> QED BY <1>2, HoldingsType DEF InterestAccrues

LEMMA ClaimType ==
    ASSUME RewardsInv, NEW u \in Users, NEW answer \in Answers, Claim(u, answer)
    PROVE  RewardsInv'
<1> DEFINE amount == accrued[u] + (IF answer = "all" THEN Gain(u, held, IndexAfter) ELSE 0)
<1>1. amount \in Nat
  BY GainNat, HeldIs DEF RewardsInv, TypeOK
<1> HIDE DEF amount
<1>2. Mint(u, amount, Room)
  BY DEF Claim, amount
<1>3. minted' \in [Users -> Nat] /\ accrued' \in [Users -> Nat]
  <2>1. CASE token /\ amount <= Room
    BY <1>1, <1>2, <2>1 DEF Mint, RewardsInv, TypeOK
  <2>2. CASE ~(token /\ amount <= Room)
    BY <1>1, <1>2, <2>2 DEF Mint, RewardsInv, TypeOK
  <2> QED BY <2>1, <2>2
<1>4. /\ index' \in [Sides -> Nat] /\ speed' \in [Sides -> Nat] /\ elapsed' \in [Sides -> Nat]
      /\ \A side \in Sides : index[side] <= index'[side] /\ index[side] \in Nat
      /\ answer = "all" => index' = IndexAfter
  <2>1. CASE answer = "none"
    BY <2>1 DEF Claim, market, RewardsInv, TypeOK
  <2>2. CASE answer # "none"
    <3>1. AccrueMarket
      BY <2>2 DEF Claim
    <3> QED BY <3>1, AccrueMarketType DEF AccrueMarket, RewardsInv, TypeOK
  <2> QED BY <2>1, <2>2
<1>5. /\ userIndex' \in [Sides -> [Users -> Nat]]
      /\ \A side \in Sides, v \in Users : userIndex'[side][v] <= index'[side]
  <2>1. userIndex' = [side \in Sides |-> [v \in Users |->
                        IF answer = "all" /\ v = u THEN IndexAfter[side] ELSE userIndex[side][v]]]
    BY DEF Claim
  <2>2. IndexAfter \in [Sides -> Nat]
    BY IndexGrows DEF RewardsInv
  <2>3. ASSUME NEW side \in Sides, NEW v \in Users
        PROVE  userIndex[side][v] \in Nat /\ userIndex[side][v] <= index[side]
    BY DEF RewardsInv, TypeOK, UsersBehind
  <2>4. ASSUME NEW side \in Sides, NEW v \in Users
        PROVE  userIndex'[side][v] <= index'[side]
    BY <1>4, <2>1, <2>2, <2>3
  <2>5. userIndex' \in [Sides -> [Users -> Nat]]
    BY <2>1, <2>2, <2>3
  <2> QED BY <2>4, <2>5
<1> QED BY <1>3, <1>4, <1>5 DEF Claim, RewardsInv, TypeOK, UsersBehind, setup

LEMMA SetSpeedType ==
    ASSUME RewardsInv, NEW side \in Sides, NEW s \in Nat, SetSpeed(side, s)
    PROVE  RewardsInv'
<1>1. SpeedAfter \in [Sides -> Nat] /\ ElapsedAfter \in [Sides -> Nat]
  BY DEF SpeedAfter, ElapsedAfter, RewardsInv, TypeOK
<1>2. speed' \in [Sides -> Nat] /\ elapsed' \in [Sides -> Nat]
  BY <1>1 DEF SetSpeed, Anchored
<1>3. index' \in [Sides -> Nat]
      /\ \A x \in Sides : index[x] <= index'[x] /\ index[x] \in Nat /\ index'[x] \in Nat
  BY IndexGrows DEF SetSpeed, RewardsInv
<1>4. UNCHANGED <<setup, held, paid>>
  BY DEF SetSpeed
<1>5. UsersBehind'
  BY <1>3, <1>4 DEF UsersBehind, RewardsInv, TypeOK, paid
<1> QED BY <1>2, <1>3, <1>4, <1>5 DEF RewardsInv, TypeOK, setup, paid

LEMMA StepType == ASSUME RewardsInv, [Next]_vars PROVE RewardsInv'
<1> USE RewardsAssumption
<1>1. ASSUME NEW side \in Sides, NEW u \in Users, NEW n \in Amounts,
             Enlarge(side, u, n) \/ Reduce(side, u, n)
      PROVE  RewardsInv'
  BY <1>1, EnlargeType
<1>2. ASSUME NEW u \in Users, NEW v \in Users, NEW n \in Amounts, Transfer(u, v, n)
      PROVE  RewardsInv'
  BY <1>2, TransferType
<1>3. ASSUME NEW u \in Users, NEW v \in Users, NEW n \in {0} \cup Amounts,
             NEW k \in {0} \cup Amounts, Liquidate(u, v, n, k)
      PROVE  RewardsInv'
  BY <1>3, LiquidateType
<1>4. ASSUME NEW n \in 1..MaxInterest, InterestAccrues(n) PROVE RewardsInv'
  BY <1>4, InterestType
<1>5. ASSUME NEW u \in Users, AccrueUserMarket(u) PROVE RewardsInv'
  <2>1. /\ AccrueMarket /\ Distribute({u}, held) /\ index' = IndexAfter
        /\ UNCHANGED <<setup, held, minted>>
    BY <1>5 DEF AccrueUserMarket, AccrueMarket
  <2>2. held \in Holdings
    BY HeldIs DEF RewardsInv
  <2> QED BY <2>1, <2>2, AccrueMarketType, DistributeType DEF RewardsInv, TypeOK, setup
<1>6. ASSUME NEW u \in Users, NEW answer \in Answers, Claim(u, answer) PROVE RewardsInv'
  BY <1>6, ClaimType
<1>7. ASSUME NEW side \in Sides, NEW s \in Speeds, SetSpeed(side, s) PROVE RewardsInv'
  BY <1>7, SetSpeedType
<1>8. CASE SetPeridotToken \/ SetPeridottroller
  BY <1>8 DEF SetPeridotToken, SetPeridottroller, RewardsInv, TypeOK, UsersBehind, market, paid
<1>9. CASE Tick
  BY <1>9 DEF Tick, RewardsInv, TypeOK, UsersBehind, setup, paid
<1>10. CASE UNCHANGED vars
  BY <1>10 DEF vars, RewardsInv, TypeOK, UsersBehind, setup, market, paid
<1> QED BY <1>1, <1>2, <1>3, <1>4, <1>5, <1>6, <1>7, <1>8, <1>9, <1>10 DEF Next

LEMMA InitRewards == Init => RewardsInv
  BY RewardsAssumption DEF Init, RewardsInv, TypeOK, UsersBehind, Unset

LEMMA RewardsInvariant == Spec => []RewardsInv
<1>1. RewardsInv /\ [Next]_vars => RewardsInv'
  BY StepType
<1> QED BY <1>1, InitRewards, PTL DEF Spec

\* Nothing is ever owed, accrued or paid that is not a natural number: no user's index
\* overtakes the market's, whatever claims fail and whatever speeds are set and reset.
THEOREM TypeCorrect == Spec => []TypeOK
<1>1. RewardsInv => TypeOK
  BY DEF RewardsInv
<1> QED BY <1>1, RewardsInvariant, PTL

-----------------------------------------------------------------------------
(* What a step does to a user's rewards *)

\* The indexes move as accrue_market moves them, and no emission is left over.
Indexes == index' = IndexAfter /\ Unindexed' = 0

\* u has been paid nothing, and her index stays.
Unpaid(u) ==
    /\ minted'[u] + accrued'[u] = minted[u] + accrued[u]
    /\ \A side \in Sides : userIndex'[side][u] = userIndex[side][u]

\* u has been paid up to the new index for what she holds in hold.
PaidFor(u, hold) ==
    /\ index' = IndexAfter
    /\ minted'[u] + accrued'[u] = minted[u] + accrued[u] + Gain(u, hold, IndexAfter)
    /\ \A side \in Sides : userIndex'[side][u] = index'[side]

\* By how much the worth of u's rewards may grow: what the indexes move for what she holds.
Grows(u) ==
    held["supply"][u] * Delta("supply", Total("supply"))
        + held["borrow"][u] * Delta("borrow", Total("borrow"))

LEMMA BothSides == "supply" \in Sides /\ "borrow" \in Sides
  BY DEF Sides

LEMMA PendingNat ==
    ASSUME RewardsInv, NEW side \in Sides, NEW u \in Users
    PROVE  Pending(side, u) \in Nat
<1>1. held[side][u] \in Nat /\ index[side] \in Nat
      /\ PaidUpTo(side, u, index[side]) \in Nat /\ PaidUpTo(side, u, index[side]) <= index[side]
  BY PaidUpToNat DEF RewardsInv, TypeOK
<1>2. index[side] - PaidUpTo(side, u, index[side]) \in Nat
  BY <1>1
<1> QED BY <1>1, <1>2, ProductNat DEF Pending

LEMMA WorthNat ==
    ASSUME RewardsInv, NEW u \in Users
    PROVE  Worth(u) \in Nat /\ minted[u] + accrued[u] \in Nat
<1>1. minted[u] + accrued[u] \in Nat
  BY DEF RewardsInv, TypeOK
<1>2. (minted[u] + accrued[u]) * Scale \in Nat
  BY <1>1, RewardsAssumption, ProductNat
<1>3. Pending("supply", u) \in Nat /\ Pending("borrow", u) \in Nat
  BY PendingNat, BothSides
<1> QED BY <1>1, <1>2, <1>3 DEF Worth

\* What is pending after a step that does not pay for it.
LEMMA PendingUnpaid ==
    ASSUME RewardsInv, NEW side \in Sides, NEW u \in Users, NEW x \in Nat,
           index'[side] = index[side] + x, userIndex'[side][u] = userIndex[side][u]
    PROVE  Pending(side, u)' = Owed(side, u, held'[side][u], index[side] + x)
  BY DEF Pending, PaidUpTo, Owed

\* What is pending after a step that pays for it.
LEMMA PendingPaid ==
    ASSUME RewardsInv', NEW side \in Sides, NEW u \in Users,
           userIndex'[side][u] = index'[side]
    PROVE  Pending(side, u)' = 0
<1>1. held'[side][u] \in Nat /\ index'[side] \in Nat
  BY DEF RewardsInv, TypeOK
<1>2. PaidUpTo(side, u, index[side])' = index'[side]
  BY DEF PaidUpTo
<1> QED BY <1>1, <1>2 DEF Pending

LEMMA UnpaidPending ==
    ASSUME RewardsInv, RewardsInv', NEW u \in Users, NEW side \in Sides, NEW x \in Nat,
           index'[side] = index[side] + x, userIndex'[side][u] = userIndex[side][u],
           held[side][u] <= held'[side][u]
    PROVE  /\ Pending(side, u) \in Nat /\ Pending(side, u)' \in Nat
           /\ Pending(side, u) <= Pending(side, u)'
           /\ held'[side][u] = held[side][u] =>
                Pending(side, u)' <= Pending(side, u) + held[side][u] * x
<1> DEFINE n == held[side][u]
           k == held'[side][u]
<1>1. n \in Nat /\ k \in Nat /\ n <= k
  BY DEF RewardsInv, TypeOK
<1>2. Pending(side, u) = Owed(side, u, n, index[side])
  BY PendingOwed
<1>3. Pending(side, u)' = Owed(side, u, k, index[side] + x)
  BY PendingUnpaid
<1> HIDE DEF n, k
<1>4. /\ Owed(side, u, n, index[side]) \in Nat
      /\ Owed(side, u, k, index[side] + x) \in Nat
      /\ Owed(side, u, n, index[side]) <= Owed(side, u, k, index[side] + x)
      /\ Owed(side, u, n, index[side] + x) <= Owed(side, u, n, index[side]) + n * x
  BY <1>1, OwedGrows
<1> QED BY <1>2, <1>3, <1>4 DEF n, k

\* A user who is not paid: what is pending goes on as the indexes do.
LEMMA UnpaidWorth ==
    ASSUME RewardsInv, RewardsInv', NEW u \in Users, Unpaid(u), NEW x \in [Sides -> Nat],
           \A side \in Sides : /\ index'[side] = index[side] + x[side]
                               /\ held[side][u] <= held'[side][u]
    PROVE  /\ Entitlement(u) <= Entitlement(u)'
           /\ (\A side \in Sides : held'[side][u] = held[side][u]) =>
                Worth(u)' <= Worth(u) + (held["supply"][u] * x["supply"]
                                          + held["borrow"][u] * x["borrow"])
<1> DEFINE a == minted[u] + accrued[u]
           s == Pending("supply", u)
           b == Pending("borrow", u)
           sn == Pending("supply", u)'
           bn == Pending("borrow", u)'
           hs == held["supply"][u] * x["supply"]
           hb == held["borrow"][u] * x["borrow"]
<1>1. a \in Nat /\ minted'[u] + accrued'[u] = a
  BY WorthNat DEF Unpaid
<1>2. /\ s \in Nat /\ sn \in Nat /\ s <= sn
      /\ held'["supply"][u] = held["supply"][u] => sn <= s + hs
  BY UnpaidPending, BothSides DEF Unpaid
<1>3. /\ b \in Nat /\ bn \in Nat /\ b <= bn
      /\ held'["borrow"][u] = held["borrow"][u] => bn <= b + hb
  BY UnpaidPending, BothSides DEF Unpaid
<1>4. hs \in Nat /\ hb \in Nat
  <2>1. \A side \in Sides : held[side][u] \in Nat /\ x[side] \in Nat
    BY DEF RewardsInv, TypeOK
  <2> QED BY <2>1, BothSides, ProductNat
<1>5. /\ Entitlement(u) = a + (s \div Scale) + (b \div Scale)
      /\ Entitlement(u)' = a + (sn \div Scale) + (bn \div Scale)
      /\ Worth(u) = a * Scale + s + b
      /\ Worth(u)' = a * Scale + sn + bn
  BY <1>1 DEF Entitlement, Worth
<1> HIDE DEF a, s, b, sn, bn, hs, hb
<1>6. /\ s \div Scale \in Nat /\ sn \div Scale \in Nat /\ s \div Scale <= sn \div Scale
      /\ b \div Scale \in Nat /\ bn \div Scale \in Nat /\ b \div Scale <= bn \div Scale
  BY <1>2, <1>3, RewardsAssumption, DivNat, DivMonotone
<1>7. Entitlement(u) <= Entitlement(u)'
  BY <1>1, <1>5, <1>6
<1>8. ASSUME \A side \in Sides : held'[side][u] = held[side][u]
      PROVE  Worth(u)' <= Worth(u) + (hs + hb)
  <2>1. sn <= s + hs /\ bn <= b + hb
    BY <1>2, <1>3, <1>8, BothSides
  <2>2. a * Scale \in Nat
    BY <1>1, RewardsAssumption, ProductNat
  <2> QED BY <1>2, <1>3, <1>4, <1>5, <2>1, <2>2
<1> QED BY <1>7, <1>8 DEF hs, hb

\* What a distribution for n units pays: no less than was pending on fewer, no more than
\* what is pending on n and what the index moves.
LEMMA EarnedFits ==
    ASSUME RewardsInv, NEW u \in Users, NEW side \in Sides, NEW n \in Nat, held[side][u] <= n
    PROVE  /\ Earned(side, u, n, IndexAfter[side]) \in Nat
           /\ Pending(side, u) \div Scale <= Earned(side, u, n, IndexAfter[side])
           /\ Pending(side, u) \div Scale \in Nat
           /\ n = held[side][u] =>
                Earned(side, u, n, IndexAfter[side]) * Scale
                  <= Pending(side, u) + held[side][u] * Delta(side, Total(side))
<1> DEFINE h == held[side][u]
           x == Delta(side, Total(side))
           o == Owed(side, u, n, index[side] + x)
           p == Owed(side, u, h, index[side])
<1>1. h \in Nat /\ x \in Nat /\ IndexAfter[side] = index[side] + x
  BY IndexGrows DEF RewardsInv, TypeOK
<1>2. /\ p \in Nat /\ o \in Nat /\ p <= o
      /\ Owed(side, u, h, index[side] + x) <= p + h * x
  <2> HIDE DEF x, h
  <2>1. h <= n
    BY DEF h
  <2> QED BY <1>1, <2>1, OwedGrows
<1>3. Pending(side, u) = p /\ Earned(side, u, n, IndexAfter[side]) = o \div Scale
  BY <1>1, PendingOwed, EarnedOwed
<1>4. n = h => o <= p + h * x
  BY <1>2
<1> HIDE DEF o, p
<1>5. /\ o \div Scale \in Nat /\ (o \div Scale) * Scale <= o
      /\ p \div Scale \in Nat /\ p \div Scale <= o \div Scale
  BY <1>2, RewardsAssumption, DivNat, DivMonotone
<1>6. ASSUME n = h PROVE (o \div Scale) * Scale <= p + h * x
  <2> DEFINE e == (o \div Scale) * Scale
             r == p + h * x
  <2>1. h * x \in Nat /\ e \in Nat
    BY <1>1, <1>5, RewardsAssumption, ProductNat
  <2>2. r \in Nat /\ e <= o /\ o <= r
    BY <1>2, <1>4, <1>5, <1>6, <2>1
  <2> HIDE DEF e, r
  <2>3. e <= r
    BY <1>2, <2>1, <2>2
  <2> QED BY <2>3 DEF e, r
<1> QED BY <1>3, <1>5, <1>6

\* A user who is paid: what she gets is what was pending, rounded down, and nothing
\* stays pending.
LEMMA PaidWorth ==
    ASSUME RewardsInv, RewardsInv', NEW u \in Users, NEW hold \in Holdings, PaidFor(u, hold),
           \A side \in Sides : held[side][u] <= hold[side][u]
    PROVE  /\ Entitlement(u) <= Entitlement(u)'
           /\ (\A side \in Sides : hold[side][u] = held[side][u]) =>
                Worth(u)' <= Worth(u) + Grows(u)
<1> DEFINE a == minted[u] + accrued[u]
           s == Pending("supply", u)
           b == Pending("borrow", u)
           es == Earned("supply", u, hold["supply"][u], IndexAfter["supply"])
           eb == Earned("borrow", u, hold["borrow"][u], IndexAfter["borrow"])
           hs == held["supply"][u] * Delta("supply", Total("supply"))
           hb == held["borrow"][u] * Delta("borrow", Total("borrow"))
<1>1. a \in Nat /\ minted'[u] + accrued'[u] = a + (es + eb)
  BY WorthNat DEF PaidFor, Gain
<1>2. Pending("supply", u)' = 0 /\ Pending("borrow", u)' = 0
  BY PendingPaid, BothSides DEF PaidFor
<1>3. hold["supply"][u] \in Nat /\ hold["borrow"][u] \in Nat
  BY BothSides DEF Holdings
<1>4. /\ es \in Nat /\ s \div Scale <= es /\ s \div Scale \in Nat
      /\ hold["supply"][u] = held["supply"][u] => es * Scale <= s + hs
  BY <1>3, BothSides, EarnedFits
<1>5. /\ eb \in Nat /\ b \div Scale <= eb /\ b \div Scale \in Nat
      /\ hold["borrow"][u] = held["borrow"][u] => eb * Scale <= b + hb
  BY <1>3, BothSides, EarnedFits
<1>6. hs \in Nat /\ hb \in Nat /\ s \in Nat /\ b \in Nat
  <2>1. \A side \in Sides : held[side][u] \in Nat /\ Delta(side, Total(side)) \in Nat
    BY DeltaEmits DEF RewardsInv, TypeOK
  <2> QED BY <2>1, BothSides, ProductNat, PendingNat
<1>7. 0 \div Scale = 0
  BY RewardsAssumption
<1>8. /\ Entitlement(u) = a + (s \div Scale) + (b \div Scale)
      /\ Entitlement(u)' = (minted'[u] + accrued'[u]) + (0 \div Scale) + (0 \div Scale)
      /\ Worth(u) = a * Scale + s + b
      /\ Worth(u)' = (minted'[u] + accrued'[u]) * Scale + 0 + 0
  BY <1>2 DEF Entitlement, Worth
<1>9. Grows(u) = hs + hb
  BY DEF Grows
<1> HIDE DEF a, s, b, es, eb, hs, hb
<1>10. Entitlement(u) <= Entitlement(u)'
  BY <1>1, <1>4, <1>5, <1>7, <1>8
<1>11. ASSUME \A side \in Sides : hold[side][u] = held[side][u]
       PROVE  Worth(u)' <= Worth(u) + Grows(u)
  <2>1. es * Scale <= s + hs /\ eb * Scale <= b + hb
    BY <1>4, <1>5, <1>11, BothSides
  <2>2. a * Scale \in Nat /\ es * Scale \in Nat /\ eb * Scale \in Nat
    BY <1>1, <1>4, <1>5, RewardsAssumption, ProductNat
  <2>3. (a + (es + eb)) * Scale = a * Scale + es * Scale + eb * Scale
    BY <1>1, <1>4, <1>5, RewardsAssumption
  <2> QED BY <1>1, <1>6, <1>8, <1>9, <2>1, <2>2, <2>3
<1> QED BY <1>10, <1>11

-----------------------------------------------------------------------------
(* What each call does *)

\* accrue_market moves the indexes for all that was emitted: afterwards a side has no speed
\* or no time.
LEMMA AccrueMarketIndexes == ASSUME TypeOK, AccrueMarket PROVE Indexes
<1>1. ASSUME NEW side \in Sides
      PROVE  Product(side, speed'[side], elapsed'[side]) = 0
  <2>1. speed[side] \in Nat /\ elapsed[side] \in Nat
    BY DEF TypeOK
  <2>2. elapsed'[side] = (IF speed[side] > 0 THEN 0 ELSE elapsed[side])
        /\ speed'[side] \in {0, speed[side]}
    BY DEF AccrueMarket, ElapsedAfter, SpeedAfter
  <2>3. speed'[side] = 0 \/ elapsed'[side] = 0
    BY <2>1, <2>2
  <2> QED BY <2>1, <2>2, <2>3, RewardsAssumption DEF Product
<1> QED BY <1>1, BothSides DEF Indexes, AccrueMarket, Unindexed

\* set_supply_speed and set_borrow_speed move both, and start the time anew.
LEMMA SetSpeedIndexes ==
    ASSUME TypeOK, NEW side \in Sides, NEW s \in Nat, SetSpeed(side, s)
    PROVE  Indexes
<1>1. ASSUME NEW x \in Sides
      PROVE  Product(x, speed'[x], elapsed'[x]) = 0
  <2>1. speed[x] \in Nat /\ elapsed[x] \in Nat
    BY DEF TypeOK
  <2>2. /\ ElapsedAfter[x] = (IF speed[x] > 0 THEN 0 ELSE elapsed[x])
        /\ SpeedAfter[x] \in {0, speed[x]}
    BY DEF ElapsedAfter, SpeedAfter
  <2>3. /\ speed'[x] = (IF x = side THEN s ELSE SpeedAfter[x])
        /\ elapsed'[x] = (IF x = side /\ s > 0 /\ speed[side] = 0 THEN 0 ELSE ElapsedAfter[x])
    BY DEF SetSpeed, Anchored, ElapsedAfter, SpeedAfter
  <2>4. speed'[x] \in Nat /\ elapsed'[x] \in Nat /\ (speed'[x] = 0 \/ elapsed'[x] = 0)
    BY <2>1, <2>2, <2>3
  <2> QED BY <2>4, RewardsAssumption DEF Product
<1> QED BY <1>1, BothSides DEF Indexes, SetSpeed, Unindexed

\* distribute_supply and distribute_borrow pay the users they are for, nobody else.
LEMMA DistributePays ==
    ASSUME RewardsInv, NEW us, NEW hold \in Holdings, Distribute(us, hold),
           index' = IndexAfter, UNCHANGED minted, NEW u \in Users
    PROVE  IF u \in us THEN PaidFor(u, hold) ELSE Unpaid(u)
<1>1. /\ minted'[u] = minted[u] /\ minted[u] \in Nat /\ accrued[u] \in Nat
      /\ Gain(u, hold, IndexAfter) \in Nat
  BY GainNat DEF RewardsInv, TypeOK
<1>2. /\ accrued'[u] = IF u \in us THEN accrued[u] + Gain(u, hold, IndexAfter) ELSE accrued[u]
      /\ \A side \in Sides :
           userIndex'[side][u] = IF u \in us THEN IndexAfter[side] ELSE userIndex[side][u]
  BY DEF Distribute
<1> QED BY <1>1, <1>2 DEF PaidFor, Unpaid

\* A call of a vault: it pays the users it names, or nothing moves at all.
LEMMA AccrueUsersPays ==
    ASSUME RewardsInv, NEW us, NEW hold \in Holdings, AccrueUsers(us, hold), UNCHANGED minted
    PROVE  \/ /\ Rewarding /\ Indexes
              /\ \A u \in Users : IF u \in us THEN PaidFor(u, hold) ELSE Unpaid(u)
           \/ /\ ~Rewarding /\ UNCHANGED market
              /\ \A u \in Users : Unpaid(u)
<1>1. CASE Rewarding
  <2>1. AccrueMarket /\ Distribute(us, hold) /\ index' = IndexAfter
    BY <1>1 DEF AccrueUsers, AccrueMarket
  <2> QED BY <1>1, <2>1, AccrueMarketIndexes, DistributePays DEF RewardsInv
<1>2. CASE ~Rewarding
  BY <1>2 DEF AccrueUsers, Unpaid
<1> QED BY <1>1, <1>2

\* claim: whatever its reads and its mint answer, a user gets what she had, and what a
\* distribution pays if there was one.
LEMMA ClaimPays ==
    ASSUME RewardsInv, NEW u \in Users, NEW answer \in Answers, Claim(u, answer)
    PROVE  /\ Indexes \/ UNCHANGED market
           /\ \A v \in Users : Unpaid(v) \/ (Indexes /\ PaidFor(v, held))
<1> DEFINE gain == IF answer = "all" THEN Gain(u, held, IndexAfter) ELSE 0
           amount == accrued[u] + gain
<1>1. /\ \A v \in Users : accrued[v] \in Nat /\ minted[v] \in Nat
      /\ gain \in Nat
      /\ accrued \in [Users -> Nat] /\ minted \in [Users -> Nat]
  BY GainNat, HeldIs DEF RewardsInv, TypeOK
<1>2. Mint(u, amount, Room)
  BY DEF Claim
<1>3. IF answer = "none" THEN UNCHANGED market ELSE Indexes
  BY AccrueMarketIndexes DEF Claim, RewardsInv
<1>4. \A side \in Sides, v \in Users :
        userIndex'[side][v] = IF answer = "all" /\ v = u THEN IndexAfter[side]
                              ELSE userIndex[side][v]
  BY DEF Claim
<1>5. answer = "all" => gain = Gain(u, held, IndexAfter)
  OBVIOUS
<1>6. answer # "all" => gain = 0
  OBVIOUS
<1> HIDE DEF gain
<1>7. ASSUME NEW v \in Users
      PROVE  minted'[v] + accrued'[v] = minted[v] + accrued[v] + (IF v = u THEN gain ELSE 0)
  <2>1. amount \in Nat /\ amount = accrued[u] + gain
    BY <1>1
  <2> HIDE DEF amount
  <2>2. CASE token /\ amount <= Room
    BY <1>1, <1>2, <2>1, <2>2 DEF Mint
  <2>3. CASE ~(token /\ amount <= Room)
    BY <1>1, <1>2, <2>1, <2>3 DEF Mint
  <2> QED BY <2>2, <2>3
<1>8. ASSUME NEW v \in Users, ~(answer = "all" /\ v = u) PROVE Unpaid(v)
  BY <1>1, <1>4, <1>6, <1>7, <1>8 DEF Unpaid
<1>9. ASSUME answer = "all" PROVE Indexes /\ PaidFor(u, held)
  BY <1>1, <1>3, <1>4, <1>5, <1>7, <1>9 DEF PaidFor, Indexes
<1> QED BY <1>3, <1>8, <1>9

\* Calls that change no rewards.
LEMMA PaidKept ==
    ASSUME UNCHANGED paid
    PROVE  \A u \in Users : Unpaid(u)
  BY DEF paid, Unpaid

-----------------------------------------------------------------------------
(* Rewards come from emission *)

LEMMA UnindexedNat ==
    ASSUME TypeOK
    PROVE  Unindexed \in Nat /\ Emission \in Nat
<1>1. \A side \in Sides : speed[side] \in Nat /\ elapsed[side] \in Nat
  BY DEF TypeOK
<1> QED BY <1>1, BothSides, ProductIsNat DEF Unindexed, Emission

\* All that users are owed, as a sum over the users.
WorthSum == SumFunctionOnSet([u \in Users |-> Worth(u)], Users)

LEMMA BooksNow ==
    RewardsInv => /\ Unindexed \in Nat
                  /\ Outstanding = Unindexed + WorthSum
                  /\ WorthSum \in Nat
                  /\ \A u \in Users : Worth(u) \in Nat
<1> SUFFICES ASSUME RewardsInv
             PROVE  /\ Unindexed \in Nat
                    /\ Outstanding = Unindexed + WorthSum
                    /\ WorthSum \in Nat
                    /\ \A u \in Users : Worth(u) \in Nat
  OBVIOUS
<1> DEFINE f == [u \in Users |-> Worth(u)]
<1>1. DOMAIN f = Users /\ \A u \in Users : f[u] = Worth(u) /\ f[u] \in Nat
  BY WorthNat
<1> HIDE DEF f
<1>2. SumFunctionOnSet(f, Users) \in Nat
  BY <1>1, RewardsAssumption, SumNat
<1>3. SumFunction(f) = SumFunctionOnSet(f, Users)
  BY <1>1 DEF SumFunction
<1>4. Unindexed \in Nat
  BY UnindexedNat DEF RewardsInv
<1> QED BY <1>1, <1>2, <1>3, <1>4 DEF Outstanding, WorthSum, f

LEMMA BooksThen ==
    RewardsInv' => /\ (Unindexed \in Nat)'
                   /\ (Outstanding = Unindexed + WorthSum)'
                   /\ (WorthSum \in Nat)'
                   /\ (\A u \in Users : Worth(u) \in Nat)'
  BY BooksNow, PTL

\* The indexes hand out no more than was emitted, over all users together.
LEMMA IndexesBound ==
    ASSUME RewardsInv, RewardsInv', Indexes,
           \A u \in Users : Worth(u)' <= Worth(u) + Grows(u)
    PROVE  Outstanding' <= Outstanding
<1> DEFINE ds == Delta("supply", Total("supply"))
           db == Delta("borrow", Total("borrow"))
           f == [u \in Users |-> Worth(u)]
           fn == [u \in Users |-> Worth(u)']
           s == [u \in Users |-> ds * held["supply"][u]]
           b == [u \in Users |-> db * held["borrow"][u]]
           sb == [u \in Users |-> s[u] + b[u]]
           g == [u \in Users |-> f[u] + sb[u]]
           Sum(x) == SumFunctionOnSet(x, Users)
<1>1. ds \in Nat /\ db \in Nat
  BY DeltaEmits, BothSides DEF RewardsInv
<1>2. ASSUME NEW u \in Users
      PROVE  /\ f[u] \in Nat /\ fn[u] \in Nat /\ s[u] \in Nat /\ b[u] \in Nat
             /\ held["supply"][u] \in Nat /\ held["borrow"][u] \in Nat
             /\ fn[u] <= g[u]
  <2>1. /\ Worth(u) \in Nat /\ Worth(u)' \in Nat
        /\ held["supply"][u] \in Nat /\ held["borrow"][u] \in Nat
    BY BooksNow, BooksThen, BothSides DEF RewardsInv, TypeOK
  <2>2. ds * held["supply"][u] = held["supply"][u] * ds /\ ds * held["supply"][u] \in Nat
        /\ db * held["borrow"][u] = held["borrow"][u] * db /\ db * held["borrow"][u] \in Nat
    <3> HIDE DEF ds, db
    <3> QED BY <1>1, <2>1, ProductNat
  <2>3. Grows(u) = s[u] + b[u]
    BY <2>2 DEF Grows
  <2> QED BY <2>1, <2>2, <2>3
<1>3. /\ \A u \in Users : sb[u] = s[u] + b[u] /\ g[u] = f[u] + sb[u]
      /\ \A u \in Users : s[u] = ds * held["supply"][u] /\ b[u] = db * held["borrow"][u]
  OBVIOUS
<1>4. /\ Outstanding = Unindexed + Sum(f) /\ Sum(f) \in Nat
      /\ Outstanding' = Unindexed' + Sum(fn) /\ Sum(fn) \in Nat
  BY BooksNow, BooksThen DEF WorthSum
<1>5. /\ Total("supply") = Sum(held["supply"]) /\ Total("borrow") = Sum(held["borrow"])
      /\ Total("supply") \in Nat /\ Total("borrow") \in Nat
  <2>1. DOMAIN held["supply"] = Users /\ DOMAIN held["borrow"] = Users
    BY BothSides DEF RewardsInv, TypeOK
  <2>2. Total("supply") = Sum(held["supply"]) /\ Total("borrow") = Sum(held["borrow"])
    BY <2>1 DEF Total, SumFunction
  <2> QED BY <2>2, BothSides, TotalNat DEF RewardsInv
<1>6. /\ ds * Total("supply") <= Product("supply", speed["supply"], elapsed["supply"])
      /\ db * Total("borrow") <= Product("borrow", speed["borrow"], elapsed["borrow"])
      /\ Product("supply", speed["supply"], elapsed["supply"]) \in Nat
      /\ Product("borrow", speed["borrow"], elapsed["borrow"]) \in Nat
  BY DeltaEmits, BothSides DEF RewardsInv
<1> HIDE DEF ds, db, f, fn, s, b, sb, g
<1>7. Sum(fn) <= Sum(g)
  BY <1>2, <1>3, RewardsAssumption, SumMonotone
<1>8. Sum(sb) = Sum(s) + Sum(b)
  BY <1>2, <1>3, RewardsAssumption, SumPlus
<1>9. Sum(g) = Sum(f) + Sum(sb)
  BY <1>2, <1>3, RewardsAssumption, SumPlus
<1>10. Sum(s) = ds * Total("supply")
  BY <1>1, <1>2, <1>3, <1>5, RewardsAssumption, SumTimes
<1>11. Sum(b) = db * Total("borrow")
  BY <1>1, <1>2, <1>3, <1>5, RewardsAssumption, SumTimes
<1>12. ds * Total("supply") \in Nat /\ db * Total("borrow") \in Nat
  BY <1>1, <1>5, ProductNat
<1>13. Sum(fn) <= Sum(f) + (ds * Total("supply") + db * Total("borrow"))
  BY <1>7, <1>8, <1>9, <1>10, <1>11
<1>14. Unindexed' = 0 /\ Unindexed = Product("supply", speed["supply"], elapsed["supply"])
                                      + Product("borrow", speed["borrow"], elapsed["borrow"])
  BY DEF Indexes, Unindexed
<1> HIDE DEF Sum
<1> QED BY <1>4, <1>6, <1>12, <1>13, <1>14

\* Where no index moves, what the users have grows by nothing.
LEMMA IdleBound ==
    ASSUME RewardsInv, RewardsInv', UNCHANGED <<index, held>>, \A u \in Users : Unpaid(u)
    PROVE  \E w \in Nat : Outstanding = Unindexed + w /\ Outstanding' = Unindexed' + w
<1>1. ASSUME NEW u \in Users PROVE Worth(u)' = Worth(u)
  <2>1. minted'[u] + accrued'[u] = minted[u] + accrued[u]
        /\ \A side \in Sides : userIndex'[side][u] = userIndex[side][u]
    BY DEF Unpaid
  <2>2. \A side \in Sides : Pending(side, u)' = Pending(side, u)
    BY <2>1 DEF Pending, PaidUpTo
  <2> QED BY <2>1, <2>2, BothSides DEF Worth
<1>2. [u \in Users |-> Worth(u)]' = [u \in Users |-> Worth(u)]
  BY <1>1
<1>3. WorthSum' = WorthSum
  BY <1>2 DEF WorthSum
<1>4. Outstanding = Unindexed + WorthSum /\ WorthSum \in Nat
  BY BooksNow
<1>5. Outstanding' = Unindexed' + WorthSum'
  BY BooksThen
<1>6. Outstanding' = Unindexed' + WorthSum
  BY <1>3, <1>5
<1> QED BY <1>4, <1>6

-----------------------------------------------------------------------------
(* What each step does to the holdings *)

\* deposit, borrow, withdraw and repay change one holding of one user.
LEMMA OneHeld ==
    ASSUME RewardsInv, NEW side \in Sides, NEW w \in Users, NEW n \in Amounts,
           Enlarge(side, w, n) \/ Reduce(side, w, n)
    PROVE  /\ held' # held
           /\ \A u \in Users : u # w => \A x \in Sides : held'[x][u] = held[x][u]
           /\ Enlarge(side, w, n) => \A u \in Users, x \in Sides : held[x][u] <= held'[x][u]
<1>1. /\ n \in Nat \ {0} /\ held \in [Sides -> [Users -> Nat]]
      /\ held[side][w] \in Nat
  BY RewardsAssumption DEF RewardsInv, TypeOK
<1>2. CASE Enlarge(side, w, n)
  <2>1. held' = [held EXCEPT ![side][w] = held[side][w] + n]
    BY <1>2 DEF Enlarge
  <2>2. \A u \in Users, x \in Sides :
          held'[x][u] = IF x = side /\ u = w THEN held[x][u] + n ELSE held[x][u]
    BY <1>1, <2>1
  <2>3. held'[side][w] # held[side][w]
    BY <1>1, <2>2
  <2>4. \A u \in Users, x \in Sides : held[x][u] \in Nat /\ held[x][u] <= held'[x][u]
    BY <1>1, <2>2
  <2> QED BY <2>2, <2>3, <2>4
<1>3. CASE ~Enlarge(side, w, n)
  <2>1. held' = [held EXCEPT ![side][w] = held[side][w] - n]
    BY <1>3 DEF Reduce
  <2>2. \A u \in Users, x \in Sides :
          held'[x][u] = IF x = side /\ u = w THEN held[x][u] - n ELSE held[x][u]
    BY <1>1, <2>1
  <2>3. held'[side][w] # held[side][w]
    BY <1>1, <2>2
  <2> QED BY <1>3, <2>2, <2>3
<1> QED BY <1>2, <1>3

\* A liquidation takes from the borrower and gives to the liquidator, who is not she.
LEMMA LiquidatedHeld ==
    ASSUME RewardsInv, NEW u \in Users, NEW v \in Users, NEW n \in Nat, NEW k \in Nat,
           Liquidate(u, v, n, k)
    PROVE  /\ \A w \in Users : w # u => \A x \in Sides : held[x][w] <= held'[x][w]
           /\ \A w \in Users : w # u => held'["borrow"][w] = held["borrow"][w]
<1>1. /\ Moved(u, v, k) \in Holdings /\ Moved(u, v, k)["borrow"] = held["borrow"]
      /\ \A w \in Users : Moved(u, v, k)["supply"][w] =
           IF w = u THEN held["supply"][w] - k
           ELSE IF w = v THEN held["supply"][w] + k ELSE held["supply"][w]
  BY MovedType DEF Liquidate, RewardsInv
<1>2. held' = [Moved(u, v, k) EXCEPT !["borrow"][u] = Moved(u, v, k)["borrow"][u] - n]
  BY DEF Liquidate
<1>3. held'["supply"] = Moved(u, v, k)["supply"]
      /\ \A w \in Users : w # u => held'["borrow"][w] = Moved(u, v, k)["borrow"][w]
  BY <1>1, <1>2, BothSides DEF Holdings
<1>4. \A w \in Users, x \in Sides : held[x][w] \in Nat
  BY DEF RewardsInv, TypeOK
<1>5. ASSUME NEW w \in Users, w # u
      PROVE  held["supply"][w] <= held'["supply"][w] /\ held["borrow"][w] <= held'["borrow"][w]
             /\ held'["borrow"][w] = held["borrow"][w]
  BY <1>1, <1>3, <1>4, <1>5, BothSides
<1> QED BY <1>5 DEF Sides

\* Interest takes from nobody.
LEMMA InterestHeld ==
    ASSUME RewardsInv, NEW n \in Nat, InterestAccrues(n)
    PROVE  \A u \in Users, x \in Sides : held[x][u] <= held'[x][u]
<1>1. held \in [Sides -> [Users -> Nat]]
  BY DEF RewardsInv, TypeOK
<1>2. held' = [held EXCEPT !["borrow"] =
                [u \in Users |-> IF held["borrow"][u] = 0 THEN 0 ELSE held["borrow"][u] + n]]
  BY DEF InterestAccrues
<1>3. ASSUME NEW u \in Users, NEW x \in Sides
      PROVE  held'[x][u] = IF x = "borrow" /\ held["borrow"][u] # 0
                           THEN held[x][u] + n ELSE held[x][u]
  BY <1>1, <1>2, BothSides
<1>4. \A u \in Users, x \in Sides : held[x][u] \in Nat
  BY <1>1
<1> QED BY <1>3, <1>4

-----------------------------------------------------------------------------
(* Rewards come from emission alone *)

\* The worth of a user who is paid first, or who is not paid and keeps what she holds.
LEMMA WorthMoves ==
    ASSUME RewardsInv, RewardsInv', index' = IndexAfter, NEW u \in Users,
           \/ PaidFor(u, held)
           \/ Unpaid(u) /\ \A side \in Sides : held'[side][u] = held[side][u]
    PROVE  Worth(u)' <= Worth(u) + Grows(u)
<1>1. held \in Holdings /\ \A side \in Sides : held[side][u] \in Nat
  BY HeldIs DEF RewardsInv, TypeOK
<1>2. CASE PaidFor(u, held)
  <2>1. \A side \in Sides : held[side][u] <= held[side][u]
    BY <1>1
  <2> QED BY <1>1, <1>2, <2>1, PaidWorth
<1>3. CASE Unpaid(u) /\ \A side \in Sides : held'[side][u] = held[side][u]
  <2> DEFINE x == [side \in Sides |-> Delta(side, Total(side))]
  <2>1. x \in [Sides -> Nat] /\ \A side \in Sides : index'[side] = index[side] + x[side]
    BY IndexGrows DEF RewardsInv
  <2>2. Grows(u) = held["supply"][u] * x["supply"] + held["borrow"][u] * x["borrow"]
    BY BothSides DEF Grows
  <2>3. \A side \in Sides : held[side][u] <= held'[side][u]
    BY <1>1, <1>3
  <2> HIDE DEF x
  <2> QED BY <1>3, <2>1, <2>2, <2>3, UnpaidWorth
<1> QED BY <1>2, <1>3

LEMMA PaidBound ==
    ASSUME RewardsInv, RewardsInv', Indexes,
           \A u \in Users : \/ PaidFor(u, held)
                            \/ Unpaid(u) /\ \A side \in Sides : held'[side][u] = held[side][u]
    PROVE  Outstanding' <= Outstanding
<1>1. index' = IndexAfter
  BY DEF Indexes
<1>2. \A u \in Users : Worth(u)' <= Worth(u) + Grows(u)
  BY <1>1, WorthMoves
<1> QED BY <1>2, IndexesBound

LEMMA StillBound ==
    ASSUME RewardsInv, RewardsInv', UNCHANGED <<market, held>>, \A u \in Users : Unpaid(u)
    PROVE  Outstanding' <= Outstanding
<1>1. Unindexed' = Unindexed /\ UNCHANGED <<index, held>>
  BY DEF Unindexed, Product, market
<1>2. Unindexed \in Nat
  BY BooksNow
<1>3. PICK w \in Nat : Outstanding = Unindexed + w /\ Outstanding' = Unindexed' + w
  BY <1>1, IdleBound
<1> QED BY <1>1, <1>2, <1>3

\* A unit of time adds what one unit emits.
LEMMA TickBound ==
    ASSUME RewardsInv, RewardsInv', Tick
    PROVE  Outstanding' <= Outstanding + Emission
<1>1. ASSUME NEW side \in Sides
      PROVE  /\ Product(side, speed'[side], elapsed'[side]) \in Nat
             /\ Product(side, speed[side], elapsed[side]) \in Nat
             /\ Product(side, speed[side], 1) \in Nat
             /\ Product(side, speed'[side], elapsed'[side])
                  <= Product(side, speed[side], elapsed[side]) + Product(side, speed[side], 1)
  <2> DEFINE s == speed[side]
             t == elapsed[side]
             tn == elapsed'[side]
  <2>1. s \in Nat /\ t \in Nat /\ tn \in Nat /\ speed'[side] = s
    BY DEF Tick, RewardsInv, TypeOK
  <2>2. tn = t + 1 \/ tn = t
    BY DEF Tick
  <2> HIDE DEF s, t, tn
  <2>3. s * t \in Nat /\ s * tn \in Nat /\ s * 1 = s /\ (s * tn = s * t + s \/ s * tn = s * t)
    <3>1. s * t \in Nat /\ s * tn \in Nat
      BY <2>1, ProductNat
    <3>2. s * (t + 1) = s * t + s
      BY <2>1
    <3> QED BY <2>1, <2>2, <3>1, <3>2
  <2> DEFINE a == s * t
             b == s * tn
  <2> HIDE DEF a, b
  <2>4. a \in Nat /\ b \in Nat /\ b <= a + s
    BY <2>1, <2>3 DEF a, b
  <2>5. a * Scale \in Nat /\ b * Scale \in Nat /\ s * Scale \in Nat
    BY <2>1, <2>4, RewardsAssumption, ProductNat
  <2>6. b * Scale <= (a + s) * Scale
    <3>1. a + s \in Nat
      BY <2>1, <2>4
    <3> QED BY <2>4, <3>1, RewardsAssumption, ProductMonotone
  <2>7. (a + s) * Scale = a * Scale + s * Scale
    BY <2>1, <2>4, RewardsAssumption
  <2>8. /\ Product(side, speed'[side], elapsed'[side]) = b * Scale
        /\ Product(side, speed[side], elapsed[side]) = a * Scale
        /\ Product(side, speed[side], 1) = s * Scale
    BY <2>1, <2>3 DEF Product, a, b, s, t, tn
  <2> QED BY <2>5, <2>6, <2>7, <2>8
<1>2. UNCHANGED <<index, held>> /\ \A u \in Users : Unpaid(u)
  BY PaidKept DEF Tick
<1>3. PICK w \in Nat : Outstanding = Unindexed + w /\ Outstanding' = Unindexed' + w
  BY <1>2, IdleBound
<1> DEFINE pn(side) == Product(side, speed'[side], elapsed'[side])
           p(side) == Product(side, speed[side], elapsed[side])
           q(side) == Product(side, speed[side], 1)
<1>4. /\ Unindexed = p("supply") + p("borrow") /\ Unindexed' = pn("supply") + pn("borrow")
      /\ Emission = q("supply") + q("borrow")
  BY DEF Unindexed, Emission
<1>5. \A side \in Sides : /\ pn(side) \in Nat /\ p(side) \in Nat /\ q(side) \in Nat
                          /\ pn(side) <= p(side) + q(side)
  BY <1>1
<1> HIDE DEF p, pn, q
<1>6. Unindexed' <= Unindexed + Emission /\ Unindexed \in Nat /\ Unindexed' \in Nat
      /\ Emission \in Nat
  BY <1>4, <1>5, BothSides
<1>7. ASSUME NEW a \in Nat, NEW b \in Nat, NEW e \in Nat, NEW z \in Nat, b <= a + e
      PROVE  b + z <= (a + z) + e
  BY <1>7
<1>8. Unindexed' + w <= (Unindexed + w) + Emission
  BY <1>3, <1>6, <1>7, Zenon
<1> QED BY <1>3, <1>8

LEMMA StepEmission ==
    ASSUME RewardsInv, RewardsInv', [Next]_vars
    PROVE  Unannounced \/ Outstanding' <= Outstanding + (IF Tick THEN Emission ELSE 0)
<1>1. SUFFICES ASSUME ~Unannounced
               PROVE  Outstanding' <= Outstanding \/ (Tick /\ Outstanding' <= Outstanding + Emission)
  <2>1. Outstanding \in Nat /\ Outstanding' \in Nat /\ Emission \in Nat
    BY BooksNow, BooksThen, UnindexedNat DEF RewardsInv
  <2> QED BY <1>1, <2>1
<1>2. ASSUME NEW side \in Sides, NEW w \in Users, NEW n \in Amounts,
             Enlarge(side, w, n) \/ Reduce(side, w, n)
      PROVE  Outstanding' <= Outstanding
  <2>1. AccrueUsers({w}, held) /\ UNCHANGED minted /\ held \in Holdings
    BY <1>2, HeldIs DEF Enlarge, Reduce, RewardsInv
  <2>2. held' # held /\ \A u \in Users : u # w => \A x \in Sides : held'[x][u] = held[x][u]
    BY <1>2, OneHeld
  <2>3. Rewarding
    BY <1>1, <2>2 DEF Unannounced
  <2>4. Indexes /\ \A u \in Users : IF u \in {w} THEN PaidFor(u, held) ELSE Unpaid(u)
    BY <2>1, <2>3, AccrueUsersPays
  <2> QED BY <2>2, <2>4, PaidBound
<1>3. ASSUME NEW w \in Users, AccrueUserMarket(w) PROVE Outstanding' <= Outstanding
  <2>1. /\ AccrueMarket /\ Distribute({w}, held) /\ index' = IndexAfter
        /\ UNCHANGED <<held, minted>> /\ held \in Holdings
    BY <1>3, HeldIs DEF AccrueUserMarket, AccrueMarket, RewardsInv
  <2>2. \A u \in Users : IF u \in {w} THEN PaidFor(u, held) ELSE Unpaid(u)
    BY <2>1, DistributePays
  <2>3. Indexes
    BY <2>1, AccrueMarketIndexes DEF RewardsInv
  <2> QED BY <2>1, <2>2, <2>3, PaidBound
<1>4. ASSUME NEW w \in Users, NEW answer \in Answers, Claim(w, answer)
      PROVE  Outstanding' <= Outstanding
  <2>1. /\ Indexes \/ UNCHANGED market
        /\ \A v \in Users : Unpaid(v) \/ (Indexes /\ PaidFor(v, held))
        /\ UNCHANGED held
    BY <1>4, ClaimPays DEF Claim
  <2>2. CASE Indexes
    BY <2>1, <2>2, PaidBound
  <2>3. CASE ~Indexes
    BY <2>1, <2>3, StillBound
  <2> QED BY <2>2, <2>3
<1>5. ASSUME NEW side \in Sides, NEW s \in Speeds, SetSpeed(side, s)
      PROVE  Outstanding' <= Outstanding
  <2>1. Indexes
    BY <1>5, SetSpeedIndexes, RewardsAssumption DEF RewardsInv
  <2>2. UNCHANGED held /\ \A u \in Users : Unpaid(u)
    BY <1>5, PaidKept DEF SetSpeed
  <2> QED BY <2>1, <2>2, PaidBound
<1>6. ASSUME SetPeridotToken \/ SetPeridottroller \/ UNCHANGED vars
      PROVE  Outstanding' <= Outstanding
  <2>1. UNCHANGED <<market, held, paid>>
    BY <1>6 DEF SetPeridotToken, SetPeridottroller, vars
  <2> QED BY <2>1, PaidKept, StillBound
<1>7. ASSUME Tick PROVE Outstanding' <= Outstanding + Emission
  BY <1>7, TickBound
<1> QED BY <1>1, <1>2, <1>3, <1>4, <1>5, <1>6, <1>7 DEF Next, Unannounced

\* For any users, speeds and amounts: as long as holdings change only in calls that pay for
\* the old ones first, everything users were paid and could claim, with the emission no index
\* has moved by yet, grows by the emission of the time that passes and by nothing else;
\* every rounding of accrue_market and distribute_* is in the market's favour.
THEOREM EmissionBounds == Spec => EmissionBoundsClaims
<1>1. RewardsInv /\ RewardsInv' /\ [Next]_vars =>
        [\/ Unannounced
         \/ Outstanding' <= Outstanding + (IF Tick THEN Emission ELSE 0)]_vars
  BY StepEmission
<1> QED BY <1>1, RewardsInvariant, PTL DEF Spec, EmissionBoundsClaims

-----------------------------------------------------------------------------
(* What was earned is not lost *)

\* A user who is paid for no less than she held.
LEMMA PaidEntitled ==
    ASSUME RewardsInv, RewardsInv', NEW u \in Users, NEW hold \in Holdings, PaidFor(u, hold),
           \A side \in Sides : held[side][u] <= hold[side][u]
    PROVE  Entitlement(u) <= Entitlement(u)'
  BY PaidWorth

\* A user who is not paid and holds no less than before.
LEMMA UnpaidEntitled ==
    ASSUME RewardsInv, RewardsInv', NEW u \in Users, Unpaid(u),
           index' = IndexAfter \/ index' = index,
           \A side \in Sides : held[side][u] <= held'[side][u]
    PROVE  Entitlement(u) <= Entitlement(u)'
<1>1. CASE index' = IndexAfter
  <2> DEFINE x == [side \in Sides |-> Delta(side, Total(side))]
  <2>1. x \in [Sides -> Nat] /\ \A side \in Sides : index'[side] = index[side] + x[side]
    BY <1>1, IndexGrows DEF RewardsInv
  <2> HIDE DEF x
  <2> QED BY <2>1, UnpaidWorth
<1>2. CASE index' = index
  <2> DEFINE x == [side \in Sides |-> 0]
  <2>1. x \in [Sides -> Nat] /\ \A side \in Sides : index'[side] = index[side] + x[side]
    BY <1>2 DEF RewardsInv, TypeOK
  <2> HIDE DEF x
  <2> QED BY <2>1, UnpaidWorth
<1> QED BY <1>1, <1>2

LEMMA StepEntitlement ==
    ASSUME RewardsInv, RewardsInv', [Next]_vars, NEW u \in Users, ~GivesUp(u)
    PROVE  Entitlement(u) <= Entitlement(u)'
<1>1. held \in Holdings /\ \A x \in Sides : held[x][u] \in Nat /\ held[x][u] <= held[x][u]
  BY HeldIs DEF RewardsInv, TypeOK
<1>2. UNCHANGED market => index' = index
  BY DEF market
<1>3. Indexes => index' = IndexAfter
  BY DEF Indexes
<1>4. ASSUME NEW side \in Sides, NEW w \in Users, NEW n \in Amounts,
             Enlarge(side, w, n) \/ Reduce(side, w, n)
      PROVE  Entitlement(u) <= Entitlement(u)'
  <2>1. AccrueUsers({w}, held) /\ UNCHANGED minted
    BY <1>4 DEF Enlarge, Reduce
  <2>2. /\ u # w => \A x \in Sides : held'[x][u] = held[x][u]
        /\ Enlarge(side, w, n) => \A x \in Sides : held[x][u] <= held'[x][u]
    BY <1>4, OneHeld
  <2>3. \/ Rewarding /\ Indexes /\ (IF u = w THEN PaidFor(u, held) ELSE Unpaid(u))
        \/ ~Rewarding /\ UNCHANGED market /\ Unpaid(u)
    BY <1>1, <2>1, AccrueUsersPays
  <2>4. CASE PaidFor(u, held)
    BY <1>1, <2>4, PaidEntitled
  <2>5. CASE ~PaidFor(u, held)
    <3>1. Unpaid(u) /\ (index' = IndexAfter \/ index' = index)
      BY <1>2, <1>3, <2>3, <2>5
    <3>2. \A x \in Sides : held[x][u] <= held'[x][u]
      <4>1. CASE u # w
        BY <1>1, <2>2, <4>1
      <4>2. CASE u = w
        <5>1. ~Rewarding
          BY <2>3, <2>5, <4>2
        <5>2. ~Reduce(side, w, n)
          BY <4>2, <5>1 DEF GivesUp
        <5> QED BY <1>4, <2>2, <5>2
      <4> QED BY <4>1, <4>2
    <3> QED BY <3>1, <3>2, UnpaidEntitled
  <2> QED BY <2>4, <2>5
<1>5. ASSUME NEW v \in Users, NEW w \in Users, NEW n \in Amounts, Transfer(v, w, n)
      PROVE  Entitlement(u) <= Entitlement(u)'
  <2>1. /\ v # w /\ MayLeave("supply", v, n) /\ held' = Moved(v, w, n)
        /\ AccrueUsers({v, w}, Moved(v, w, n)) /\ UNCHANGED minted
    BY <1>5 DEF Transfer
  <2>2. u # v
    BY <1>5 DEF GivesUp
  <2>3. n \in Nat
    BY RewardsAssumption
  <2>4. /\ held' \in Holdings /\ held'["borrow"] = held["borrow"]
        /\ held'["supply"][u] = IF u = w THEN held["supply"][u] + n ELSE held["supply"][u]
    BY <2>1, <2>2, <2>3, MovedType DEF RewardsInv
  <2>5. held["supply"][u] <= held'["supply"][u] /\ held["borrow"][u] <= held'["borrow"][u]
    BY <1>1, <2>3, <2>4, BothSides
  <2>6. \A x \in Sides : held[x][u] <= held'[x][u]
    BY <2>5 DEF Sides
  <2>7. \/ Indexes /\ (PaidFor(u, Moved(v, w, n)) \/ Unpaid(u))
        \/ UNCHANGED market /\ Unpaid(u)
    BY <2>1, <2>4, AccrueUsersPays
  <2>8. CASE PaidFor(u, Moved(v, w, n))
    BY <2>1, <2>4, <2>6, <2>8, PaidEntitled
  <2>9. CASE Unpaid(u)
    BY <1>2, <1>3, <2>6, <2>7, <2>9, UnpaidEntitled
  <2> QED BY <2>7, <2>8, <2>9
<1>6. ASSUME NEW v \in Users, NEW w \in Users, NEW n \in {0} \cup Amounts,
             NEW k \in {0} \cup Amounts, Liquidate(v, w, n, k)
      PROVE  Entitlement(u) <= Entitlement(u)'
  <2>1. u # v
    BY <1>6 DEF GivesUp
  <2>2. n \in Nat /\ k \in Nat
    BY RewardsAssumption
  <2>3. \A x \in Sides : held[x][u] <= held'[x][u]
    BY <1>6, <2>1, <2>2, LiquidatedHeld
  <2>4. Unpaid(u) /\ index' = index
    BY <1>2, <1>6, PaidKept DEF Liquidate
  <2> QED BY <2>3, <2>4, UnpaidEntitled
<1>7. ASSUME NEW n \in 1..MaxInterest, InterestAccrues(n)
      PROVE  Entitlement(u) <= Entitlement(u)'
  <2>1. n \in Nat
    BY RewardsAssumption
  <2>2. \A x \in Sides : held[x][u] <= held'[x][u]
    BY <1>7, <2>1, InterestHeld
  <2>3. Unpaid(u) /\ index' = index
    BY <1>2, <1>7, PaidKept DEF InterestAccrues
  <2> QED BY <2>2, <2>3, UnpaidEntitled
<1>8. ASSUME UNCHANGED held,
             \/ Unpaid(u) /\ (index' = IndexAfter \/ index' = index)
             \/ PaidFor(u, held)
      PROVE  Entitlement(u) <= Entitlement(u)'
  <2>1. \A x \in Sides : held[x][u] <= held'[x][u]
    BY <1>1, <1>8
  <2>2. CASE PaidFor(u, held)
    BY <1>1, <2>2, PaidEntitled
  <2>3. CASE Unpaid(u) /\ (index' = IndexAfter \/ index' = index)
    BY <2>1, <2>3, UnpaidEntitled
  <2> QED BY <1>8, <2>2, <2>3
<1>9. ASSUME NEW w \in Users, AccrueUserMarket(w)
      PROVE  Entitlement(u) <= Entitlement(u)'
  <2>1. /\ Distribute({w}, held) /\ index' = IndexAfter /\ UNCHANGED <<held, minted>>
    BY <1>9 DEF AccrueUserMarket, AccrueMarket
  <2>2. PaidFor(u, held) \/ Unpaid(u)
    BY <1>1, <2>1, DistributePays
  <2> QED BY <1>8, <2>1, <2>2
<1>10. ASSUME NEW w \in Users, NEW answer \in Answers, Claim(w, answer)
       PROVE  Entitlement(u) <= Entitlement(u)'
  <2>1. /\ Indexes \/ UNCHANGED market
        /\ Unpaid(u) \/ PaidFor(u, held)
        /\ UNCHANGED held
    BY <1>10, ClaimPays DEF Claim
  <2> QED BY <1>2, <1>3, <1>8, <2>1
<1>11. ASSUME NEW side \in Sides, NEW s \in Speeds, SetSpeed(side, s)
       PROVE  Entitlement(u) <= Entitlement(u)'
  <2>1. index' = IndexAfter /\ UNCHANGED held /\ Unpaid(u)
    BY <1>11, PaidKept DEF SetSpeed
  <2> QED BY <1>8, <2>1
<1>12. ASSUME SetPeridotToken \/ SetPeridottroller \/ Tick \/ UNCHANGED vars
       PROVE  Entitlement(u) <= Entitlement(u)'
  <2>1. index' = index /\ UNCHANGED <<held, paid>>
    BY <1>12 DEF SetPeridotToken, SetPeridottroller, Tick, vars, market
  <2> QED BY <1>8, <2>1, PaidKept
<1> QED BY <1>4, <1>5, <1>6, <1>7, <1>9, <1>10, <1>11, <1>12 DEF Next

\* For any users, speeds and amounts: no claim that fails, no call of a user's own and none
\* of another's takes from what a user was paid and could claim, unless she gives pTokens
\* away, is liquidated, or withdraws or repays while no rewards are kept.
THEOREM EarningsKept == Spec => EntitlementKept
<1>1. ASSUME RewardsInv, RewardsInv', [Next]_vars
      PROVE  \A u \in Users : GivesUp(u) \/ Entitlement(u)' >= Entitlement(u)
  <2>1. ASSUME NEW u \in Users, ~GivesUp(u) PROVE Entitlement(u)' >= Entitlement(u)
    <3>1. Entitlement(u) <= Entitlement(u)'
      BY <1>1, <2>1, StepEntitlement
    <3> QED BY <3>1
  <2> QED BY <2>1
<1>2. RewardsInv /\ RewardsInv' /\ [Next]_vars =>
        [\A u \in Users : GivesUp(u) \/ Entitlement(u)' >= Entitlement(u)]_vars
  BY <1>1
<1> QED BY <1>2, RewardsInvariant, PTL DEF Spec, EntitlementKept

-----------------------------------------------------------------------------
(* New liquidators *)

LEMMA LiquidatorStarts ==
    ASSUME RewardsInv, RewardsInv', NEW u \in Users, NEW v \in Users, NEW n \in Nat,
           NEW k \in Nat, Liquidate(u, v, n, k), userIndex["supply"][v] = Unset
    PROVE  Entitlement(v)' <= Entitlement(v)
<1>1. u # v /\ UNCHANGED <<market, paid>>
  BY DEF Liquidate
<1>2. held'["borrow"][v] = held["borrow"][v]
  BY <1>1, LiquidatedHeld
<1>3. UNCHANGED <<index, userIndex, accrued, minted>>
  BY <1>1 DEF market, paid
<1>4. Pending("borrow", v)' = Pending("borrow", v)
  BY <1>2, <1>3 DEF Pending, PaidUpTo
<1>5. /\ PaidUpTo("supply", v, index["supply"]) = index["supply"]
      /\ PaidUpTo("supply", v, index["supply"])' = index'["supply"]
  BY <1>3 DEF PaidUpTo
<1>6. /\ held["supply"][v] \in Nat /\ held'["supply"][v] \in Nat
      /\ index["supply"] \in Nat /\ index'["supply"] \in Nat
  BY BothSides DEF RewardsInv, TypeOK
<1>7. Pending("supply", v) = 0 /\ Pending("supply", v)' = 0
  BY <1>5, <1>6 DEF Pending
<1>8. Entitlement(v)' = Entitlement(v)
  BY <1>3, <1>4, <1>7 DEF Entitlement
<1>9. Entitlement(v) \in Nat
  <2>1. /\ minted[v] + accrued[v] \in Nat
        /\ Pending("supply", v) \in Nat /\ Pending("borrow", v) \in Nat
    BY WorthNat, PendingNat, BothSides
  <2>2. /\ Pending("supply", v) \div Scale \in Nat /\ Pending("borrow", v) \div Scale \in Nat
    BY <2>1, RewardsAssumption, DivNat
  <2> QED BY <2>1, <2>2 DEF Entitlement
<1> QED BY <1>8, <1>9

\* For any users and amounts: a liquidator who was never paid supply rewards here is owed
\* nothing more for the pTokens he seizes than he was before.
THEOREM LiquidatorsStartNow == Spec => NewLiquidatorsStartNow
<1>1. ASSUME RewardsInv, RewardsInv'
      PROVE  \A u, v \in Users, n, k \in {0} \cup Amounts :
                Liquidate(u, v, n, k) /\ userIndex["supply"][v] = Unset
                    => Entitlement(v)' <= Entitlement(v)
  <2>1. {0} \cup Amounts \subseteq Nat
    BY RewardsAssumption
  <2> QED BY <1>1, <2>1, LiquidatorStarts
<1>2. RewardsInv /\ RewardsInv' =>
        [\A u, v \in Users, n, k \in {0} \cup Amounts :
            Liquidate(u, v, n, k) /\ userIndex["supply"][v] = Unset
                => Entitlement(v)' <= Entitlement(v)]_vars
  BY <1>1
<1>3. RewardsInv /\ [Next]_vars => RewardsInv'
  BY StepType
<1> QED BY <1>2, <1>3, RewardsInvariant, PTL DEF Spec, NewLiquidatorsStartNow

=============================================================================
