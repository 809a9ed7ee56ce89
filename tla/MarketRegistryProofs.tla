----------------------- MODULE MarketRegistryProofs -----------------------
(***************************************************************************)
(* Proofs about the registry: its types, the counts of entrants, the       *)
(* visibility of every debt, the token allowlist and the ownership of      *)
(* boosted vaults, for any markets, users, tokens and durations.           *)
(***************************************************************************)
EXTENDS MarketRegistry, FiniteSetTheorems, TLAPS

-----------------------------------------------------------------------------
(* Types *)

LEMMA AgedType ==
    ASSUME NEW n \in Nat, NEW left \in 0..n, NEW m
    PROVE  Aged(left, m) \in 0..n
  BY DEF Aged

LEMMA AgedPauseType ==
    ASSUME NEW left \in PauseTimes, NEW m
    PROVE  Aged(left, m) \in PauseTimes
  BY RegistryAssumption DEF Aged, PauseTimes, Endless

LEMMA PausesAfterType ==
    ASSUME TypeOK, NEW kind \in PauseKinds, NEW m \in Markets, NEW paused \in BOOLEAN
    PROVE  PausesAfter(kind, m, paused) \in [PauseKinds -> [Markets -> PauseTimes]]
<1>1. 0 \in PauseTimes /\ PauseDuration + 1 \in PauseTimes
  BY RegistryAssumption DEF PauseTimes
<1>2. ASSUME NEW k \in PauseKinds
      PROVE  [pause[k] EXCEPT ![m] = IF paused THEN PauseDuration + 1 ELSE 0]
                 \in [Markets -> PauseTimes]
  BY <1>1 DEF TypeOK
<1> QED BY <1>2 DEF PausesAfter, TypeOK

LEMMA TickType == ASSUME TypeOK, Tick PROVE TypeOK'
<1>1. pause' \in [PauseKinds -> [Markets -> PauseTimes]]
  BY AgedPauseType DEF TypeOK, Tick
<1>2. proof' \in [Markets -> 0..(ProofAge + 1)]
  BY AgedType, RegistryAssumption DEF TypeOK, Tick
<1> QED BY <1>1, <1>2 DEF TypeOK, Tick, boosting, positions

LEMMA MigrationType ==
    ASSUME TypeOK, NEW limit \in Limits, MigrateLegacyPauses(limit)
    PROVE  TypeOK'
<1> DEFINE total == Cardinality(supported)
           next == IF migration.cursor >= total THEN total
                   ELSE IF migration.cursor + limit <= total
                        THEN migration.cursor + limit ELSE total
<1>1. total \in Nat
  BY RegistryAssumption, FS_Subset, FS_CardinalityType DEF TypeOK
<1>2. migration.cursor \in Nat /\ limit \in Nat
  BY RegistryAssumption DEF TypeOK
<1>3. next \in Nat
  BY <1>1, <1>2
<1>4. migration' = [cursor |-> next, done |-> next >= total]
  BY DEF MigrateLegacyPauses
<1>5. migration' \in [cursor : Nat, done : BOOLEAN]
  <2> HIDE DEF next, total
  <2> QED BY <1>3, <1>4
<1>6. pause' \in [PauseKinds -> [Markets -> PauseTimes]]
  <2>1. PauseDuration + 1 \in PauseTimes
    BY RegistryAssumption DEF PauseTimes
  <2> HIDE DEF next, total
  <2>2. pause' = [k \in PauseKinds |-> [m \in Markets |->
                     IF m \in supported /\ InBatch(m, migration.cursor, next)
                        /\ pause[k][m] = Endless
                     THEN PauseDuration + 1 ELSE pause[k][m]]]
    BY DEF MigrateLegacyPauses, next, total
  <2> QED BY <2>1, <2>2 DEF TypeOK
<1>7. UNCHANGED <<supported, tokens, underlying, entered, counts, proof,
                  owner, boosted, holders, debtors>>
  BY DEF MigrateLegacyPauses, registry, boosting, positions
<1> QED BY <1>5, <1>6, <1>7 DEF TypeOK

LEMMA PauseStepType ==
    ASSUME TypeOK, NEW kind \in UsedPauses, NEW m \in Markets, NEW paused \in BOOLEAN,
           pause' = PausesAfter(kind, m, paused),
           UNCHANGED <<registry, migration, boosting, positions>>
    PROVE  TypeOK'
<1>1. kind \in PauseKinds
  BY RegistryAssumption
<1>2. pause' \in [PauseKinds -> [Markets -> PauseTimes]]
  BY <1>1, PausesAfterType
<1>3. UNCHANGED <<supported, tokens, underlying, entered, counts, migration, proof,
                  owner, boosted, holders, debtors>>
  BY DEF registry, boosting, positions
<1> QED BY <1>2, <1>3 DEF TypeOK

LEMMA ListedTypes ==
    ASSUME TypeOK, NEW m \in Markets
    PROVE  supported \subseteq Markets /\ tokens \subseteq Tokens /\ TokenOf[m] \in Tokens
<1>1. TokenOf[m] \in Tokens
  BY RegistryAssumption
<1> QED BY <1>1 DEF TypeOK

LEMMA ProofSetType ==
    ASSUME TypeOK, NEW m \in Markets
    PROVE  /\ [proof EXCEPT ![m] = 0] \in [Markets -> 0..(ProofAge + 1)]
           /\ [proof EXCEPT ![m] = ProofAge + 1] \in [Markets -> 0..(ProofAge + 1)]
  BY RegistryAssumption DEF TypeOK

LEMMA ForcedIsRemoval ==
    ASSUME NEW m, NEW token, ForceRemoveMarket(m, token)
    PROVE  RemoveMarket(m)
  BY DEF ForceRemoveMarket, RemoveMarket

\* What any removal does, whoever answers.
LEMMA RemovalStep ==
    ASSUME NEW m, RemoveMarket(m)
    PROVE  /\ m \in supported /\ counts[m] = 0 /\ supported' = supported \ {m}
           /\ proof' = [proof EXCEPT ![m] = 0]
           /\ UNCHANGED <<entered, counts, pausing, boosting, positions>>
           /\ \E answers \in SUBSET supported :
                /\ tokens' = TokensWithout(m, answers)
                /\ underlying' = (underlying \ {m}) \cup Cached(m, answers)
  BY DEF RemoveMarket, Delist, ApplyMarketRemoval

LEMMA RemovalType ==
    ASSUME TypeOK, NEW m \in Markets, RemoveMarket(m)
    PROVE  TypeOK'
<1>1. PICK answers \in SUBSET supported :
        /\ tokens' = TokensWithout(m, answers)
        /\ underlying' = (underlying \ {m}) \cup Cached(m, answers)
  BY RemovalStep
<1>2. supported' = supported \ {m} /\ supported' \subseteq Markets
  BY RemovalStep, ListedTypes
<1>3. tokens' \subseteq Tokens
  BY <1>1, ListedTypes DEF TokensWithout
<1>4. underlying' \subseteq supported'
  BY <1>1, <1>2 DEF Cached, TypeOK
<1>5. proof' \in [Markets -> 0..(ProofAge + 1)]
  BY ProofSetType, RemovalStep
<1> QED BY <1>2, <1>3, <1>4, <1>5, RemovalStep DEF TypeOK, pausing, boosting, positions

LEMMA AdminType ==
    ASSUME TypeOK, NEW m \in Markets, Admin(m)
    PROVE  TypeOK'
<1>1. CASE AddMarket(m)
  <2>1. supported' \subseteq Markets /\ tokens' \subseteq Tokens /\ underlying' \subseteq supported'
    BY <1>1, ListedTypes DEF AddMarket, TypeOK
  <2>2. proof' \in [Markets -> 0..(ProofAge + 1)]
    BY <1>1, ProofSetType DEF AddMarket
  <2> QED BY <1>1, <2>1, <2>2 DEF AddMarket, TypeOK, pausing, boosting, positions
<1>2. CASE VerifyMarketZeroTotals(m)
  <2>1. proof' \in [Markets -> 0..(ProofAge + 1)]
    BY <1>2, ProofSetType DEF VerifyMarketZeroTotals
  <2> QED BY <1>2, <2>1 DEF VerifyMarketZeroTotals, TypeOK, pausing, boosting, positions
<1>3. CASE RemoveMarket(m)
  BY <1>3, RemovalType
<1>4. CASE \E token \in Tokens : ForceRemoveMarket(m, token)
  BY <1>4, RemovalType, ForcedIsRemoval
<1>5. CASE \E kind \in UsedPauses, paused \in BOOLEAN : SetPause(kind, m, paused)
  BY <1>5, PauseStepType DEF SetPause
<1>6. CASE \E kind \in UsedPauses : GuardianPause(kind, m)
  BY <1>6, PauseStepType DEF GuardianPause
<1>7. CASE \E new \in BoostedVaults : SetBoostedVault(m, new)
  BY <1>7 DEF SetBoostedVault, TypeOK, registry, pausing, positions
<1> QED BY <1>1, <1>2, <1>3, <1>4, <1>5, <1>6, <1>7 DEF Admin

LEMMA UserType ==
    ASSUME TypeOK, NEW u \in Users, NEW m \in Markets, User(u, m)
    PROVE  TypeOK'
<1>1. CASE EnterMarket(u, m)
  BY <1>1 DEF EnterMarket, TypeOK, pausing, boosting, positions
<1>2. CASE ExitMarket(u, m)
  BY <1>2 DEF ExitMarket, TypeOK, pausing, boosting, positions
<1>3. CASE Deposit(u, m)
  BY <1>3 DEF Deposit, TypeOK, registry, pausing, boosting
<1>4. CASE WithdrawAll(u, m)
  BY <1>4 DEF WithdrawAll, TypeOK, registry, pausing, boosting
<1>5. CASE Borrow(u, m)
  BY <1>5 DEF Borrow, TypeOK, registry, pausing, boosting
<1>6. CASE RepayAll(u, m)
  BY <1>6 DEF RepayAll, TypeOK, registry, pausing, boosting
<1>7. CASE \E to \in Users, all \in BOOLEAN : Transfer(u, to, m, all)
  BY <1>7 DEF Transfer, TypeOK, registry, pausing, boosting
<1>8. CASE \E liquidator, recipient \in Users, collateralMarket \in Markets, all \in BOOLEAN :
               Liquidate(u, liquidator, recipient, m, collateralMarket, all)
  BY <1>8 DEF Liquidate, TypeOK, registry, pausing, boosting
<1> QED BY <1>1, <1>2, <1>3, <1>4, <1>5, <1>6, <1>7, <1>8 DEF User

\* The variables keep their types: no pause with an expiry outlasts MAX_PAUSE_DURATION_SECS and no
\* count goes below zero, for any interleaving of admin, guardian and users.
THEOREM TypeCorrect == Spec => []TypeOK
<1>1. Init => TypeOK
  <2> SUFFICES ASSUME Init PROVE TypeOK
    OBVIOUS
  <2>1. supported \subseteq Markets /\ tokens \subseteq Tokens /\ underlying \subseteq supported
    BY RegistryAssumption DEF Init
  <2>2. {0, Endless} \subseteq PauseTimes
    BY RegistryAssumption DEF PauseTimes
  <2>3. pause \in [PauseKinds -> [Markets -> PauseTimes]]
    BY <2>2 DEF Init
  <2>4. migration \in [cursor : Nat, done : BOOLEAN]
    BY DEF Init
  <2> QED BY <2>1, <2>3, <2>4, RegistryAssumption DEF Init, TypeOK
<1>2. TypeOK /\ [Next]_vars => TypeOK'
  <2> SUFFICES ASSUME TypeOK, [Next]_vars PROVE TypeOK'
    OBVIOUS
  <2>1. CASE Next
    BY <2>1, TickType, AdminType, MigrationType, UserType DEF Next
  <2>2. CASE UNCHANGED vars
    BY <2>2 DEF vars, registry, pausing, boosting, positions, TypeOK
  <2> QED BY <2>1, <2>2
<1> QED BY <1>1, <1>2, PTL DEF Spec

-----------------------------------------------------------------------------
(* Entrants *)

Entrants(m) == {u \in Users : m \in entered[u]}

LEMMA EntrantsFinite == \A m \in Markets : IsFiniteSet(Entrants(m))
  BY RegistryAssumption, FS_Subset DEF Entrants

\* One user more, in one market.
LEMMA EnterCounts ==
    ASSUME TypeOK, CountsMatchEntrants, NEW u \in Users, NEW m \in Markets, EnterMarket(u, m)
    PROVE  CountsMatchEntrants'
<1> SUFFICES ASSUME NEW n \in Markets PROVE counts'[n] = Cardinality(Entrants(n)')
  BY DEF CountsMatchEntrants, Entrants
<1>1. counts[n] = Cardinality(Entrants(n))
  BY DEF CountsMatchEntrants, Entrants
<1>2. CASE n = m
  <2>1. Entrants(n)' = Entrants(n) \cup {u} /\ u \notin Entrants(n)
    BY <1>2 DEF EnterMarket, Entrants, TypeOK
  <2>2. Cardinality(Entrants(n) \cup {u}) = Cardinality(Entrants(n)) + 1
    BY <2>1, EntrantsFinite, FS_AddElement
  <2>3. counts'[n] = counts[n] + 1
    BY <1>2 DEF EnterMarket, TypeOK
  <2> QED BY <1>1, <2>1, <2>2, <2>3
<1>3. CASE n # m
  <2>1. Entrants(n)' = Entrants(n)
    BY <1>3 DEF EnterMarket, Entrants, TypeOK
  <2>2. counts'[n] = counts[n]
    BY <1>3 DEF EnterMarket, TypeOK
  <2> QED BY <1>1, <2>1, <2>2
<1> QED BY <1>2, <1>3

\* One user less, in one market.
LEMMA ExitCounts ==
    ASSUME TypeOK, CountsMatchEntrants, NEW u \in Users, NEW m \in Markets, ExitMarket(u, m)
    PROVE  CountsMatchEntrants'
<1> SUFFICES ASSUME NEW n \in Markets PROVE counts'[n] = Cardinality(Entrants(n)')
  BY DEF CountsMatchEntrants, Entrants
<1>1. counts[n] = Cardinality(Entrants(n))
  BY DEF CountsMatchEntrants, Entrants
<1>2. CASE n = m
  <2>1. Entrants(n)' = Entrants(n) \ {u} /\ u \in Entrants(n)
    BY <1>2 DEF ExitMarket, Entrants, TypeOK
  <2>2. Cardinality(Entrants(n) \ {u}) = Cardinality(Entrants(n)) - 1
    BY <2>1, EntrantsFinite, FS_RemoveElement
  <2>3. counts[n] \in Nat /\ counts[n] # 0
    BY <1>1, <2>1, EntrantsFinite, FS_EmptySet DEF TypeOK
  <2>4. counts'[n] = IF counts[n] <= 1 THEN 0 ELSE counts[n] - 1
    BY <1>2 DEF ExitMarket, TypeOK
  <2>5. counts'[n] = counts[n] - 1
    BY <2>3, <2>4
  <2> QED BY <1>1, <2>1, <2>2, <2>5
<1>3. CASE n # m
  <2>1. Entrants(n)' = Entrants(n)
    BY <1>3 DEF ExitMarket, Entrants, TypeOK
  <2>2. counts'[n] = counts[n]
    BY <1>3 DEF ExitMarket, TypeOK
  <2> QED BY <1>1, <2>1, <2>2
<1> QED BY <1>2, <1>3

\* A market that counts nobody is in nobody's list.
LEMMA NobodyCounted ==
    ASSUME CountsMatchEntrants, NEW m \in Markets, counts[m] = 0
    PROVE  \A u \in Users : m \notin entered[u]
<1>1. Cardinality(Entrants(m)) = 0
  BY DEF CountsMatchEntrants, Entrants
<1>2. Entrants(m) = {}
  BY <1>1, EntrantsFinite, FS_EmptySet
<1> QED BY <1>2 DEF Entrants

-----------------------------------------------------------------------------
(* Counts, entered markets and debts *)

\* What the visibility of debts rests on: it cannot be kept without the markets
\* in users' lists staying supported, nor these without the counts being exact.
VisibilityInv == CountsMatchEntrants /\ EnteredAreSupported /\ DebtsAreVisible

\* Steps that enter, leave, delist and lend nothing.
Quiet ==
    /\ UNCHANGED <<entered, counts>>
    /\ supported \subseteq supported'
    /\ \A m \in Markets : debtors'[m] \subseteq debtors[m]

LEMMA QuietKeeps == ASSUME VisibilityInv, Quiet PROVE VisibilityInv'
<1>1. CountsMatchEntrants'
  BY DEF VisibilityInv, CountsMatchEntrants, Quiet
<1>2. EnteredAreSupported'
  BY DEF VisibilityInv, EnteredAreSupported, Quiet
<1>3. DebtsAreVisible'
  BY DEF VisibilityInv, DebtsAreVisible, Quiet
<1> QED BY <1>1, <1>2, <1>3 DEF VisibilityInv

LEMMA EnterKeeps ==
    ASSUME TypeOK, VisibilityInv, NEW u \in Users, NEW m \in Markets, EnterMarket(u, m)
    PROVE  VisibilityInv'
<1>1. CountsMatchEntrants'
  BY EnterCounts DEF VisibilityInv
<1>2. m \in supported /\ UNCHANGED <<supported, debtors>>
      /\ \A v \in Users : entered'[v] = IF v = u THEN entered[v] \cup {m} ELSE entered[v]
  BY DEF EnterMarket, TypeOK, positions
<1>3. EnteredAreSupported'
  BY <1>2 DEF VisibilityInv, EnteredAreSupported
<1>4. DebtsAreVisible'
  BY <1>2 DEF VisibilityInv, DebtsAreVisible, TypeOK
<1> QED BY <1>1, <1>3, <1>4 DEF VisibilityInv

LEMMA ExitKeeps ==
    ASSUME TypeOK, VisibilityInv, NEW u \in Users, NEW m \in Markets, ExitMarket(u, m)
    PROVE  VisibilityInv'
<1>1. CountsMatchEntrants'
  BY ExitCounts DEF VisibilityInv
<1>2. u \notin debtors[m] /\ UNCHANGED <<supported, debtors>>
      /\ \A v \in Users : entered'[v] = IF v = u THEN entered[v] \ {m} ELSE entered[v]
  BY DEF ExitMarket, TypeOK, positions
<1>3. EnteredAreSupported'
  BY <1>2 DEF VisibilityInv, EnteredAreSupported
<1>4. DebtsAreVisible'
  BY <1>2 DEF VisibilityInv, DebtsAreVisible, TypeOK
<1> QED BY <1>1, <1>3, <1>4 DEF VisibilityInv

LEMMA RemovalKeeps ==
    ASSUME TypeOK, VisibilityInv, NEW m \in Markets, RemoveMarket(m)
    PROVE  VisibilityInv'
<1>1. UNCHANGED <<entered, counts, debtors>> /\ supported' = supported \ {m}
  BY RemovalStep DEF positions
<1>2. \A u \in Users : m \notin entered[u]
  BY NobodyCounted, RemovalStep DEF VisibilityInv
<1>3. CountsMatchEntrants'
  BY <1>1 DEF VisibilityInv, CountsMatchEntrants
<1>4. EnteredAreSupported'
  BY <1>1, <1>2 DEF VisibilityInv, EnteredAreSupported
<1>5. DebtsAreVisible'
  BY <1>1, <1>2 DEF VisibilityInv, DebtsAreVisible, TypeOK
<1> QED BY <1>3, <1>4, <1>5 DEF VisibilityInv

LEMMA BorrowKeeps ==
    ASSUME TypeOK, VisibilityInv, NEW u \in Users, NEW m \in Markets, Borrow(u, m)
    PROVE  VisibilityInv'
<1>1. m \in entered[u] /\ UNCHANGED <<entered, counts, supported>>
      /\ \A n \in Markets : debtors'[n] = IF n = m THEN debtors[n] \cup {u} ELSE debtors[n]
  BY DEF Borrow, BorrowAllowed, registry, TypeOK
<1>2. CountsMatchEntrants'
  BY <1>1 DEF VisibilityInv, CountsMatchEntrants
<1>3. EnteredAreSupported'
  BY <1>1 DEF VisibilityInv, EnteredAreSupported
<1>4. DebtsAreVisible'
  BY <1>1 DEF VisibilityInv, DebtsAreVisible, EnteredAreSupported
<1> QED BY <1>2, <1>3, <1>4 DEF VisibilityInv

LEMMA AdminKeeps ==
    ASSUME TypeOK, VisibilityInv, NEW m \in Markets, Admin(m)
    PROVE  VisibilityInv'
<1>1. CASE AddMarket(m)
  BY <1>1, QuietKeeps DEF AddMarket, Quiet, positions
<1>2. CASE VerifyMarketZeroTotals(m)
  BY <1>2, QuietKeeps DEF VerifyMarketZeroTotals, Quiet, positions
<1>3. CASE RemoveMarket(m)
  BY <1>3, RemovalKeeps
<1>4. CASE \E token \in Tokens : ForceRemoveMarket(m, token)
  BY <1>4, RemovalKeeps, ForcedIsRemoval
<1>5. CASE \E kind \in UsedPauses, paused \in BOOLEAN : SetPause(kind, m, paused)
  BY <1>5, QuietKeeps DEF SetPause, Quiet, registry, positions
<1>6. CASE \E kind \in UsedPauses : GuardianPause(kind, m)
  BY <1>6, QuietKeeps DEF GuardianPause, Quiet, registry, positions
<1>7. CASE \E new \in BoostedVaults : SetBoostedVault(m, new)
  BY <1>7, QuietKeeps DEF SetBoostedVault, Quiet, registry, positions
<1> QED BY <1>1, <1>2, <1>3, <1>4, <1>5, <1>6, <1>7 DEF Admin

LEMMA UserKeeps ==
    ASSUME TypeOK, VisibilityInv, NEW u \in Users, NEW m \in Markets, User(u, m)
    PROVE  VisibilityInv'
<1>1. CASE EnterMarket(u, m)
  BY <1>1, EnterKeeps
<1>2. CASE ExitMarket(u, m)
  BY <1>2, ExitKeeps
<1>3. CASE Deposit(u, m)
  BY <1>3, QuietKeeps DEF Deposit, Quiet, registry
<1>4. CASE WithdrawAll(u, m)
  BY <1>4, QuietKeeps DEF WithdrawAll, Quiet, registry
<1>5. CASE Borrow(u, m)
  BY <1>5, BorrowKeeps
<1>6. CASE RepayAll(u, m)
  BY <1>6, QuietKeeps DEF RepayAll, Quiet, registry, TypeOK
<1>7. CASE \E to \in Users, all \in BOOLEAN : Transfer(u, to, m, all)
  BY <1>7, QuietKeeps DEF Transfer, Quiet, registry
<1>8. CASE \E liquidator, recipient \in Users, collateralMarket \in Markets, all \in BOOLEAN :
               Liquidate(u, liquidator, recipient, m, collateralMarket, all)
  BY <1>8, QuietKeeps DEF Liquidate, Quiet, registry
<1> QED BY <1>1, <1>2, <1>3, <1>4, <1>5, <1>6, <1>7, <1>8 DEF User

\* The counts, the entered markets and the debts hold together through every step of
\* the registry: the inductive invariant behind the next two theorems.
THEOREM VisibilityKept == Spec => []VisibilityInv
<1>1. Init => VisibilityInv
  <2> SUFFICES ASSUME Init PROVE VisibilityInv
    OBVIOUS
  <2>1. CountsMatchEntrants
    BY FS_EmptySet DEF Init, CountsMatchEntrants
  <2>2. EnteredAreSupported /\ DebtsAreVisible
    BY DEF Init, EnteredAreSupported, DebtsAreVisible
  <2> QED BY <2>1, <2>2 DEF VisibilityInv
<1>2. TypeOK /\ VisibilityInv /\ [Next]_vars => VisibilityInv'
  <2> SUFFICES ASSUME TypeOK, VisibilityInv, [Next]_vars PROVE VisibilityInv'
    OBVIOUS
  <2>1. CASE Tick
    BY <2>1, QuietKeeps DEF Tick, Quiet, positions
  <2>2. CASE \E m \in Markets : Admin(m)
    BY <2>2, AdminKeeps
  <2>3. CASE \E limit \in Limits : MigrateLegacyPauses(limit)
    BY <2>3, QuietKeeps DEF MigrateLegacyPauses, Quiet, registry, positions
  <2>4. CASE \E u \in Users, m \in Markets : User(u, m)
    BY <2>4, UserKeeps
  <2>5. CASE UNCHANGED vars
    BY <2>5, QuietKeeps DEF vars, registry, positions, Quiet
  <2> QED BY <2>1, <2>2, <2>3, <2>4, <2>5 DEF Next
<1> QED BY <1>1, <1>2, TypeCorrect, PTL DEF Spec

\* MarketUserCounts is exact for any number of users and markets.
THEOREM CountsExact == Spec => []CountsMatchEntrants
<1>1. VisibilityInv => CountsMatchEntrants
  BY DEF VisibilityInv
<1> QED BY <1>1, VisibilityKept, PTL

\* Every debt is in a market that its borrower has entered and that is supported:
\* account liquidity and liquidation never miss one.
THEOREM DebtsStayVisible == Spec => []DebtsAreVisible
<1>1. VisibilityInv => DebtsAreVisible
  BY DEF VisibilityInv
<1> QED BY <1>1, VisibilityKept, PTL

-----------------------------------------------------------------------------
(* The token allowlist *)

\* A token that stays without a market is one that a market, whose own token is unknown,
\* may have: the scan did not get past that market, and so did not learn its token.
LEMMA RemovalTokens ==
    ASSUME TypeOK, Listed \subseteq tokens, NEW m \in Markets, RemoveMarket(m)
    PROVE  /\ Listed' \subseteq tokens'
           /\ \A t \in tokens' \ Listed' :
                t \in tokens \ Listed \/ ~(supported' \subseteq underlying')
<1>1. PICK answers \in SUBSET supported :
        /\ tokens' = TokensWithout(m, answers)
        /\ underlying' = (underlying \ {m}) \cup Cached(m, answers)
  BY RemovalStep
<1>2. m \in supported /\ supported' = supported \ {m}
  BY RemovalStep
<1>3. /\ tokens' \ {TokenOf[m]} = tokens \ {TokenOf[m]}
      /\ TokenOf[m] \in tokens' <=> Settling(m, answers) # {}
  BY <1>1 DEF TokensWithout
<1>4. Listed' \subseteq tokens'
  <2> SUFFICES ASSUME NEW n \in supported \ {m} PROVE TokenOf[n] \in tokens'
    BY <1>2 DEF Listed
  <2>1. TokenOf[n] \in tokens
    BY DEF Listed
  <2>2. TokenOf[n] = TokenOf[m] => n \in Settling(m, answers)
    BY DEF Settling
  <2> QED BY <1>3, <2>1, <2>2
<1>5. ASSUME NEW t \in tokens' \ Listed', supported' \subseteq underlying'
      PROVE  t \in tokens \ Listed
  <2>1. CASE t # TokenOf[m]
    BY <1>2, <1>3, <1>5, <2>1 DEF Listed
  <2>2. CASE t = TokenOf[m]
    <3>1. PICK k \in Settling(m, answers) : TRUE
      BY <1>3, <1>5, <2>2
    <3>2. k \in supported' /\ TokenOf[k] # TokenOf[m]
      BY <1>2, <1>5, <2>2, <3>1 DEF Settling, Listed
    <3>3. k \notin underlying \cup answers
      BY <3>1, <3>2 DEF Settling
    <3>4. k \in underlying'
      BY <1>5, <3>2
    <3> QED BY <1>1, <3>3, <3>4 DEF Cached
  <2> QED BY <2>1, <2>2
<1> QED BY <1>4, <1>5

LEMMA AllowlistStep ==
    ASSUME TypeOK, Listed \subseteq tokens, [Next]_vars
    PROVE  /\ Listed' \subseteq tokens'
           /\ \A t \in tokens' \ Listed' :
                t \in tokens \ Listed \/ ~(supported' \subseteq underlying')
<1>1. CASE \E m \in Markets : AddMarket(m)
  <2>1. PICK m \in Markets : AddMarket(m)
    BY <1>1
  <2>2. Listed' = Listed \cup {TokenOf[m]} /\ tokens' = tokens \cup {TokenOf[m]}
    BY <2>1 DEF AddMarket, Listed
  <2> QED BY <2>2
<1>2. CASE \E m \in Markets : RemoveMarket(m)
  BY <1>2, RemovalTokens
<1>3. CASE UNCHANGED <<supported, tokens>>
  BY <1>3 DEF Listed
<1>4. Tick => UNCHANGED <<supported, tokens>>
  BY DEF Tick
<1>5. \A m \in Markets : Admin(m) =>
          \/ AddMarket(m) \/ RemoveMarket(m) \/ UNCHANGED <<supported, tokens>>
  BY ForcedIsRemoval DEF Admin, VerifyMarketZeroTotals, SetPause, GuardianPause,
         SetBoostedVault, registry
<1>6. \A u \in Users, m \in Markets : User(u, m) => UNCHANGED <<supported, tokens>>
  BY DEF User, EnterMarket, ExitMarket, Deposit, WithdrawAll, Borrow, RepayAll, Transfer,
         Liquidate, registry
<1>7. \A limit \in Limits : MigrateLegacyPauses(limit) => UNCHANGED <<supported, tokens>>
  BY DEF MigrateLegacyPauses, registry
<1>8. UNCHANGED vars => UNCHANGED <<supported, tokens>>
  BY DEF vars, registry
<1> QED BY <1>1, <1>2, <1>3, <1>4, <1>5, <1>6, <1>7, <1>8 DEF Next

\* A listed market's token is never refused, and one without a listed market stays
\* allowed only where the token of a listed one is unknown.
THEOREM AllowlistExact == Spec => AllowlistMatchesMarkets
<1>1. Init => Listed \subseteq tokens
  BY DEF Init, Listed
<1>2. TypeOK /\ (Listed \subseteq tokens) /\ [Next]_vars => (Listed \subseteq tokens)'
  BY AllowlistStep
<1>3. TypeOK /\ (Listed \subseteq tokens) /\ [Next]_vars =>
        [\A t \in tokens' \ Listed' :
            t \in tokens \ Listed \/ ~(supported' \subseteq underlying')]_vars
  BY AllowlistStep
<1> QED BY <1>1, <1>2, <1>3, TypeCorrect, PTL DEF Spec, AllowlistMatchesMarkets

-----------------------------------------------------------------------------
(* Boosted vaults *)

LEMMA BindingKeepsOwners ==
    ASSUME TypeOK, OwnersAreKnown, NEW m \in Markets, NEW new \in BoostedVaults,
           SetBoostedVault(m, new)
    PROVE  OwnersAreKnown'
<1> SUFFICES ASSUME NEW n \in Markets, boosted'[n] # None PROVE owner'[boosted'[n]] = n
  BY DEF OwnersAreKnown
<1>1. CASE n = m
  BY <1>1 DEF SetBoostedVault, TypeOK
<1>2. CASE n # m
  <2>1. boosted'[n] = boosted[n] /\ boosted[n] \in BoostedVaults /\ owner[boosted[n]] = n
    BY <1>2 DEF SetBoostedVault, TypeOK, OwnersAreKnown
  <2>2. n # None
    BY RegistryAssumption
  <2>3. boosted[n] # new
    BY <1>2, <2>1, <2>2 DEF SetBoostedVault, Bindable
  <2>4. boosted[n] # boosted[m]
    BY <1>2, <2>1, <2>2 DEF SetBoostedVault, Bindable
  <2> QED BY <2>1, <2>3, <2>4 DEF SetBoostedVault
<1> QED BY <1>1, <1>2

\* The registry knows the owner of every boosted vault that a market uses, through
\* every binding, delisting and listing again (bind_boosted_vault).
THEOREM OwnersKept == Spec => []OwnersAreKnown
<1>1. Init => OwnersAreKnown
  BY DEF Init, OwnersAreKnown
<1>2. TypeOK /\ OwnersAreKnown /\ [Next]_vars => OwnersAreKnown'
  <2> SUFFICES ASSUME TypeOK, OwnersAreKnown, [Next]_vars PROVE OwnersAreKnown'
    OBVIOUS
  <2>1. CASE \E m \in Markets, new \in BoostedVaults : SetBoostedVault(m, new)
    BY <2>1, BindingKeepsOwners
  <2>2. CASE UNCHANGED <<owner, boosted>>
    BY <2>2 DEF OwnersAreKnown
  <2>3. Tick => UNCHANGED <<owner, boosted>>
    BY DEF Tick, boosting
  <2>4. \A m \in Markets : Admin(m) =>
            \/ \E new \in BoostedVaults : SetBoostedVault(m, new)
            \/ UNCHANGED <<owner, boosted>>
    BY RemovalStep, ForcedIsRemoval DEF Admin, AddMarket, VerifyMarketZeroTotals,
           SetPause, GuardianPause, boosting
  <2>5. \A u \in Users, m \in Markets : User(u, m) => UNCHANGED <<owner, boosted>>
    BY DEF User, EnterMarket, ExitMarket, Deposit, WithdrawAll, Borrow, RepayAll, Transfer,
           Liquidate, boosting
  <2>6. \A limit \in Limits : MigrateLegacyPauses(limit) => UNCHANGED <<owner, boosted>>
    BY DEF MigrateLegacyPauses, boosting
  <2>7. UNCHANGED vars => UNCHANGED <<owner, boosted>>
    BY DEF vars, boosting
  <2> QED BY <2>1, <2>2, <2>3, <2>4, <2>5, <2>6, <2>7 DEF Next
<1> QED BY <1>1, <1>2, TypeCorrect, PTL DEF Spec

\* No two markets ever lend through the same boosted vault.
THEOREM BoostedStayExclusive == Spec => []BoostedVaultsExclusive
<1>1. OwnersAreKnown => BoostedVaultsExclusive
  BY DEF OwnersAreKnown, BoostedVaultsExclusive
<1> QED BY <1>1, OwnersKept, PTL

-----------------------------------------------------------------------------
(* The migration of pauses without an expiry *)

LEMMA PositionType ==
    ASSUME TypeOK, NEW m \in Markets
    PROVE  /\ IsFiniteSet(supported) /\ Cardinality(supported) \in Nat
           /\ Position(m) \in Nat
           /\ m \in supported => Position(m) < Cardinality(supported)
<1> DEFINE before == {n \in supported : Rank[n] < Rank[m]}
<1>1. IsFiniteSet(supported) /\ Cardinality(supported) \in Nat
  BY RegistryAssumption, FS_Subset, FS_CardinalityType DEF TypeOK
<1>2. IsFiniteSet(before) /\ Cardinality(before) \in Nat
  BY <1>1, FS_Subset, FS_CardinalityType
<1>3. ASSUME m \in supported PROVE Cardinality(before) < Cardinality(supported)
  <2>1. m \notin before
    BY RegistryAssumption
  <2>2. Cardinality(before \cup {m}) = Cardinality(before) + 1
    BY <1>2, <2>1, FS_AddElement
  <2>3. before \cup {m} \subseteq supported
    BY <1>3
  <2>4. Cardinality(before \cup {m}) <= Cardinality(supported)
    BY <1>1, <2>3, FS_Subset
  <2> QED BY <1>1, <1>2, <2>2, <2>4
<1> QED BY <1>1, <1>2, <1>3 DEF Position

\* Steps that neither list nor delist nor migrate.
LEMMA NoSlipAtRest ==
    ASSUME UNCHANGED <<supported, migration>>, NEW m \in Markets,
           \A k \in PauseKinds : pause'[k][m] = Endless => pause[k][m] = Endless
    PROVE  NoneSlips(m)
<1>1. Frozen(m)' => Frozen(m)
  BY DEF Frozen
<1>2. Passed(m)' => Passed(m)
  BY DEF Passed, Position
<1> QED BY <1>1, <1>2 DEF NoneSlips

\* A listing moves the later markets away from the cursor, never over it.
LEMMA NoSlipListing ==
    ASSUME TypeOK, NEW n \in Markets, AddMarket(n), NEW m \in Markets
    PROVE  NoneSlips(m)
<1>1. UNCHANGED <<pause, migration>> /\ supported' = supported \cup {n}
  BY DEF AddMarket, pausing
<1>2. CASE m = n
  <2>1. CASE Frozen(m)
    <3>1. supported' = supported
      BY <1>1, <1>2, <2>1 DEF Frozen
    <3> QED BY <1>1, <3>1, NoSlipAtRest
  <2>2. CASE ~Frozen(m)
    BY <1>2, <2>2 DEF NoneSlips
  <2> QED BY <2>1, <2>2
<1>3. CASE m # n
  <2>1. Frozen(m)' => Frozen(m)
    BY <1>1, <1>3 DEF Frozen
  <2>2. Position(m) <= Position(m)'
    <3> DEFINE now == {o \in supported : Rank[o] < Rank[m]}
               then == {o \in supported' : Rank[o] < Rank[m]}
    <3>1. now \subseteq then
      BY <1>1
    <3>2. IsFiniteSet(then)
      BY <1>1, RegistryAssumption, FS_Subset DEF TypeOK
    <3>3. Cardinality(now) <= Cardinality(then)
      BY <3>1, <3>2, FS_Subset
    <3>4. Position(m) = Cardinality(now) /\ Position(m)' = Cardinality(then)
      BY DEF Position
    <3> QED BY <3>3, <3>4
  <2>3. Position(m) \in Nat /\ Position(m)' \in Nat /\ migration.cursor \in Nat
    <3>1. TypeOK'
      BY AdminType DEF Admin
    <3>2. Position(m)' \in Nat
      BY <3>1, RegistryAssumption, FS_Subset, FS_CardinalityType DEF Position, TypeOK
    <3> QED BY <3>2, PositionType DEF TypeOK
  <2>4. Passed(m)' => Passed(m)
    BY <1>1, <2>2, <2>3 DEF Passed
  <2> QED BY <2>1, <2>4 DEF NoneSlips
<1> QED BY <1>2, <1>3

\* A delisting can bring the next market before the cursor, but only while the
\* migration runs.
LEMMA NoSlipDelisting ==
    ASSUME NEW n \in Markets, RemoveMarket(n), NEW m \in Markets
    PROVE  NoneSlips(m)
<1>1. CASE ~migration.done
  BY <1>1 DEF NoneSlips
<1>2. CASE migration.done
  <2>1. Frozen(m)' => Frozen(m)
    BY RemovalStep DEF Frozen, pausing
  <2> QED BY <1>2, <2>1 DEF NoneSlips, Passed
<1> QED BY <1>1, <1>2

\* A batch leaves no pause without an expiry between the old cursor and the new one,
\* and the last batch ends where the keys do.
LEMMA NoSlipMigrating ==
    ASSUME TypeOK, NEW limit \in Limits, MigrateLegacyPauses(limit), NEW m \in Markets,
           Frozen(m)', Passed(m)'
    PROVE  Frozen(m) /\ Passed(m)
<1> DEFINE total == Cardinality(supported)
           next == IF migration.cursor >= total THEN total
                   ELSE IF migration.cursor + limit <= total
                        THEN migration.cursor + limit ELSE total
<1>1. /\ supported' = supported
      /\ migration' = [cursor |-> next, done |-> next >= total]
      /\ pause' = [k \in PauseKinds |-> [o \in Markets |->
                     IF o \in supported /\ InBatch(o, migration.cursor, next)
                        /\ pause[k][o] = Endless
                     THEN PauseDuration + 1 ELSE pause[k][o]]]
  BY DEF MigrateLegacyPauses, registry
<1>2. total \in Nat /\ next \in Nat /\ migration.cursor \in Nat /\ limit \in Nat
  <2>1. total \in Nat /\ migration.cursor \in Nat /\ limit \in Nat
    BY RegistryAssumption, PositionType DEF TypeOK
  <2> QED BY <2>1
<1> HIDE DEF next
<1>3. PICK k \in PauseKinds : pause'[k][m] = Endless
  BY DEF Frozen
<1>4. pause[k][m] = Endless
  BY <1>1, <1>3, RegistryAssumption DEF Endless
<1>5. m \in supported
  BY <1>1 DEF Frozen
<1>6. ~InBatch(m, migration.cursor, next)
  BY <1>1, <1>3, <1>4, <1>5, RegistryAssumption DEF Endless
<1>7. Position(m) \in Nat /\ Position(m) < total
  BY <1>5, PositionType
<1>8. Position(m) < next
  <2>1. Position(m)' = Position(m)
    BY <1>1 DEF Position
  <2>2. migration'.done \/ Position(m)' < migration'.cursor
    BY DEF Passed
  <2>3. migration'.done = (next >= total) /\ migration'.cursor = next
    BY <1>1
  <2>4. next >= total \/ Position(m) < next
    BY <2>1, <2>2, <2>3
  <2> QED BY <1>2, <1>7, <2>4
<1>9. Position(m) < migration.cursor
  BY <1>2, <1>6, <1>7, <1>8 DEF InBatch
<1> QED BY <1>4, <1>5, <1>9 DEF Frozen, Passed

LEMMA NoSlipAdmin ==
    ASSUME TypeOK, NEW n \in Markets, Admin(n), NEW m \in Markets
    PROVE  NoneSlips(m)
<1>1. CASE AddMarket(n)
  BY <1>1, NoSlipListing
<1>2. CASE RemoveMarket(n) \/ \E token \in Tokens : ForceRemoveMarket(n, token)
  BY <1>2, NoSlipDelisting, ForcedIsRemoval
<1>3. CASE VerifyMarketZeroTotals(n) \/ \E new \in BoostedVaults : SetBoostedVault(n, new)
  BY <1>3, NoSlipAtRest DEF VerifyMarketZeroTotals, SetBoostedVault, registry, pausing
<1>4. ASSUME NEW kind \in PauseKinds, NEW paused \in BOOLEAN,
             pause' = PausesAfter(kind, n, paused), UNCHANGED <<registry, migration>>
      PROVE  NoneSlips(m)
  <2>1. ASSUME NEW k \in PauseKinds
        PROVE  pause'[k][m] = Endless => pause[k][m] = Endless
    BY <1>4, RegistryAssumption DEF PausesAfter, TypeOK, Endless
  <2>2. UNCHANGED <<supported, migration>>
    BY <1>4 DEF registry
  <2> QED BY <2>1, <2>2, NoSlipAtRest
<1>5. CASE \E kind \in UsedPauses, paused \in BOOLEAN : SetPause(kind, n, paused)
  BY <1>4, <1>5, RegistryAssumption DEF SetPause
<1>6. CASE \E kind \in UsedPauses : GuardianPause(kind, n)
  BY <1>4, <1>6, RegistryAssumption DEF GuardianPause
<1> QED BY <1>1, <1>2, <1>3, <1>5, <1>6 DEF Admin

LEMMA NoSlip ==
    ASSUME TypeOK, [Next]_vars, NEW m \in Markets
    PROVE  NoneSlips(m)
<1>1. CASE Tick
  <2>1. ASSUME NEW k \in PauseKinds, pause'[k][m] = Endless PROVE pause[k][m] = Endless
    BY <1>1, <2>1, RegistryAssumption DEF Tick, Aged, TypeOK, PauseTimes, Endless
  <2> QED BY <1>1, <2>1, NoSlipAtRest DEF Tick
<1>2. CASE \E n \in Markets : Admin(n)
  BY <1>2, NoSlipAdmin
<1>3. CASE \E limit \in Limits : MigrateLegacyPauses(limit)
  BY <1>3, NoSlipMigrating DEF NoneSlips
<1>4. CASE \E u \in Users, n \in Markets : User(u, n)
  <2>1. UNCHANGED <<supported, pause, migration>>
    BY <1>4 DEF User, EnterMarket, ExitMarket, Deposit, WithdrawAll, Borrow, RepayAll,
                Transfer, Liquidate, registry, pausing
  <2> QED BY <2>1, NoSlipAtRest
<1>5. CASE UNCHANGED vars
  BY <1>5, NoSlipAtRest DEF vars, registry, pausing
<1> QED BY <1>1, <1>2, <1>3, <1>4, <1>5 DEF Next

\* However it is cut into batches and whatever is listed meanwhile, the migration of
\* pauses without an expiry passes over no supported market, but for a delisting
\* that happens while it runs (migrate_legacy_pause_expiries).
THEOREM MigrationComplete == Spec => MigrationMissesNone
<1>1. TypeOK /\ [Next]_vars => [\A m \in Markets : NoneSlips(m)]_vars
  BY NoSlip
<1> QED BY <1>1, TypeCorrect, PTL DEF Spec, MigrationMissesNone

=============================================================================
