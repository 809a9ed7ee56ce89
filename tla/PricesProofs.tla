--------------------------- MODULE PricesProofs ---------------------------
(***************************************************************************)
(* Proofs about the prices: their types, and that what is quoted is        *)
(* recent, never older than what was quoted before from the same source,   *)
(* and a configured price only while somebody vouched for it. At the end,  *)
(* that the timelock, which the oracle's setter goes through, gives the    *)
(* notice it promises for any settings.                                    *)
(***************************************************************************)
EXTENDS Prices, TLAPS

-----------------------------------------------------------------------------
(* Types *)

LEMMA GrownType ==
    ASSUME NEW a \in Ages \cup {None, Unset}
    PROVE  /\ a \in Ages => Grown(a) \in Ages /\ a <= Grown(a)
           /\ a \notin Ages => Grown(a) = a
  BY PricesAssumption DEF Grown, Ages

LEMMA GrownMonotone ==
    ASSUME NEW a \in Ages, NEW b \in Ages, a <= b
    PROVE  Grown(a) <= Grown(b)
  BY PricesAssumption DEF Grown, Ages

LEMMA SettersInit == ASSUME Setters!Init PROVE Setters!TypeOK
  BY PricesAssumption DEF Setters!Init, Setters!TypeOK, Setters!Params

LEMMA SettersType ==
    ASSUME Setters!TypeOK,
           \/ \E o \in Oracles : \/ Setters!SetFirst("oracle", o)
                                 \/ Setters!Schedule("oracle", o) \/ Setters!Apply("oracle", o)
           \/ Setters!Tick
           \/ UNCHANGED timelock
    PROVE  Setters!TypeOK'
<1>1. ASSUME NEW o \in Oracles, Setters!SetFirst("oracle", o) PROVE Setters!TypeOK'
  BY <1>1, PricesAssumption DEF Setters!SetFirst, Setters!TypeOK, Setters!Params
<1>2. ASSUME NEW o \in Oracles, Setters!Schedule("oracle", o) PROVE Setters!TypeOK'
  BY <1>2, PricesAssumption DEF Setters!Schedule, Setters!TypeOK, Setters!Params
<1>3. ASSUME NEW o \in Oracles, Setters!Apply("oracle", o) PROVE Setters!TypeOK'
  BY <1>3, PricesAssumption DEF Setters!Apply, Setters!TypeOK, Setters!Params
<1>4. CASE Setters!Tick
  BY <1>4, PricesAssumption DEF Setters!Tick, Setters!TypeOK, Setters!Params
<1>5. CASE UNCHANGED timelock
  BY <1>5 DEF timelock, Setters!TypeOK
<1> QED BY <1>1, <1>2, <1>3, <1>4, <1>5

\* A source that the oracle in force may answer from.
LEMMA LiveType ==
    ASSUME TypeOK, Live
    PROVE  /\ InForce \in Sources /\ InForce[1] = oracle
           /\ Latest \in Ages /\ Resolution[oracle] \in Nat
           /\ [source |-> InForce, age |-> Latest, stamp |-> Latest,
               resolution |-> Resolution[oracle]] \in Caches
           /\ [kind |-> "report", source |-> InForce, age |-> Latest] \in Reports
<1>1. oracle \in Oracles /\ asset \in Assets
  BY DEF TypeOK, Live, Setters!TypeOK, Setters!Params, oracle
<1>2. InForce \in Sources /\ InForce[1] = oracle
  BY <1>1 DEF InForce, Sources
<1>3. Latest \in Ages
  BY <1>2 DEF TypeOK, Live, Latest
<1>4. Resolution[oracle] \in Nat
  BY <1>1, PricesAssumption
<1> QED BY <1>2, <1>3, <1>4 DEF Caches, Reports

LEMMA InitType == ASSUME Init PROVE TypeOK
  BY SettersInit, PricesAssumption DEF Init, TypeOK, Ages

LEMMA QuoteType ==
    ASSUME TypeOK, QuoteCached \/ QuoteLive \/ QuoteFallback \/ CachePrice
    PROVE  TypeOK'
<1>1. Setters!TypeOK'
  BY SettersType DEF TypeOK, QuoteCached, QuoteLive, QuoteFallback, CachePrice
<1>2. CASE QuoteCached
  <2>1. quote' \in Reports
    BY <1>2 DEF TypeOK, QuoteCached, CacheIsFresh, Caches, Reports
  <2> QED BY <1>1, <1>2, <2>1 DEF TypeOK, QuoteCached, config
<1>3. CASE QuoteLive
  <2>1. cache' \in Caches /\ quote' \in Reports
    BY <1>3, LiveType DEF QuoteLive, Store
  <2> QED BY <1>1, <1>3, <2>1 DEF TypeOK, QuoteLive, config
<1>4. CASE QuoteFallback
  BY <1>1, <1>4 DEF TypeOK, QuoteFallback, config
<1>5. CASE CachePrice
  <2>1. cache' \in Caches
    BY <1>5, LiveType DEF CachePrice, Store
  <2> QED BY <1>1, <1>5, <2>1 DEF TypeOK, CachePrice, config
<1> QED BY <1>2, <1>3, <1>4, <1>5

Administration ==
    \/ \E o \in Oracles : SetOracle(o)
    \/ \E a \in Assets : SetOracleAssetSymbol(a)
    \/ \E k \in Multipliers : SetOracleMaxAgeMultiplier(k)
    \/ SetPriceFallback \/ RemovePriceFallback \/ BackfillFallbackPriceSetAt
    \/ SupportToken

LEMMA AdministrationType == ASSUME TypeOK, Administration PROVE TypeOK'
<1>1. Setters!TypeOK'
  BY SettersType DEF TypeOK, Administration, SetOracle, SetOracleAssetSymbol,
     SetOracleMaxAgeMultiplier, SetPriceFallback, RemovePriceFallback,
     BackfillFallbackPriceSetAt, SupportToken
<1>2. ASSUME NEW o \in Oracles, SetOracle(o) PROVE TypeOK'
  BY <1>1, <1>2 DEF TypeOK, SetOracle, config
<1>3. ASSUME NEW a \in Assets, SetOracleAssetSymbol(a) PROVE TypeOK'
  BY <1>1, <1>3 DEF TypeOK, SetOracleAssetSymbol
<1>4. ASSUME NEW k \in Multipliers, SetOracleMaxAgeMultiplier(k) PROVE TypeOK'
  BY <1>1, <1>4, PricesAssumption DEF TypeOK, SetOracleMaxAgeMultiplier
<1>5. 0 \in Ages
  BY PricesAssumption DEF Ages
<1>6. CASE SetPriceFallback \/ RemovePriceFallback \/ BackfillFallbackPriceSetAt
  BY <1>1, <1>5, <1>6 DEF TypeOK, SetPriceFallback, RemovePriceFallback,
     BackfillFallbackPriceSetAt, config
<1>7. CASE SupportToken
  BY <1>1, <1>7 DEF TypeOK, SupportToken
<1> QED BY <1>2, <1>3, <1>4, <1>6, <1>7 DEF Administration

LEMMA PublishType == ASSUME TypeOK, NEW s \in Sources, Publish(s) PROVE TypeOK'
<1>1. Setters!TypeOK'
  BY SettersType DEF TypeOK, Publish
<1>2. 0 \in Ages
  BY PricesAssumption DEF Ages
<1>3. report' \in [Sources -> Ages \cup {None}]
  BY <1>2 DEF TypeOK, Publish
<1> QED BY <1>1, <1>3 DEF TypeOK, Publish, config

LEMMA TickType == ASSUME TypeOK, Tick PROVE TypeOK'
<1>1. Setters!TypeOK'
  BY SettersType DEF TypeOK, Tick
<1>2. report' \in [Sources -> Ages \cup {None}]
  BY GrownType DEF TypeOK, Tick
<1>3. cache' \in Caches \cup {None}
  <2>1. CASE cache = None
    BY <2>1 DEF Tick
  <2>2. CASE cache # None
    <3>1. cache \in Caches
      BY <2>2 DEF TypeOK
    <3>2. Grown(cache.age) \in Ages /\ Grown(cache.stamp) \in Ages
      BY <3>1, GrownType DEF Caches
    <3>3. cache' = [cache EXCEPT !.age = Grown(@), !.stamp = Grown(@)]
      BY <2>2 DEF Tick
    <3> QED BY <3>1, <3>2, <3>3 DEF Caches
  <2> QED BY <2>1, <2>2
<1>4. quote' \in Reports \cup {[kind |-> "fallback"], None}
  <2>1. CASE quote \in Reports
    <3>1. Grown(quote.age) \in Ages
      BY <2>1, GrownType DEF Reports
    <3>2. quote' = [quote EXCEPT !.age = Grown(@)]
      BY <2>1 DEF Tick
    <3> QED BY <2>1, <3>1, <3>2 DEF Reports
  <2>2. CASE quote \notin Reports
    BY <2>2 DEF TypeOK, Tick
  <2> QED BY <2>1, <2>2
<1>5. fallback' \in Ages \cup {None, Unset} /\ vouched' \in Ages \cup {None}
  BY GrownType DEF TypeOK, Tick
<1> QED BY <1>1, <1>2, <1>3, <1>4, <1>5 DEF TypeOK, Tick, config

LEMMA NextType == ASSUME TypeOK, [Next]_vars PROVE TypeOK'
<1>1. CASE Next
  BY <1>1, QuoteType, AdministrationType, PublishType, TickType DEF Next, Administration
<1>2. CASE UNCHANGED vars
  <2>1. Setters!TypeOK'
    BY <1>2, SettersType DEF TypeOK, vars
  <2> QED BY <1>2, <2>1 DEF TypeOK, vars, config
<1> QED BY <1>1, <1>2

\* Every stored price, time and setting keeps its type, whatever is read, set or published.
THEOREM TypeCorrect == Spec => []TypeOK
<1>1. Init => TypeOK
  BY InitType
<1>2. TypeOK /\ [Next]_vars => TypeOK'
  BY NextType
<1> QED BY <1>1, <1>2, PTL DEF Spec

-----------------------------------------------------------------------------
(* What is stored of a report *)

\* A cached report has the time and the interval of the oracle that gave it, and its source
\* has reported nothing older since.
CacheKept ==
    cache # None =>
        /\ cache.stamp = cache.age /\ cache.resolution = Resolution[cache.source[1]]
        /\ report[cache.source] \in Ages /\ report[cache.source] <= cache.age

\* A configured price is as old as the admin's answer for it.
FallbackKept == vouched = IF fallback \in Ages THEN fallback ELSE None

\* What was quoted has not been overtaken by something older.
QuoteKept ==
    quote \in Reports =>
        /\ report[quote.source] \in Ages /\ report[quote.source] <= quote.age
        /\ cache # None /\ cache.source = quote.source => cache.age <= quote.age

PricesInv == TypeOK /\ CacheKept /\ FallbackKept /\ QuoteKept

LEMMA InitInv == ASSUME Init PROVE PricesInv
<1>1. CacheKept /\ FallbackKept /\ QuoteKept
  BY PricesAssumption DEF Init, CacheKept, FallbackKept, QuoteKept, Ages
<1> QED BY <1>1, InitType DEF PricesInv

LEMMA CacheKeptBy == ASSUME PricesInv, [Next]_vars PROVE CacheKept'
<1> USE DEF PricesInv
<1>1. CASE UNCHANGED <<cache, report>>
  BY <1>1 DEF CacheKept
<1>2. CASE Live /\ Store /\ UNCHANGED report
  <2>1. InForce[1] = oracle /\ Latest \in Ages /\ Latest <= Latest
    BY <1>2, LiveType, PricesAssumption DEF Ages
  <2> QED BY <1>2, <2>1 DEF Store, CacheKept, Latest
<1>3. ASSUME NEW s \in Sources, Publish(s) PROVE CacheKept'
  <2>1. UNCHANGED cache /\ report' = [report EXCEPT ![s] = 0]
    BY <1>3 DEF Publish
  <2>2. CASE cache # None
    <3>1. cache \in Caches
      BY <2>2 DEF TypeOK
    <3>2. cache.source \in Sources /\ cache.age \in Ages /\ 0 \in Ages /\ 0 <= cache.age
      BY <3>1, PricesAssumption DEF Caches, Ages
    <3> QED BY <2>1, <2>2, <3>2 DEF TypeOK, CacheKept
  <2> QED BY <2>1, <2>2 DEF CacheKept
<1>4. CASE Tick
  <2>1. CASE cache = None
    BY <1>4, <2>1 DEF Tick, CacheKept
  <2>2. CASE cache # None
    <3>1. cache \in Caches
      BY <2>2 DEF TypeOK
    <3>2. cache' = [cache EXCEPT !.age = Grown(@), !.stamp = Grown(@)]
      BY <1>4, <2>2 DEF Tick
    <3>3. /\ cache'.source = cache.source /\ cache'.resolution = cache.resolution
          /\ cache'.age = Grown(cache.age) /\ cache'.stamp = Grown(cache.stamp)
          /\ cache.source \in Sources /\ cache.age \in Ages
      BY <3>1, <3>2 DEF Caches
    <3>4. report'[cache.source] = Grown(report[cache.source])
      BY <1>4, <3>3 DEF Tick
    <3>5. report[cache.source] \in Ages /\ report[cache.source] <= cache.age
      BY <2>2 DEF CacheKept
    <3>6. /\ Grown(report[cache.source]) \in Ages
          /\ Grown(report[cache.source]) <= Grown(cache.age)
      BY <3>3, <3>5, GrownType, GrownMonotone
    <3> QED BY <2>2, <3>3, <3>4, <3>6 DEF CacheKept
  <2> QED BY <2>1, <2>2
<1> QED BY <1>1, <1>2, <1>3, <1>4
    DEF Next, vars, QuoteCached, QuoteLive, QuoteFallback, CachePrice, SetOracle,
        SetOracleAssetSymbol, SetOracleMaxAgeMultiplier, SetPriceFallback, RemovePriceFallback,
        BackfillFallbackPriceSetAt, SupportToken

LEMMA FallbackKeptBy == ASSUME PricesInv, [Next]_vars PROVE FallbackKept'
<1>1. CASE UNCHANGED <<fallback, vouched>>
  BY <1>1 DEF PricesInv, FallbackKept
<1>2. CASE SetPriceFallback \/ RemovePriceFallback \/ BackfillFallbackPriceSetAt
  BY <1>2, PricesAssumption
     DEF SetPriceFallback, RemovePriceFallback, BackfillFallbackPriceSetAt, FallbackKept, Ages
<1>3. CASE Tick
  <2>1. CASE fallback \in Ages
    BY <1>3, <2>1, GrownType DEF PricesInv, FallbackKept, Tick
  <2>2. CASE fallback \notin Ages
    <3>1. None \notin Ages
      BY PricesAssumption DEF Ages
    <3> QED BY <1>3, <2>2, <3>1, GrownType DEF PricesInv, TypeOK, FallbackKept, Tick
  <2> QED BY <2>1, <2>2
<1> QED BY <1>1, <1>2, <1>3
    DEF Next, vars, QuoteCached, QuoteLive, QuoteFallback, CachePrice, SetOracle,
        SetOracleAssetSymbol, SetOracleMaxAgeMultiplier, SupportToken, Publish

LEMMA QuoteKeptBy == ASSUME PricesInv, [Next]_vars PROVE QuoteKept'
<1> SUFFICES ASSUME quote' \in Reports
             PROVE  /\ report'[quote'.source] \in Ages /\ report'[quote'.source] <= quote'.age
                    /\ cache' # None /\ cache'.source = quote'.source
                        => cache'.age <= quote'.age
  BY DEF QuoteKept
<1> USE DEF PricesInv
<1>1. CASE UNCHANGED <<cache, report, quote>>
  BY <1>1 DEF QuoteKept
<1>2. CASE QuoteFallback
  BY <1>2 DEF QuoteFallback, Reports
<1>3. CASE QuoteLive
  <2>1. Latest \in Ages /\ Latest <= Latest
    BY <1>3, LiveType, PricesAssumption DEF QuoteLive, Ages
  <2> QED BY <1>3, <2>1 DEF QuoteLive, Store, Latest
<1>4. CASE CachePrice
  <2>1. quote \in Reports
    BY <1>4 DEF CachePrice
  <2>2. quote.source = InForce => Latest <= quote.age
    BY <2>1 DEF QuoteKept, Latest
  <2> QED BY <1>4, <2>1, <2>2 DEF CachePrice, Store, QuoteKept
<1>5. ASSUME NEW s \in Sources, Publish(s)
      PROVE  /\ report'[quote.source] \in Ages /\ report'[quote.source] <= quote.age
             /\ UNCHANGED <<cache, quote>>
  <2>1. quote \in Reports /\ UNCHANGED <<cache, quote>>
    BY <1>5 DEF Publish
  <2>2. quote.source \in Sources /\ quote.age \in Ages /\ 0 \in Ages /\ 0 <= quote.age
    BY <2>1, PricesAssumption DEF Reports, Ages
  <2>3. report' = [report EXCEPT ![s] = 0]
    BY <1>5 DEF Publish
  <2>4. report[quote.source] \in Ages /\ report[quote.source] <= quote.age
    BY <2>1 DEF QuoteKept
  <2> QED BY <2>1, <2>2, <2>3, <2>4 DEF TypeOK
<1>6. CASE \E s \in Sources : Publish(s)
  BY <1>5, <1>6 DEF QuoteKept
<1>7. CASE Tick
  <2>1. quote \in Reports
    BY <1>7 DEF Tick
  <2>2. quote.source \in Sources /\ quote.age \in Ages
    BY <2>1 DEF Reports
  <2>3. quote' = [quote EXCEPT !.age = Grown(@)]
    BY <1>7, <2>1 DEF Tick
  <2>4. quote'.source = quote.source /\ quote'.age = Grown(quote.age)
    BY <2>1, <2>3 DEF Reports
  <2>5. report'[quote.source] = Grown(report[quote.source])
    BY <1>7, <2>2 DEF Tick
  <2>6. report[quote.source] \in Ages /\ report[quote.source] <= quote.age
    BY <2>1 DEF QuoteKept
  <2>7. Grown(report[quote.source]) \in Ages
        /\ Grown(report[quote.source]) <= Grown(quote.age)
    BY <2>2, <2>6, GrownType, GrownMonotone
  <2>8. ASSUME cache' # None, cache'.source = quote.source PROVE cache'.age <= Grown(quote.age)
    <3>1. cache # None
      BY <1>7, <2>8 DEF Tick
    <3>2. cache \in Caches
      BY <3>1 DEF TypeOK
    <3>3. cache' = [cache EXCEPT !.age = Grown(@), !.stamp = Grown(@)]
      BY <1>7, <3>1 DEF Tick
    <3>4. cache.source = quote.source /\ cache'.age = Grown(cache.age) /\ cache.age \in Ages
      BY <2>8, <3>2, <3>3 DEF Caches
    <3>5. cache.age <= quote.age
      BY <2>1, <3>1, <3>4 DEF QuoteKept
    <3> QED BY <2>2, <3>4, <3>5, GrownMonotone
  <2> QED BY <2>4, <2>5, <2>7, <2>8
<1>8. CASE QuoteCached
  <2>1. /\ cache # None /\ quote'.source = cache.source /\ quote'.age = cache.age
        /\ UNCHANGED <<cache, report>>
    BY <1>8 DEF QuoteCached, CacheIsFresh
  <2>2. cache.age \in Nat
    BY <2>1, PricesAssumption DEF TypeOK, Caches, Ages
  <2> QED BY <2>1, <2>2 DEF CacheKept
<1> QED BY <1>1, <1>2, <1>3, <1>4, <1>6, <1>7, <1>8
    DEF Next, vars, SetOracle, SetOracleAssetSymbol, SetOracleMaxAgeMultiplier,
        SetPriceFallback, RemovePriceFallback, BackfillFallbackPriceSetAt, SupportToken

\* What is stored keeps its history straight, whatever cache_price and set_price_fallback do in
\* between: a cached report is no newer than its source's latest one and has its resolution, a
\* configured price is as old as the admin's answer for it, and what was quoted is not overtaken
\* by an older report.
THEOREM PricesInvariant == Spec => []PricesInv
<1>1. Init => PricesInv
  BY InitInv
<1>2. PricesInv /\ [Next]_vars => PricesInv'
  BY NextType, CacheKeptBy, FallbackKeptBy, QuoteKeptBy DEF PricesInv
<1> QED BY <1>1, <1>2, PTL DEF Spec

-----------------------------------------------------------------------------
(* What is quoted *)

\* A step that quotes something new, and is not the clock making the last quote older: the
\* source of that quote would have aged as well.
LEMMA QuotedBy ==
    ASSUME PricesInv, [Next]_vars, Quoted
    PROVE  QuoteCached \/ QuoteLive \/ QuoteFallback
<1> USE DEF PricesInv
<1>1. ~Tick
  <2> SUFFICES ASSUME Tick PROVE FALSE
    OBVIOUS
  <2>1. quote \in Reports
    BY DEF Tick, Quoted
  <2>2. quote' = [quote EXCEPT !.age = Grown(@)]
    BY <2>1 DEF Tick
  <2>3. quote.source \in Sources /\ quote.age \in Ages /\ Grown(quote.age) # quote.age
    BY <2>1, <2>2 DEF Quoted, Reports
  <2>4. report[quote.source] \in Ages /\ report[quote.source] <= quote.age
    BY <2>1 DEF QuoteKept
  <2>5. Grown(report[quote.source]) # report[quote.source]
    BY <2>3, <2>4, PricesAssumption DEF Grown, Ages
  <2>6. report'[quote.source] = Grown(report[quote.source])
    BY <2>3 DEF Tick
  <2> QED BY <2>5, <2>6 DEF Quoted
<1> QED BY <1>1
    DEF Next, vars, Quoted, CachePrice, SetOracle, SetOracleAssetSymbol,
        SetOracleMaxAgeMultiplier, SetPriceFallback, RemovePriceFallback,
        BackfillFallbackPriceSetAt, SupportToken, Publish

\* A price reported by an oracle is quoted only within the multiplier in force times that
\* oracle's interval, though it may have been cached under another oracle, symbol or
\* multiplier (get_price_usd).
THEOREM QuotesStayRecent == Spec => QuotesAreRecent
<1>1. PricesInv /\ [Next]_vars =>
        [Quoted /\ quote'.kind = "report"
            => quote'.age <= multiplier * Resolution[quote'.source[1]]]_vars
  <2> SUFFICES ASSUME PricesInv, [Next]_vars, Quoted, quote'.kind = "report"
               PROVE  quote'.age <= multiplier * Resolution[quote'.source[1]]
    OBVIOUS
  <2> USE DEF PricesInv
  <2>1. CASE QuoteCached
    BY <2>1 DEF QuoteCached, CacheIsFresh, Admissible, CacheKept
  <2>2. CASE QuoteLive
    <3>1. InForce[1] = oracle
      BY <2>2, LiveType DEF QuoteLive
    <3> QED BY <2>2, <3>1 DEF QuoteLive, Live, Latest, Admissible
  <2>3. CASE QuoteFallback
    BY <2>3 DEF QuoteFallback
  <2> QED BY <2>1, <2>2, <2>3, QuotedBy
<1> QED BY <1>1, PricesInvariant, PTL DEF Spec, QuotesAreRecent

\* Of two prices quoted one after the other from one source the second is not older, whether
\* they come from the cache or the oracle, and though a larger multiplier makes an expired
\* cache valid again (cache_price, get_price_usd).
THEOREM QuotesNeverGoBack == Spec => QuotesAdvance
<1>1. PricesInv /\ [Next]_vars =>
        [Quoted /\ quote' \in Reports /\ quote \in Reports /\ quote'.source = quote.source
            => quote'.age <= quote.age]_vars
  <2> SUFFICES ASSUME PricesInv, [Next]_vars, Quoted, quote' \in Reports, quote \in Reports,
                      quote'.source = quote.source
               PROVE  quote'.age <= quote.age
    OBVIOUS
  <2> USE DEF PricesInv
  <2>1. CASE QuoteCached
    BY <2>1 DEF QuoteCached, CacheIsFresh, QuoteKept
  <2>2. CASE QuoteLive
    BY <2>2 DEF QuoteLive, Latest, QuoteKept
  <2>3. CASE QuoteFallback
    BY <2>3 DEF QuoteFallback, Reports
  <2> QED BY <2>1, <2>2, <2>3, QuotedBy
<1> QED BY <1>1, PricesInvariant, PTL DEF Spec, QuotesAdvance

\* A configured price is quoted only within its age of the moment an admin set it or gave it
\* its time (set_price_fallback, backfill_fallback_price_set_at).
THEOREM FallbackVouchedFor == Spec => FallbackIsVouchedFor
<1>1. PricesInv /\ [Next]_vars =>
        [Quoted /\ quote'.kind = "fallback" => vouched \in 0..FallbackMaxAge]_vars
  <2> SUFFICES ASSUME PricesInv, [Next]_vars, Quoted, quote'.kind = "fallback"
               PROVE  vouched \in 0..FallbackMaxAge
    OBVIOUS
  <2>1. CASE QuoteCached
    BY <2>1 DEF QuoteCached
  <2>2. CASE QuoteLive
    BY <2>2 DEF QuoteLive
  <2>3. CASE QuoteFallback
    BY <2>3, PricesAssumption DEF QuoteFallback, FallbackIsFresh, PricesInv, FallbackKept, Ages
  <2> QED BY <2>1, <2>2, <2>3, QuotedBy
<1> QED BY <1>1, PricesInvariant, PTL DEF Spec, FallbackIsVouchedFor

-----------------------------------------------------------------------------
(* The change of oracle *)

\* The notice the abstract specification sees of the oracle.
OracleNotice ==
    [p \in Setters!Params |-> [v \in Oracles |-> Setters!NoticeOf(p, v)]]

LEMMA OracleInit == ASSUME Setters!Init PROVE Setters!Notice!Init
<1>1. \A p \in Setters!Params, o \in Oracles :
        Setters!NoticeOf(p, o) = Setters!Notice!Unannounced
  BY PricesAssumption DEF Setters!Init, Setters!NoticeOf, Setters!Notice!Unannounced
<1> QED BY <1>1 DEF Setters!Notice!Init, Setters!Init

\* A call of set_oracle announces an oracle or lets one take effect.
LEMMA OracleSet ==
    ASSUME Setters!TypeOK, NEW o \in Oracles,
           \/ Setters!SetFirst("oracle", o)
           \/ Setters!Schedule("oracle", o) \/ Setters!Apply("oracle", o)
    PROVE  Setters!Notice!Next
<1>1. "oracle" \in Setters!Params
  BY DEF Setters!Params
<1>2. ASSUME \A q \in Setters!Params \ {"oracle"} :
                wait'[q] = wait[q] /\ pending'[q] = pending[q] /\ value'[q] = value[q]
      PROVE  Setters!Notice!Only("oracle")
  BY <1>2 DEF Setters!Notice!Only, Setters!NoticeOf
<1>3. CASE Setters!Schedule("oracle", o)
  <2>1. Setters!NoticeOf("oracle", o)' = 0
    BY <1>1, <1>3, PricesAssumption DEF Setters!Schedule, Setters!NoticeOf, Setters!TypeOK
  <2>2. \A w \in Oracles \ {o} : Setters!NoticeOf("oracle", w)' = Setters!Notice!Unannounced
    BY <1>1, <1>3 DEF Setters!Schedule, Setters!NoticeOf, Setters!TypeOK, Setters!Notice!Unannounced
  <2>3. Setters!Notice!Only("oracle") /\ value' = value
    BY <1>2, <1>3 DEF Setters!Schedule, Setters!TypeOK
  <2> QED BY <1>1, <2>1, <2>2, <2>3
          DEF Setters!Notice!Next, Setters!Notice!Announce, Setters!Notice!OthersStandOrFall,
              Setters!Notice!Unannounced
<1>4. CASE Setters!SetFirst("oracle", o) \/ Setters!Apply("oracle", o)
  <2>1. value["oracle"] = Unset \/ Setters!NoticeOf("oracle", o) = Delay
    BY <1>4, PricesAssumption DEF Setters!SetFirst, Setters!Apply, Setters!NoticeOf
  <2>2. \A w \in Oracles : Setters!NoticeOf("oracle", w)' = Setters!Notice!Unannounced
    BY <1>1, <1>4, PricesAssumption DEF Setters!SetFirst, Setters!Apply, Setters!NoticeOf,
       Setters!TypeOK, Setters!Notice!Unannounced
  <2>3. Setters!Notice!Only("oracle") /\ value'["oracle"] = o
    BY <1>1, <1>2, <1>4 DEF Setters!SetFirst, Setters!Apply, Setters!TypeOK
  <2> QED BY <1>1, <2>1, <2>2, <2>3
          DEF Setters!Notice!Next, Setters!Notice!TakeEffect, Setters!Notice!OthersStandOrFall,
              Setters!Notice!Unannounced
<1> QED BY <1>3, <1>4

LEMMA OracleTick == ASSUME Setters!TypeOK, Setters!Tick PROVE Setters!Notice!Next
<1>1. ASSUME NEW p \in Setters!Params, NEW o \in Oracles
      PROVE  Setters!NoticeOf(p, o)' = IF Setters!NoticeOf(p, o) \in 0..(Delay - 1)
                                       THEN Setters!NoticeOf(p, o) + 1 ELSE Setters!NoticeOf(p, o)
  <2>1. wait[p] \in 0..Delay /\ wait'[p] = IF wait[p] > 0 THEN wait[p] - 1 ELSE 0
    BY DEF Setters!Tick, Setters!TypeOK
  <2>2. pending' = pending
    BY DEF Setters!Tick
  <2> QED BY <2>1, <2>2, PricesAssumption DEF Setters!NoticeOf
<1> QED BY <1>1 DEF Setters!Notice!Next, Setters!Notice!Elapse, Setters!Tick

LEMMA OracleStep ==
    ASSUME TypeOK, [Next]_vars
    PROVE  [Setters!Notice!Next]_<<value, OracleNotice>>
<1>1. CASE \E o \in Oracles : SetOracle(o)
  BY <1>1, OracleSet DEF SetOracle, TypeOK
<1>2. CASE Tick
  BY <1>2, OracleTick DEF Tick, TypeOK
<1>3. CASE UNCHANGED timelock
  BY <1>3 DEF timelock, OracleNotice, Setters!NoticeOf
<1>4. \/ \E o \in Oracles : SetOracle(o)
      \/ Tick
      \/ UNCHANGED timelock
  BY DEF Next, vars, QuoteCached, QuoteLive, QuoteFallback, CachePrice, SetOracleAssetSymbol,
     SetOracleMaxAgeMultiplier, SetPriceFallback, RemovePriceFallback,
     BackfillFallbackPriceSetAt, SupportToken, Publish
<1> QED BY <1>1, <1>2, <1>3, <1>4

\* For any oracles and delay: whatever is read, cached or configured meanwhile, the oracle in
\* force is replaced only by one that was announced, alone and unbroken, for the whole delay.
THEOREM OracleChangesAnnounced == Spec => Setters!GivesNotice
<1>1. Init => Setters!Notice!Init
  BY OracleInit DEF Init
<1>2. TypeOK /\ [Next]_vars => [Setters!Notice!Next]_<<value, OracleNotice>>
  BY OracleStep
<1>3. OracleNotice = [p \in Setters!Params |-> [v \in Oracles |-> Setters!NoticeOf(p, v)]]
  BY DEF OracleNotice
<1> QED BY <1>1, <1>2, <1>3, TypeCorrect, PTL
        DEF Spec, Setters!GivesNotice, Setters!Notice!Spec, OracleNotice

-----------------------------------------------------------------------------
(* The timelock *)

\* Beside Prices, whose oracle is one of its settings: Timelock with any settings, on the
\* same variables.
CONSTANTS Settings, FirstAtOnce, Code, Values

Lock == INSTANCE Timelock

\* What Timelock assumes of its parameters.
LockAssumption ==
    /\ FirstAtOnce \subseteq Settings /\ Code \notin Settings
    /\ Unset \notin Values /\ None \notin Values
    /\ Delay \in Nat

LEMMA SetterType ==
    ASSUME LockAssumption, Lock!TypeOK, NEW p \in Settings, NEW v \in Values,
           Lock!SetFirst(p, v) \/ Lock!Schedule(p, v) \/ Lock!Apply(p, v)
    PROVE  Lock!TypeOK'
<1>1. p \in Lock!Params /\ v # Unset
  BY DEF LockAssumption, Lock!Params
<1>2. CASE Lock!SetFirst(p, v)
  BY <1>1, <1>2 DEF LockAssumption, Lock!SetFirst, Lock!TypeOK
<1>3. CASE Lock!Schedule(p, v)
  BY <1>1, <1>3 DEF LockAssumption, Lock!Schedule, Lock!TypeOK
<1>4. CASE Lock!Apply(p, v)
  BY <1>1, <1>4 DEF LockAssumption, Lock!Apply, Lock!TypeOK
<1> QED BY <1>2, <1>3, <1>4

LEMMA CodeType ==
    ASSUME LockAssumption, Lock!TypeOK, NEW v \in Values, Lock!ProposeUpgrade(v) \/ Lock!Upgrade(v)
    PROVE  Lock!TypeOK'
<1>1. Code \in Lock!Params /\ v # Unset
  BY DEF LockAssumption, Lock!Params
<1>2. CASE Lock!ProposeUpgrade(v)
  BY <1>1, <1>2 DEF LockAssumption, Lock!ProposeUpgrade, Lock!TypeOK
<1>3. CASE Lock!Upgrade(v)
  BY <1>1, <1>3 DEF LockAssumption, Lock!Upgrade, Lock!TypeOK
<1> QED BY <1>2, <1>3

LEMMA WaitType == ASSUME LockAssumption, Lock!TypeOK, Lock!Tick PROVE Lock!TypeOK'
  BY DEF LockAssumption, Lock!Tick, Lock!TypeOK

\* The variables keep their types: a wait never exceeds the delay, and a parameter
\* that has a value never loses it.
THEOREM TimelockTypeCorrect ==
    ASSUME LockAssumption
    PROVE  Lock!Spec => []Lock!TypeOK
<1>1. Lock!Init => Lock!TypeOK
  BY DEF LockAssumption, Lock!Init, Lock!TypeOK
<1>2. Lock!TypeOK /\ [Lock!Next]_Lock!vars => Lock!TypeOK'
  <2> SUFFICES ASSUME Lock!TypeOK, [Lock!Next]_Lock!vars PROVE Lock!TypeOK'
    OBVIOUS
  <2>1. CASE Lock!Next
    BY <2>1, SetterType, CodeType, WaitType DEF Lock!Next
  <2>2. CASE UNCHANGED Lock!vars
    BY <2>2 DEF Lock!vars, Lock!TypeOK
  <2> QED BY <2>1, <2>2
<1> QED BY <1>1, <1>2, PTL DEF Lock!Spec

\* The notice the abstract specification sees.
N == [p \in Lock!Params |-> [v \in Values |-> Lock!NoticeOf(p, v)]]

LEMMA NoticeAt ==
    ASSUME NEW p \in Lock!Params, NEW v \in Values
    PROVE  N[p][v] = Lock!NoticeOf(p, v) /\ N'[p][v] = Lock!NoticeOf(p, v)'
  BY DEF N

LEMMA InitMaps == ASSUME LockAssumption, Lock!Init PROVE Lock!Notice!Init
<1>1. \A p \in Lock!Params, v \in Values : Lock!NoticeOf(p, v) = Lock!Notice!Unannounced
  BY DEF LockAssumption, Lock!Init, Lock!NoticeOf, Lock!Notice!Unannounced
<1> QED BY <1>1 DEF Lock!Notice!Init, Lock!Init

\* Scheduling a value, or proposing code, announces it and withdraws the others.
LEMMA ScheduleMaps ==
    ASSUME LockAssumption, Lock!TypeOK, NEW p \in Lock!Params, NEW v \in Values,
           pending' = [pending EXCEPT ![p] = v], wait' = [wait EXCEPT ![p] = Delay],
           UNCHANGED value
    PROVE  Lock!Notice!Announce(p, v)
<1>1. Lock!NoticeOf(p, v)' = 0
  BY DEF LockAssumption, Lock!NoticeOf, Lock!TypeOK
<1>2. \A w \in Values \ {v} : Lock!NoticeOf(p, w)' = Lock!Notice!Unannounced
  BY DEF Lock!NoticeOf, Lock!TypeOK, Lock!Notice!Unannounced
<1>3. \A q \in Lock!Params \ {p} : \A w \in Values : Lock!NoticeOf(q, w)' = Lock!NoticeOf(q, w)
  BY DEF Lock!NoticeOf, Lock!TypeOK
<1> QED BY <1>1, <1>2, <1>3
        DEF Lock!Notice!Announce, Lock!Notice!OthersStandOrFall, Lock!Notice!Only, Lock!Notice!Unannounced

\* Applying a value uses up its announcement.
LEMMA ApplyMaps ==
    ASSUME LockAssumption, Lock!TypeOK, NEW p \in Lock!Params, NEW v \in Values,
           value[p] = Unset \/ (pending[p] = v /\ wait[p] = 0),
           value' = [value EXCEPT ![p] = v], pending' = [pending EXCEPT ![p] = None],
           \A q \in Lock!Params \ {p} : wait'[q] = wait[q]
    PROVE  Lock!Notice!TakeEffect(p, v)
<1>1. value[p] = Unset \/ Lock!NoticeOf(p, v) = Delay
  BY DEF LockAssumption, Lock!NoticeOf, Lock!TypeOK
<1>2. \A w \in Values : Lock!NoticeOf(p, w)' = Lock!Notice!Unannounced
  BY DEF LockAssumption, Lock!NoticeOf, Lock!TypeOK, Lock!Notice!Unannounced
<1>3. \A q \in Lock!Params \ {p} : \A w \in Values : Lock!NoticeOf(q, w)' = Lock!NoticeOf(q, w)
  BY DEF Lock!NoticeOf, Lock!TypeOK
<1>4. value'[p] = v /\ \A q \in Lock!Params \ {p} : value'[q] = value[q]
  BY DEF Lock!TypeOK
<1> QED BY <1>1, <1>2, <1>3, <1>4
        DEF Lock!Notice!TakeEffect, Lock!Notice!OthersStandOrFall, Lock!Notice!Only, Lock!Notice!Unannounced

LEMMA TickMaps == ASSUME LockAssumption, Lock!TypeOK, Lock!Tick PROVE Lock!Notice!Elapse
<1> SUFFICES ASSUME NEW p \in Lock!Params, NEW v \in Values
             PROVE  Lock!NoticeOf(p, v)' = IF Lock!NoticeOf(p, v) \in 0..(Delay - 1)
                                      THEN Lock!NoticeOf(p, v) + 1 ELSE Lock!NoticeOf(p, v)
  BY DEF Lock!Notice!Elapse, Lock!Tick
<1>1. wait[p] \in 0..Delay /\ wait'[p] = IF wait[p] > 0 THEN wait[p] - 1 ELSE 0
  BY DEF Lock!Tick, Lock!TypeOK
<1>2. pending' = pending
  BY DEF Lock!Tick
<1> QED BY <1>1, <1>2 DEF LockAssumption, Lock!NoticeOf

LEMMA StepMaps ==
    ASSUME LockAssumption, Lock!TypeOK, Lock!Next
    PROVE  Lock!Notice!Next
<1>1. CASE Lock!Tick
  BY <1>1, TickMaps DEF Lock!Notice!Next
<1>2. ASSUME NEW p \in Settings, NEW v \in Values,
             Lock!SetFirst(p, v) \/ Lock!Schedule(p, v) \/ Lock!Apply(p, v)
      PROVE  Lock!Notice!Next
  <2>1. p \in Lock!Params
    BY DEF Lock!Params
  <2>2. CASE Lock!SetFirst(p, v)
    <3>1. \A q \in Lock!Params \ {p} : wait'[q] = wait[q]
      BY <2>2 DEF Lock!SetFirst, Lock!TypeOK
    <3>2. Lock!Notice!TakeEffect(p, v)
      BY <2>1, <2>2, <3>1, ApplyMaps DEF Lock!SetFirst
    <3> QED BY <2>1, <3>2 DEF Lock!Notice!Next
  <2>3. CASE Lock!Schedule(p, v)
    <3>1. Lock!Notice!Announce(p, v)
      BY <2>1, <2>3, ScheduleMaps DEF Lock!Schedule
    <3> QED BY <2>1, <3>1 DEF Lock!Notice!Next
  <2>4. CASE Lock!Apply(p, v)
    <3>1. Lock!Notice!TakeEffect(p, v)
      BY <2>1, <2>4, ApplyMaps DEF Lock!Apply
    <3> QED BY <2>1, <3>1 DEF Lock!Notice!Next
  <2> QED BY <1>2, <2>2, <2>3, <2>4
<1>3. ASSUME NEW v \in Values, Lock!ProposeUpgrade(v) \/ Lock!Upgrade(v)
      PROVE  Lock!Notice!Next
  <2>1. Code \in Lock!Params
    BY DEF Lock!Params
  <2>2. CASE Lock!ProposeUpgrade(v)
    <3>1. Lock!Notice!Announce(Code, v)
      BY <2>1, <2>2, ScheduleMaps DEF Lock!ProposeUpgrade
    <3> QED BY <2>1, <3>1 DEF Lock!Notice!Next
  <2>3. CASE Lock!Upgrade(v)
    <3>1. Lock!Notice!TakeEffect(Code, v)
      BY <2>1, <2>3, ApplyMaps DEF Lock!Upgrade
    <3> QED BY <2>1, <3>1 DEF Lock!Notice!Next
  <2> QED BY <1>3, <2>2, <2>3
<1> QED BY <1>1, <1>2, <1>3 DEF Lock!Next

\* Every behaviour of the timelocked setters and upgrades is one that gives notice:
\* no value takes effect that was not announced, alone and unbroken, for Delay.
THEOREM NoticeGiven ==
    ASSUME LockAssumption
    PROVE  Lock!Spec => Lock!GivesNotice
<1>1. Lock!Init => Lock!Notice!Init
  BY InitMaps
<1>2. Lock!TypeOK /\ [Lock!Next]_Lock!vars => [Lock!Notice!Next]_<<value, N>>
  <2> SUFFICES ASSUME Lock!TypeOK, [Lock!Next]_Lock!vars PROVE [Lock!Notice!Next]_<<value, N>>
    OBVIOUS
  <2>1. CASE Lock!Next
    BY <2>1, StepMaps
  <2>2. CASE UNCHANGED Lock!vars
    BY <2>2 DEF Lock!vars, N, Lock!NoticeOf
  <2> QED BY <2>1, <2>2
<1>3. N = [p \in Lock!Params |-> [v \in Values |-> Lock!NoticeOf(p, v)]]
  BY DEF N
<1> QED BY <1>1, <1>2, <1>3, TimelockTypeCorrect, PTL DEF Lock!Spec, Lock!GivesNotice, Lock!Notice!Spec, N

=============================================================================
