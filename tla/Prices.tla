------------------------------- MODULE Prices -------------------------------
(***************************************************************************)
(* Where the peridottroller's price of a token comes from: a cached report *)
(* of the oracle, the oracle itself, or the price an admin configured, in  *)
(* that order and each within its own age (get_price_usd, require_price    *)
(* and try_require_price of simple-peridottroller/src/contract.rs).  The   *)
(* oracle is changed by set_oracle, one of Timelock's setters.             *)
(*                                                                         *)
(* Prices are told apart by who reported them, for which asset and how     *)
(* long ago.  Times are ages; one that has reached MaxAge, which exceeds   *)
(* every limit, stays there.                                               *)
(***************************************************************************)
EXTENDS Integers, FiniteSets

CONSTANTS
    Oracles,
    Resolution,         \* of each oracle, the interval of its reports
    Assets,             \* names the oracles know the token by
    Multipliers,        \* an admin may ask for
    FallbackMaxAge,     \* MAX_FALLBACK_PRICE_AGE_SECS
    MaxMultiplier,      \* MAX_ORACLE_MAX_AGE_MULTIPLIER
    Delay,              \* ADMIN_PARAM_CHANGE_DELAY_SECS
    Unset, None

\* Bounds of the model, not of the code.
CONSTANTS
    MaxAge,
    MaxSources          \* that have reported

Sources == Oracles \X Assets
Ages == 0..MaxAge

Reports == [kind : {"report"}, source : Sources, age : Ages]
Caches == [source : Sources, age : Ages, stamp : Ages, resolution : Nat]

ASSUME PricesAssumption ==
    /\ Unset \notin Nat \cup Oracles /\ None \notin Nat \cup Reports \cup Oracles
    /\ Resolution \in [Oracles -> Nat \ {0}]
    /\ Multipliers \subseteq Nat
    /\ FallbackMaxAge \in Nat /\ MaxMultiplier \in Nat /\ Delay \in Nat
    /\ MaxAge \in Nat /\ FallbackMaxAge < MaxAge
    /\ \A o \in Oracles, k \in Multipliers \cap 0..MaxMultiplier : k * Resolution[o] < MaxAge

VARIABLES
    supported,      \* SupportedToken
    asset,          \* the token, or its OracleAssetSymbol
    multiplier,     \* OracleMaxAgeMultiplier
    value, pending, wait,   \* of the oracle, as in Timelock
    cache,          \* PriceCache
    fallback,       \* FallbackPriceSetAt: None without FallbackPrice, Unset without a time
    report,         \* the age of what each source reported last, or None
    quote,          \* what was last quoted
    vouched         \* how long ago an admin set the fallback, or gave a legacy one a time

timelock == <<value, pending, wait>>
config == <<supported, asset, multiplier>>
vars == <<config, timelock, cache, fallback, report, quote, vouched>>

Setters == INSTANCE Timelock WITH
    Settings <- {"oracle"}, FirstAtOnce <- {"oracle"}, Code <- "code", Values <- Oracles

TypeOK ==
    /\ supported \in BOOLEAN /\ asset \in Assets /\ multiplier \in 1..MaxMultiplier
    /\ Setters!TypeOK
    /\ cache \in Caches \cup {None}
    /\ fallback \in Ages \cup {None, Unset}
    /\ report \in [Sources -> Ages \cup {None}]
    /\ quote \in Reports \cup {[kind |-> "fallback"], None}
    /\ vouched \in Ages \cup {None}

-----------------------------------------------------------------------------
(* Reading a price *)

oracle == value["oracle"]
InForce == <<oracle, asset>>
Admissible(age, resolution) == age <= multiplier * resolution

CacheIsFresh == cache # None /\ Admissible(cache.stamp, cache.resolution)
FallbackIsFresh == fallback \in 0..FallbackMaxAge

\* The oracle's answer, if it gives one, is of use.
Live ==
    /\ supported /\ oracle # Unset
    /\ report[InForce] # None
    /\ Admissible(report[InForce], Resolution[oracle])

Latest == report[InForce]

\* Mutant: a report is stored with the time it was asked for.
StampNow ==
    cache' = [source |-> InForce, age |-> Latest, stamp |-> 0, resolution |-> Resolution[oracle]]

\* Mutant: a report is stored when there is none.
StoreOnce ==
    cache' = IF cache # None THEN cache
             ELSE [source |-> InForce, age |-> Latest, stamp |-> Latest,
                   resolution |-> Resolution[oracle]]

\* A report is stored with the time the oracle gives it.
Store ==
    cache' = [source |-> InForce, age |-> Latest, stamp |-> Latest,
              resolution |-> Resolution[oracle]]

\* get_price_usd and the functions the liquidity checks read prices with: they
\* differ in what they do without a price, which changes nothing.
QuoteCached ==
    /\ CacheIsFresh
    /\ quote' = [kind |-> "report", source |-> cache.source, age |-> cache.age]
    /\ UNCHANGED <<config, timelock, cache, fallback, report, vouched>>

QuoteLive ==
    /\ ~CacheIsFresh /\ Live
    /\ Store
    /\ quote' = [kind |-> "report", source |-> InForce, age |-> Latest]
    /\ UNCHANGED <<config, timelock, fallback, report, vouched>>

\* Also where the oracle's answer would be of use: it may fail when asked.
QuoteFallback ==
    /\ ~CacheIsFresh /\ FallbackIsFresh
    /\ quote' = [kind |-> "fallback"]
    /\ UNCHANGED <<config, timelock, cache, fallback, report, vouched>>

\* cache_price, which anyone may call.
CachePrice ==
    /\ Live
    /\ Store
    /\ UNCHANGED <<config, timelock, fallback, report, quote, vouched>>

-----------------------------------------------------------------------------
(* Administration *)

SetOracle(o) ==
    /\ Setters!SetFirst("oracle", o) \/ Setters!Schedule("oracle", o) \/ Setters!Apply("oracle", o)
    /\ UNCHANGED <<config, cache, fallback, report, quote, vouched>>

SetOracleAssetSymbol(a) ==
    /\ asset' = a
    /\ UNCHANGED <<supported, multiplier, timelock, cache, fallback, report, quote, vouched>>

\* Mutant: only the upper limit is checked.
AnyMultiplier(k) ==
    /\ k <= MaxMultiplier
    /\ multiplier' = k
    /\ UNCHANGED <<supported, asset, timelock, cache, fallback, report, quote, vouched>>

SetOracleMaxAgeMultiplier(k) ==
    /\ k # 0 /\ k <= MaxMultiplier
    /\ multiplier' = k
    /\ UNCHANGED <<supported, asset, timelock, cache, fallback, report, quote, vouched>>

SetPriceFallback ==
    /\ fallback' = 0 /\ vouched' = 0
    /\ UNCHANGED <<config, timelock, cache, report, quote>>

RemovePriceFallback ==
    /\ fallback' = None /\ vouched' = None
    /\ UNCHANGED <<config, timelock, cache, report, quote>>

\* Mutant: a fallback with a time gets a new one.
BackfillAgain ==
    /\ fallback # None
    /\ fallback' = 0
    /\ vouched' = IF fallback = Unset THEN 0 ELSE vouched
    /\ UNCHANGED <<config, timelock, cache, report, quote>>

\* A fallback from before there were times gets the present one.
BackfillFallbackPriceSetAt ==
    /\ fallback = Unset
    /\ fallback' = 0 /\ vouched' = 0
    /\ UNCHANGED <<config, timelock, cache, report, quote>>

\* The token's market is added or removed (MarketRegistry).
SupportToken ==
    /\ supported' = ~supported
    /\ UNCHANGED <<asset, multiplier, timelock, cache, fallback, report, quote, vouched>>

-----------------------------------------------------------------------------
(* Around the contract *)

Grown(age) == IF age \in 0..(MaxAge - 1) THEN age + 1 ELSE age

\* An oracle publishes a price: its last one never becomes older.
Publish(s) ==
    /\ report' = [report EXCEPT ![s] = 0]
    /\ Cardinality({r \in Sources : report'[r] # None}) <= MaxSources
    /\ UNCHANGED <<config, timelock, cache, fallback, quote, vouched>>

Tick ==
    /\ Setters!Tick
    /\ report' = [s \in Sources |-> Grown(report[s])]
    /\ cache' = IF cache = None THEN None
                ELSE [cache EXCEPT !.age = Grown(@), !.stamp = Grown(@)]
    /\ quote' = IF quote \in Reports THEN [quote EXCEPT !.age = Grown(@)] ELSE quote
    /\ fallback' = Grown(fallback) /\ vouched' = Grown(vouched)
    /\ UNCHANGED config

-----------------------------------------------------------------------------
(* The system *)

\* A deployed contract may hold a fallback without a time.
Init ==
    /\ supported = TRUE
    /\ asset \in Assets
    /\ multiplier \in Multipliers \cap 1..MaxMultiplier
    /\ Setters!Init
    /\ cache = None /\ quote = None /\ vouched = None
    /\ fallback \in {None, Unset}
    /\ report = [s \in Sources |-> None]

Next ==
    \/ QuoteCached \/ QuoteLive \/ QuoteFallback \/ CachePrice
    \/ \E o \in Oracles : SetOracle(o)
    \/ \E a \in Assets : SetOracleAssetSymbol(a)
    \/ \E k \in Multipliers : SetOracleMaxAgeMultiplier(k)
    \/ SetPriceFallback \/ RemovePriceFallback \/ BackfillFallbackPriceSetAt
    \/ SupportToken
    \/ \E s \in Sources : Publish(s)
    \/ Tick

Spec == Init /\ [][Next]_vars

-----------------------------------------------------------------------------
(* Properties *)

Quoted == quote' # quote /\ config = config' /\ report = report'

\* Whatever became of the oracle, the symbol and the multiplier since a price was
\* reported, one quoted is no older than the multiplier in force times the
\* interval of the oracle that reported it, however it went through the cache
\* (get_price_usd).
QuotesAreRecent ==
    [][Quoted /\ quote'.kind = "report"
        => quote'.age <= multiplier * Resolution[quote'.source[1]]]_vars

\* Of two prices quoted one after the other from the same source, the second is
\* not the older one, though quotes come from the cache and from the oracle and a
\* change of the multiplier makes an expired cache valid again (cache_price).
QuotesAdvance ==
    [][Quoted /\ quote' \in Reports /\ quote \in Reports /\ quote'.source = quote.source
        => quote'.age <= quote.age]_vars

\* A configured price is quoted only within its age of the moment an admin
\* answered for it, by setting it or by giving a legacy one its time; no
\* further call lengthens that (backfill_fallback_price_set_at).
FallbackIsVouchedFor ==
    [][Quoted /\ quote'.kind = "fallback" => vouched \in 0..FallbackMaxAge]_vars

=============================================================================
