------------------------------ MODULE DayScan ------------------------------
(***************************************************************************)
(* The passes of the day worker: run of day_worker.py.  A pass fetches the *)
(* universe with retries, promotes some symbols to deep analysis, asks     *)
(* Coinalyze for derivatives of some of these, asks which coins can be     *)
(* borrowed, builds the candidates of both sides and commits the scan with *)
(* the setup of every symbol in one transaction.  Any request may fail,    *)
(* and a pass may die at any step.                                         *)
(*                                                                         *)
(* The journal, which is part of that transaction, is a module of its own. *)
(***************************************************************************)
EXTENDS DayGates, FiniteSets

CONSTANTS
    DayUniverse,   \* symbols that normalize_usdc_universe lets in
    DayCore,       \* DAY_CORE_DERIVATIVES_SYMBOLS
    DayAnalyses,   \* what an analysis of a symbol may be, before derivatives
    DayEffects,    \* what derivatives may add to expansion, direction, quality
    DeepLimit,     \* DAY_DEEP_LIMIT
    TargetLimit,   \* COINALYZE_ENRICH_LIMIT
    OutputLimit,   \* DAY_OUTPUT_LIMIT
    RetryPasses,   \* DAY_RETRY_PASSES
    MaxDayPasses   \* bound on the passes

ASSUME DayScanAssumption ==
    /\ DayCore \subseteq DayUniverse
    /\ DayAnalyses \subseteq SnapshotFields
    /\ DayEffects \subseteq [expansion : Int, direction : Int, quality : Int]
    /\ Cardinality(DayCore) <= TargetLimit

VARIABLES
    step,      \* where the pass is
    dayPasses, \* passes begun
    retries,   \* retry passes done
    fast,      \* symbols with fast bars
    deep,      \* symbols of the deep universe
    plain,     \* the analyses, by symbol, before any derivatives; kept for scan.plain
    enriched,  \* the same after enrich_coinalyze and apply_shortability
    scan,      \* cached day_trade_scan
    setups     \* cached day_trade_setup rows, by symbol

scanVars == <<step, dayPasses, retries, fast, deep, plain, enriched, scan, setups>>

Nothing == [symbol \in {} |-> 0]

\* k of the items that no other item is above.
TopOf(items, k, Above(_, _)) ==
    {top \in kSubset(Min({k, Cardinality(items)}), items) :
         \A x \in top, y \in items \ top : ~ Above(y, x)}

-----------------------------------------------------------------------------
(* Fetching *)

BeginDay ==
    /\ step = "idle" /\ dayPasses < MaxDayPasses
    /\ step' = "fast"
    /\ dayPasses' = dayPasses + 1
    /\ retries' = 0
    /\ fast' \in SUBSET DayUniverse
    /\ deep' = {} /\ plain' = Nothing /\ enriched' = Nothing
    /\ UNCHANGED <<scan, setups>>

\* A retry pass asks for what is missing, and only for that.
RetryFast ==
    /\ step = "fast" /\ fast # DayUniverse /\ retries < RetryPasses
    /\ retries' = retries + 1
    /\ \E more \in SUBSET (DayUniverse \ fast) : fast' = fast \cup more
    /\ UNCHANGED <<step, dayPasses, deep, plain, enriched, scan, setups>>

\* select_deep_universe: the core, and then at least one more.
SelectDeep ==
    /\ step = "fast" /\ (fast = DayUniverse \/ retries = RetryPasses)
    /\ step' = "deep"
    /\ LET core == DayCore \cap fast
           room == Max({1, DeepLimit - Cardinality(core)})
       IN  \E others \in kSubset(Min({room, Cardinality(fast \ core)}), fast \ core) :
               deep' = core \cup others
    /\ UNCHANGED <<dayPasses, retries, fast, plain, enriched, scan, setups>>

\* fetch_context and analyze_day_market; either may fail for a symbol.
AnalyseDay ==
    /\ step = "deep"
    /\ step' = "derivatives"
    /\ \E analysed \in SUBSET deep :
          plain' \in [analysed -> {[s EXCEPT !.shortable = FALSE] : s \in DayAnalyses}]
    /\ enriched' = plain'
    /\ UNCHANGED <<dayPasses, retries, fast, deep, scan, setups>>

-----------------------------------------------------------------------------
(* Derivatives and borrowing *)

\* setup_score of worker.py, the same for both directions.
AnySideScore(s) == Max({SetupScore("long", s), SetupScore("short", s)})

\* select_day_coinalyze_targets: the analysed core, then by setup score.
Targets ==
    LET core == DayCore \cap DOMAIN plain
        Better(x, y) == AnySideScore(plain[x]) > AnySideScore(plain[y])
    IN  {core \cup others : others \in TopOf(DOMAIN plain \ core, TargetLimit - Cardinality(core), Better)}

Clamp(low, high, n) == Max({low, Min({high, n})})

\* The score mutation of enrich_coinalyze, mutate_scores left at its default.
WithEffect(s, e) ==
    [s EXCEPT !.expansion = Clamp(0, 100, @ + e.expansion),
              !.direction = Clamp(-100, 100, @ + e.direction),
              !.quality = Clamp(0, 100, @ + e.quality)]

\* enrich_coinalyze: all endpoints answered; some targets have no market.
Enrich ==
    /\ step = "derivatives"
    /\ step' = "margin"
    /\ \E targets \in Targets : \E matched \in SUBSET targets :
          \E effect \in [matched -> DayEffects] :
              enriched' = [symbol \in DOMAIN plain |->
                              IF symbol \in matched THEN WithEffect(plain[symbol], effect[symbol])
                              ELSE plain[symbol]]
    /\ UNCHANGED <<dayPasses, retries, fast, deep, plain, scan, setups>>

\* enrich_coinalyze: an endpoint failed, and nothing is added at all.
EnrichFails ==
    /\ step = "derivatives"
    /\ step' = "margin"
    /\ UNCHANGED <<dayPasses, retries, fast, deep, plain, enriched, scan, setups>>

\* apply_shortability; when it fails, nothing can be sold short.
Borrow ==
    /\ step = "margin"
    /\ step' = "save"
    /\ \E borrowable \in SUBSET DOMAIN plain :
          /\ plain' = [symbol \in DOMAIN plain |-> [plain[symbol] EXCEPT !.shortable = symbol \in borrowable]]
          /\ enriched' = [symbol \in DOMAIN plain |-> [enriched[symbol] EXCEPT !.shortable = symbol \in borrowable]]
    /\ UNCHANGED <<dayPasses, retries, fast, deep, scan, setups>>

-----------------------------------------------------------------------------
(* Candidates, lists and the commit *)

Candidates ==
    {DayCandidate(symbol, side, enriched[symbol]) :
        symbol \in {x \in DOMAIN enriched : ~ enriched[x].tiny}, side \in DaySides}

DayListed(side, category) == {c \in Candidates : c.side = side /\ c.category = category}

BucketRank ==
    [NEAR_STRICT |-> 4, BARRIER_BLOCKED_VALID_SETUP |-> 3, LOW_CONVICTION |-> 1,
     POOR_RR |-> 0, LIQUIDITY_OR_BORROW_BLOCKED |-> -1]

\* watch_rank down to the expected RR; what it says of equals is left open.
WatchRank(c) == 200 * BucketRank[c.bucket] + (IF c.executable THEN 100 ELSE 0) + c.rr

ByScore(x, y) == x.score > y.score
ByWatchRank(x, y) == WatchRank(x) > WatchRank(y)

\* Mutant: the side that comes last is kept.
BestSetupLast(symbol) ==
    CHOOSE c \in Candidates :
        c.symbol = symbol /\ \A d \in Candidates : d.symbol = symbol => c.side = "short" \/ d.side = "long"

\* persist_day_results: the side with the higher score, long when equal.
BestSetup(symbol) ==
    CHOOSE c \in Candidates :
        /\ c.symbol = symbol
        /\ \A d \in Candidates :
              d.symbol = symbol => c.score > d.score \/ (c.score = d.score /\ (c.side = "long" \/ d.side = "short"))

\* The end of run and persist_day_results, in one transaction.
SaveDay ==
    /\ step = "save"
    /\ step' = "idle"
    /\ \E longs \in TopOf(DayListed("long", "STRICT"), OutputLimit, ByScore),
          shorts \in TopOf(DayListed("short", "STRICT"), OutputLimit, ByScore),
          watchLongs \in TopOf(DayListed("long", "WATCH_ONLY"), OutputLimit, ByWatchRank),
          watchShorts \in TopOf(DayListed("short", "WATCH_ONLY"), OutputLimit, ByWatchRank) :
          scan' = [longs |-> longs, shorts |-> shorts, watchLongs |-> watchLongs, watchShorts |-> watchShorts,
                   plain |-> plain]
    /\ setups' = [symbol \in DOMAIN setups \cup {c.symbol : c \in Candidates} |->
                     IF \E c \in Candidates : c.symbol = symbol THEN BestSetup(symbol) ELSE setups[symbol]]
    /\ fast' = {} /\ deep' = {} /\ plain' = Nothing /\ enriched' = Nothing
    /\ UNCHANGED <<dayPasses, retries>>

\* The pass ends without a commit: no market, no candidate fetched, a database
\* error or the end of the process.
Die ==
    /\ step # "idle"
    /\ step' = "idle"
    /\ fast' = {} /\ deep' = {} /\ plain' = Nothing /\ enriched' = Nothing
    /\ UNCHANGED <<dayPasses, retries, scan, setups>>

-----------------------------------------------------------------------------

NoDayScan == [longs |-> {}, shorts |-> {}, watchLongs |-> {}, watchShorts |-> {}, plain |-> Nothing]

ScanInit ==
    /\ step = "idle" /\ dayPasses = 0 /\ retries = 0
    /\ fast = {} /\ deep = {}
    /\ plain = Nothing /\ enriched = Nothing
    /\ scan = NoDayScan /\ setups = Nothing

ScanNext ==
    BeginDay \/ RetryFast \/ SelectDeep \/ AnalyseDay \/ Enrich \/ EnrichFails \/ Borrow \/ SaveDay \/ Die

ScanSpec == ScanInit /\ [][ScanNext]_scanVars

-----------------------------------------------------------------------------

\* The setup served for a symbol with a strict candidate is that candidate,
\* however many strict ones the lists have no room for, and whichever passes
\* failed: the score of the other side has no direction in it.
StrictSetupIsServed ==
    \A c \in scan.longs \cup scan.shorts :
        c.symbol \in DOMAIN setups /\ setups[c.symbol] = c

\* What is strict is so by the market alone: derivatives are no gate ("nem
\* emelhet NO-TRADE setupot strict TRADE-re", BACKEND_SPEC_HU.md:18: missing or
\* degraded derivatives neither make a strict setup nor unmake one).  The code
\* lets them move the scores.
DerivativesAreNoGate ==
    \A c \in scan.longs \cup scan.shorts \cup scan.watchLongs \cup scan.watchShorts :
        c.category = "STRICT" <=> Strict(c.side, scan.plain[c.symbol])

=============================================================================
