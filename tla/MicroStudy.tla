----------------------------- MODULE MicroStudy -----------------------------
(***************************************************************************)
(* The preregistered studies of order-book buckets before the signals of   *)
(* the journal: alignment.py with its versions, readiness.py, the status   *)
(* routes that read both, effect_test_v3.py, and the scripts that check    *)
(* the routes in production.  A report is several statements on several    *)
(* connections, between which signals are journalled.                      *)
(*                                                                         *)
(* Time is counted in buckets.  Version 1 is a strategy whose study is     *)
(* over (v3 of the code, 0.7.5), version 2 the one that replaces it (v5,   *)
(* 0.7.7).  What a feature is computed from stands for the feature.        *)
(***************************************************************************)
EXTENDS Integers, FiniteSets, Sequences, FiniteSetsExt

CONSTANTS
    StudySymbols,  \* MicrostructureConfig.symbols
    BarBuckets,    \* buckets in a bar of the journal
    Lookback,      \* LOOKBACK_SECONDS, in buckets
    Windows,       \* WINDOW_SECONDS, in buckets
    MinTotal,      \* MIN_SIGNAL_SAMPLE_TOTAL
    MinPerSymbol,  \* MIN_SIGNAL_SAMPLE_PER_SYMBOL
    MinSpan,       \* MIN_DURATION_HOURS, in buckets
    MinContinuity, \* MIN_CONTINUITY_RATIO, in percent
    MinBookReady,   \* MIN_BOOK_READY_RATIO, in percent
    MinBookMessage, \* MIN_BOOK_MESSAGE_RATIO, in percent
    MaxAge,        \* MAX_FRESHNESS_SECONDS, in buckets
    LastTime,      \* bound on the time
    Fragile,       \* <<symbol, bucket>> that the recorder may fail to store
    BookUnready,   \* <<symbol, bucket>> whose row says that its book is not ready
    BookSilent,    \* <<symbol, bucket>> whose row has no message of the book
    MaxSignals     \* bound on the journal

ASSUME StudyAssumption ==
    /\ IsFiniteSet(StudySymbols) /\ StudySymbols # {}
    /\ {BarBuckets, Lookback, MinTotal, MinPerSymbol} \subseteq Nat \ {0}
    /\ Windows \subseteq 1 .. Lookback
    /\ {MinSpan, MinContinuity, MinBookReady, MinBookMessage,
        MaxAge, LastTime, MaxSignals} \subseteq Nat

VARIABLES
    time,      \* buckets that are over
    lost,      \* <<symbol, bucket>> that the recorder did not store
    listed,    \* day_trade_signal_journal, in the order of its ids
    live,      \* version of the strategy that runs
    start,     \* start[v]: COHORT_START_AT of the study of v, 0 before it is set
    report,    \* the report under way, or the last one
    published  \* cohort of the last COMPLETE effect report, or {}

studyVars == <<time, lost, listed, live, start, report, published>>

Later(a, b) == IF a > b THEN a ELSE b

Stored(s) == {b \in 0 .. time - 1 : <<s, b>> \notin lost}

NoReport == [kind |-> "none", version |-> 0, since |-> 0, until |-> 0,
             rows |-> {}, counts |-> [s \in StudySymbols |-> 0],
             todo |-> {}, late |-> 0]

StudyInit ==
    /\ time = 0 /\ lost = {} /\ listed = << >>
    /\ live = 1 /\ start = <<1, 0>>
    /\ report = NoReport /\ published = {}

-----------------------------------------------------------------------------
(* The readiness of the buckets *)

\* A bucket of every symbol is over, and stored or lost for good.  A report reads
\* no bucket newer than its start: time may stand still until it ends.
NextBucket ==
    /\ time < LastTime
    /\ report = NoReport
    /\ time' = time + 1
    /\ \E gone \in SUBSET {f \in Fragile : f[2] = time} : lost' = lost \cup gone
    /\ UNCHANGED <<listed, live, start, report, published>>

\* A share of the buckets that are there lacks nothing.
MostHave(s, without, percent) ==
    100 * Cardinality({b \in Stored(s) : <<s, b>> \notin without})
        >= percent * Cardinality(Stored(s))

\* summarize_readiness, for one symbol: long enough, few gaps, a book in most
\* of the buckets, and fresh.
SymbolReady(s) ==
    /\ Stored(s) # {}
    /\ LET first == Min(Stored(s))
           last == Max(Stored(s))
       IN  /\ last - first >= MinSpan
           /\ 100 * Cardinality(Stored(s)) >= MinContinuity * (last - first + 1)
           /\ MostHave(s, BookUnready, MinBookReady)
           /\ MostHave(s, BookSilent, MinBookMessage)
           /\ time - last <= MaxAge

BucketsReady == \A s \in StudySymbols : SymbolReady(s)

\* since = max(first_bucket_at)
CommonStart == Max({Min(Stored(s)) : s \in StudySymbols})

-----------------------------------------------------------------------------
(* The journal and the life of a strategy *)

Verified == start[2] # 0

\* A run of the day worker journals a signal of the newest bar or, if it is late,
\* of the one before.
ListSignal(s, opened, v) ==
    /\ Len(listed) < MaxSignals
    /\ opened \in {BarBuckets * n : n \in 1 .. time}
    /\ time - 2 * BarBuckets < opened /\ opened <= time
    /\ v = live
    /\ listed' = Append(listed, [symbol |-> s, opened |-> opened, version |-> v,
                                 verified |-> Verified, closed |-> FALSE])
    /\ report' = [report EXCEPT !.late = IF report = NoReport THEN 0 ELSE @ + 1]
    /\ UNCHANGED <<time, lost, live, start, published>>

\* persist_day_journal closes rows of its own version only.  Nothing here reads
\* outcomes of the second strategy.
CloseSignal(i) ==
    /\ ~ listed[i].closed
    /\ listed[i].version = live /\ live = 1
    /\ listed' = [listed EXCEPT ![i].closed = TRUE]
    /\ UNCHANGED <<time, lost, live, start, report, published>>

Upgrade ==
    /\ live = 1
    /\ live' = 2
    /\ UNCHANGED <<time, lost, listed, start, report, published>>

\* The build is verified in production, and the cohort starts after that: the
\* constants of alignment_v5 that the next change brings.
Verify ==
    /\ live = 2 /\ ~ Verified
    /\ start' = [start EXCEPT ![2] = time + 1]
    /\ UNCHANGED <<time, lost, listed, live, report, published>>

-----------------------------------------------------------------------------
(* The statements of a report *)

\* Mutant: the bucket that begins when the signal opens counts.
AlignedWithOpening(r) == {b \in Stored(r.symbol) : r.opened - Lookback <= b /\ b <= r.opened}

\* ALIGNMENT_SQL: a row for every bucket of the minute before the signal.
AlignedBuckets(r) == {b \in Stored(r.symbol) : r.opened - Lookback <= b /\ b < r.opened}

\* _window_features: what the features of each window are computed from.
WindowFeatures(r) ==
    [w \in Windows |-> {b \in AlignedBuckets(r) : r.opened - w <= b}]

InCohort(r, v, since, until) ==
    r.version = v /\ since <= r.opened /\ r.opened < until

\* load_feature_rows of a version: signals without a bucket have no row.
FeatureRows(v, since, until) ==
    {[id |-> i, symbol |-> listed[i].symbol, opened |-> listed[i].opened,
      windows |-> WindowFeatures(listed[i])] :
        i \in {j \in DOMAIN listed : /\ InCohort(listed[j], v, since, until)
                                     /\ AlignedBuckets(listed[j]) # {}}}

FeaturesV3(since, until) == FeatureRows(1, Later(since, start[1]), until)

\* Mutant: the cohort of the second study begins with its version, not with
\* the build that was verified.
FeaturesAnyBuild(since, until) == FeatureRows(2, since, until)

FeaturesV5(since, until) == FeatureRows(2, Later(since, start[2]), until)

SignalCounts(v, since, until) ==
    [s \in StudySymbols |->
        Cardinality({i \in DOMAIN listed : /\ listed[i].symbol = s
                                           /\ InCohort(listed[i], v, since, until)})]

CountsV3(since, until) == SignalCounts(1, Later(since, start[1]), until)
CountsV5(since, until) == SignalCounts(2, Later(since, start[2]), until)

\* sample_readiness
OfSymbol(rows, s) == {r \in rows : r.symbol = s}
SampleReady(rows) ==
    /\ Cardinality(rows) >= MinTotal
    /\ \A s \in StudySymbols : Cardinality(OfSymbol(rows, s)) >= MinPerSymbol

\* build_alignment_coverage
Unaligned(rows, counts, s) == Later(0, counts[s] - Cardinality(OfSymbol(rows, s)))

\* Mutant: more rows than signals pass for a full coverage.
CoverageUnchecked(rows, counts) ==
    IF \A s \in StudySymbols : counts[s] = 0 THEN "WAITING_FOR_FORWARD_SIGNALS"
    ELSE IF \E s \in StudySymbols : Unaligned(rows, counts, s) > 0
      THEN "COVERAGE_FAILURE"
      ELSE "ALIGNED"

CoverageStatus(rows, counts) ==
    IF \E s \in StudySymbols : Cardinality(OfSymbol(rows, s)) > counts[s]
      THEN "COUNT_INCONSISTENCY"
    ELSE IF \A s \in StudySymbols : counts[s] = 0 THEN "WAITING_FOR_FORWARD_SIGNALS"
    ELSE IF \E s \in StudySymbols : Unaligned(rows, counts, s) > 0
      THEN "COVERAGE_FAILURE"
      ELSE "ALIGNED"

\* Mutant: the sample alone decides.
SampleAlone(rows, counts) == SampleReady(rows)

\* build_alignment_v3_status, build_alignment_v5_status: all three gates.
StudyReady(rows, counts) == CoverageStatus(rows, counts) = "ALIGNED" /\ SampleReady(rows)

-----------------------------------------------------------------------------
(* A report *)

\* The first study reports on its effects, which begins with a report on its
\* sample, and the second one on its sample.  The routes came with a build whose
\* worker runs the second strategy.
Studies == {<<"effect", 1>>, <<"alignment", 2>>}

\* get_readiness, and the interval that the statements after it are about.
StartReport(kind, v) ==
    /\ report = NoReport
    /\ <<kind, v>> \in Studies
    /\ Verified
    /\ BucketsReady
    /\ report' = [NoReport EXCEPT !.kind = kind, !.version = v, !.since = CommonStart,
                                  !.until = time, !.todo = {"rows", "counts"}]
    /\ UNCHANGED <<time, lost, listed, live, start, published>>

\* The two halves of asyncio.gather.
LoadRows ==
    /\ "rows" \in report.todo
    /\ report' = [report EXCEPT
          !.rows = IF report.version = 1 THEN FeaturesV3(report.since, report.until)
                                         ELSE FeaturesV5(report.since, report.until),
          !.todo = @ \ {"rows"}]
    /\ UNCHANGED <<time, lost, listed, live, start, published>>

LoadCounts ==
    /\ "counts" \in report.todo
    /\ report' = [report EXCEPT
          !.counts = IF report.version = 1 THEN CountsV3(report.since, report.until)
                                           ELSE CountsV5(report.since, report.until),
          !.todo = @ \ {"counts"}]
    /\ UNCHANGED <<time, lost, listed, live, start, published>>

Loaded == report # NoReport /\ report.todo = {}

\* sorted by (opened_at, signal_id)
Before(a, b) == a.opened < b.opened \/ (a.opened = b.opened /\ a.id < b.id)

\* The prefix that ends with a row.
UpTo(rows, r) == {q \in rows : ~ Before(r, q)}

\* Mutant: every report looks at all there is.
WholeSample(rows) == {q \in rows : SampleReady(rows)}

\* select_earliest_ready_cohort: the shortest prefix that fills the sample.
EarliestCohort(rows) ==
    LET filled == {r \in rows : SampleReady(UpTo(rows, r))}
    IN  {q \in rows : filled # {} /\ \A r \in filled : ~ Before(r, q)}

Ids(cohort) == {r.id : r \in cohort}

\* load_closed_outcomes
ClosedOf(ids) == {i \in ids : listed[i].closed}

\* analyze_preregistered_effects waits until no outcome is missing.
Analysed(cohort) == cohort # {} /\ ClosedOf(Ids(cohort)) = Ids(cohort)

ReportReady == StudyReady(report.rows, report.counts)

\* An alignment report ends with its rows and counts.
FinishAlignment ==
    /\ Loaded /\ report.kind = "alignment"
    /\ report' = NoReport
    /\ UNCHANGED <<time, lost, listed, live, start, published>>

\* An effect report reads outcomes for the cohort of a ready sample, and is
\* COMPLETE when all of them are there.
FinishEffect ==
    /\ Loaded /\ report.kind = "effect"
    /\ report' = NoReport
    /\ LET cohort == IF ReportReady THEN EarliestCohort(report.rows) ELSE {}
       IN  published' = IF Analysed(cohort) THEN cohort ELSE published
    /\ UNCHANGED <<time, lost, listed, live, start>>

StudyNext ==
    \/ NextBucket \/ Upgrade \/ Verify
    \/ \E s \in StudySymbols, opened \in 1 .. LastTime, v \in 1 .. 2 : ListSignal(s, opened, v)
    \/ \E i \in DOMAIN listed : CloseSignal(i)
    \/ \E study \in Studies : StartReport(study[1], study[2])
    \/ LoadRows \/ LoadCounts \/ FinishAlignment \/ FinishEffect

StudySpec == StudyInit /\ [][StudyNext]_studyVars

-----------------------------------------------------------------------------
(* The check of the status in production *)

\* A sum of naturals counts as many things of each index as its number says.
Units(f) == UNION {{i} \X (1 .. f[i]) : i \in DOMAIN f}
SumOver(f) == Cardinality(Units(f))

\* production_microstructure_alignment_status_v5: the counts of the payload add
\* up, its status follows from them, and so does its readiness.
CheckAccepts ==
    LET journal == SumOver(report.counts)
        aligned == Cardinality(report.rows)
        missing == SumOver([s \in StudySymbols |-> Unaligned(report.rows, report.counts, s)])
        status == CoverageStatus(report.rows, report.counts)
    IN  /\ journal = aligned + missing
        /\ journal = 0 => status = "WAITING_FOR_FORWARD_SIGNALS"
        /\ journal > 0 /\ missing = 0 => status = "ALIGNED"
        /\ missing > 0 => status = "COVERAGE_FAILURE"
        /\ ReportReady => status = "ALIGNED"

-----------------------------------------------------------------------------
(* Properties *)

\* The signals of a study since..until, with those that have no row.
Population(v, since, until) ==
    {i \in DOMAIN listed : InCohort(listed[i], v, Later(since, start[v]), until)}

\* A row of the second study is of a signal that the verified build journalled,
\* and every row is computed from buckets that were over when its signal opened.
SampleIsForward ==
    \A r \in report.rows :
        /\ listed[r.id].version = report.version
        /\ report.version = 2 => listed[r.id].verified
        /\ \A w \in Windows : \A b \in r.windows[w] : b + 1 <= listed[r.id].opened

\* A report that is ready lacks rows of no more signals than came between its
\* statements and its end: one that came between them may hide another one.
ReadyIsExact ==
    Loaded /\ ReportReady =>
        Cardinality(Population(report.version, report.since, report.until))
            <= Cardinality(report.rows) + report.late

\* Outcomes are published only for a sample that fills every gate, and that no
\* signal of the study up to its last one is missing from.
LabelsAreGated ==
    published # {} =>
        /\ SampleReady(published)
        /\ \A r \in published : \A i \in Population(1, CommonStart, r.opened + 1) :
              ~ Before(r, [opened |-> listed[i].opened, id |-> i]) => i \in Ids(published)

\* The check in production accepts a report exactly if its statements agree.
CheckIsRight ==
    Loaded /\ report.kind = "alignment" =>
        (CheckAccepts <=> CoverageStatus(report.rows, report.counts) # "COUNT_INCONSISTENCY")

\* The cohort of an effect report that was COMPLETE once is that of every later
\* one, though it is stored nowhere: its strategy is over.
CohortIsFrozen == [][published # {} => published' = published]_published

\* A preregistered study of order-book buckets looks at nothing it should not,
\* misses nothing it should count, and does not change what it has published.
BucketStudyIsSound ==
    /\ [](SampleIsForward /\ ReadyIsExact /\ LabelsAreGated /\ CheckIsRight)
    /\ CohortIsFrozen
=============================================================================
