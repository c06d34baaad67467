--------------------------- MODULE SwingTriggers ---------------------------
(***************************************************************************)
(* The label-blind events of the swing-liquidity trial and their cohorts:  *)
(* swing_liquidity_event_builder.py with its contract, the endpoint        *)
(* forward_event_status, and swing_liquidity_cohort_partition.py.          *)
(*                                                                         *)
(* No event is stored.  Each report builds all of them anew from the       *)
(* captures in the database and the last bars of the exchange.  A slot is  *)
(* a part of a four-hour bar; bar b closes at slot b * BarSlots.  A        *)
(* candidate is the level of its frozen trigger, oriented so that a close  *)
(* above it triggers, or Ineligible; a capture has none for some keys.  A  *)
(* key is a symbol with a side, and keys are numbered in the order of      *)
(* their event ids.                                                        *)
(***************************************************************************)
EXTENDS Naturals, FiniteSets

CONSTANTS
    TriggerKeys,     \* numbers of (symbol, side)
    Candidates4h,    \* the candidates a capture may hold, functions of some of the keys
    BarCloses,          \* what a bar may close at, functions of the keys
    LastSlot4h,      \* bound on the clock
    BarSlots,        \* slots of a bar
    MaxSnapshotAge,  \* MAX_PRETRIGGER_SNAPSHOT_AGE
    OutcomeHorizon,  \* OUTCOME_HORIZON
    KlineLimit,      \* closed bars among the 300 of the endpoint
    DevelopmentSize, \* DEVELOPMENT_TARGET_MATURED_EVENTS
    MaxSnapshots     \* bound on the captures

ASSUME TriggerAssumption ==
    /\ TriggerKeys \subseteq Nat /\ IsFiniteSet(TriggerKeys)
    /\ BarSlots \in Nat /\ BarSlots > 1 /\ OutcomeHorizon > 0
    /\ {LastSlot4h, MaxSnapshotAge, OutcomeHorizon, KlineLimit, DevelopmentSize, MaxSnapshots}
           \subseteq Nat

VARIABLES
    slot,      \* the clock
    closes,    \* closes of the bars so far
    posting,   \* the capture on its way to the database, or NoSnapshot
    snapshots4h, \* the captures stored, one row with the candidates of all keys
    klines,    \* the klines a report has fetched, or NoKlines
    report,    \* the last report
    settled,   \* matured events that a report has shown
    cohort     \* DEVELOPMENT of the first complete report that had one

triggerVars == <<slot, closes, posting, snapshots4h, klines, report, settled, cohort>>

Ineligible == 9
NoSnapshot == [at |-> 0, available |-> 0, candidate |-> <<>>]
NoKlines == [bars |-> <<>>, failed |-> {}, at |-> 0]
NoReport == [events |-> {}, development |-> {}, validation |-> {}, complete |-> FALSE]

CloseOf(bar) == bar * BarSlots

-----------------------------------------------------------------------------
(* The events *)

\* pretrigger_snapshot_age_seconds: strictly before the close, and not long.
Pretrigger(s, bar) ==
    /\ s.available < CloseOf(bar)
    /\ CloseOf(bar) - s.available <= MaxSnapshotAge

\* select_pretrigger_snapshot: the latest of those that have the key, none or one.
Selected(rows, key, bar) ==
    LET fresh == {s \in rows : key \in DOMAIN s.candidate /\ Pretrigger(s, bar)}
    IN  {s \in fresh : \A o \in fresh \ {s} :
            o.available < s.available \/ (o.available = s.available /\ s.at < o.at)}

\* close_satisfies_frozen_trigger
Triggers(candidate, close) == candidate # Ineligible /\ close > candidate

\* build_trigger_events for every key with klines: one event for a bar.
Built(rows, fetched) ==
    {e \in [key : TriggerKeys \ fetched.failed, bar : DOMAIN fetched.bars,
            source : {s.at : s \in rows}] :
        \E s \in Selected(rows, e.key, e.bar) :
            /\ s.at = e.source
            /\ Triggers(s.candidate[e.key], fetched.bars[e.bar][e.key])}

\* Mutant: an event counts as soon as it has triggered.
MaturedAtOnce(e, now) == CloseOf(e.bar) <= now

\* maturity_at
Matured(e, now) == CloseOf(e.bar) + OutcomeHorizon <= now

\* Mutant: the events stay in the order of the keys they were built in.
PrecedesByKey(d, e) == d.key < e.key \/ (d.key = e.key /\ d.bar < e.bar)

\* build_label_blind_cohort_partition: by trigger time, then by id.
Precedes4h(d, e) == d.bar < e.bar \/ (d.bar = e.bar /\ d.key < e.key)
DevelopmentOf(events, now) ==
    IF Cardinality({e \in events : Matured(e, now)}) < DevelopmentSize THEN {}
    ELSE {e \in events : Cardinality({d \in events : Precedes4h(d, e)}) < DevelopmentSize}

-----------------------------------------------------------------------------
(* Captures *)

\* collect_snapshot: the features are available when the last book has come.
CollectFeatures(candidate, available) ==
    /\ posting = NoSnapshot /\ Cardinality(snapshots4h) < MaxSnapshots
    /\ \A s \in snapshots4h : s.at # slot
    /\ posting' = [at |-> slot, available |-> available, candidate |-> candidate]
    /\ UNCHANGED <<slot, closes, snapshots4h, klines, report, settled, cohort>>

PostFeatures ==
    /\ posting # NoSnapshot /\ posting.available <= slot
    /\ snapshots4h' = snapshots4h \cup {posting}
    /\ posting' = NoSnapshot
    /\ UNCHANGED <<slot, closes, klines, report, settled, cohort>>

\* The clock; a post or a report, a matter of seconds, may begin in one slot
\* and end in the next.
NextSlot(close) ==
    /\ slot < LastSlot4h
    /\ posting # NoSnapshot => slot <= posting.available
    /\ klines # NoKlines => slot = klines.at
    /\ slot' = slot + 1
    /\ closes' = IF slot' % BarSlots = 0
                 THEN [b \in 1..(slot' \div BarSlots) |->
                          IF b \in DOMAIN closes THEN closes[b] ELSE close]
                 ELSE closes
    /\ UNCHANGED <<posting, snapshots4h, klines, report, settled, cohort>>

-----------------------------------------------------------------------------
(* forward_event_status *)

LastBars(bars) ==
    LET n == Cardinality(DOMAIN bars)
    IN  [b \in {i \in DOMAIN bars : i + KlineLimit > n} |-> bars[b]]

\* The klines come with the running bar at the price of the moment; a symbol
\* that fails is left out.
FetchKlines(price, failed) ==
    /\ klines = NoKlines
    /\ LET running == Cardinality(DOMAIN closes) + 1
       IN  klines' = [bars |-> [b \in DOMAIN LastBars(closes) \cup {running} |->
                                   IF b = running THEN price ELSE closes[b]],
                      failed |-> failed, at |-> slot]
    /\ UNCHANGED <<slot, closes, posting, snapshots4h, report, settled, cohort>>

\* checked_at is taken after the fetch: compact_closed_4h_candles keeps the
\* bars that have closed by then, also the one that was running.
Report ==
    /\ klines # NoKlines
    /\ LET fetched == [klines EXCEPT !.bars =
                          [b \in {i \in DOMAIN klines.bars : CloseOf(i) <= slot} |-> klines.bars[b]]]
           events == Built(snapshots4h, fetched)
           development == DevelopmentOf(events, slot)
           complete == klines.failed = {} /\ Cardinality(DOMAIN closes) <= KlineLimit
       IN  /\ report' = [events |-> events, development |-> development, complete |-> complete,
                         validation |-> IF development = {} THEN {} ELSE events \ development]
           /\ settled' = settled \cup {e \in events : Matured(e, slot)}
           /\ cohort' = IF complete /\ cohort = {} THEN development ELSE cohort
    /\ klines' = NoKlines
    /\ UNCHANGED <<slot, closes, posting, snapshots4h>>

TriggersInit ==
    /\ slot = 1 /\ closes = <<>>
    /\ posting = NoSnapshot /\ snapshots4h = {}
    /\ klines = NoKlines /\ report = NoReport
    /\ settled = {} /\ cohort = {}

TriggersNext ==
    \/ \E candidate \in Candidates4h, available \in {slot, slot + 1} :
           CollectFeatures(candidate, available)
    \/ PostFeatures
    \/ \E close \in BarCloses : NextSlot(close) \/ \E failed \in SUBSET TriggerKeys : FetchKlines(close, failed)
    \/ Report

TriggersSpec == TriggersInit /\ [][TriggersNext]_triggerVars

-----------------------------------------------------------------------------
(* Properties *)

\* No event is stored, yet a matured one, once shown, is in every later report
\* that misses no symbol and no bar, with the capture it had, although captures
\* were posted late and a bar was read before it closed.
MaturedStays == report.complete => settled \subseteq report.events

\* DEVELOPMENT is what the first such report said, all of it matured and before
\* all of VALIDATION.
CohortStays ==
    report.complete /\ cohort # {} =>
        /\ report.development = cohort
        /\ \A d \in report.development, v \in report.validation : Precedes4h(d, v)
        /\ report.development \subseteq settled

SwingCohortIsStable == MaturedStays /\ CohortStays
=============================================================================
