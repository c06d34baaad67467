----------------------------- MODULE EventReplay -----------------------------
(***************************************************************************)
(* The two studies that replay sweep events over the bars of one symbol:   *)
(* diagnostics_v073.py keeps every event, also those that never confirm,   *)
(* and wants a whole horizon behind it; sweep_replay.py keeps the ones     *)
(* that are ready for an entry, once for each cohort they belong to, and   *)
(* takes as much of the horizon as there is.  Each then picks a primary    *)
(* sample without overlap.                                                 *)
(*                                                                         *)
(* The bars are those of Replay, fetched and sorted.  The events are data, *)
(* as is what the analysis of their bar says; Sweep has the detector.  A   *)
(* phase an event did not reach is NoPlace.                                *)
(***************************************************************************)
EXTENDS Replay

CONSTANTS
    EventMarkets,    \* bars with what each of them touches
    SweepEvents,     \* [side, sweep, reclaim, shift, fit, pass, conflict]
    MaxEvents,       \* bound on the events of a symbol
    EventHorizons,   \* DIAGNOSTIC_HORIZON_HOURS, in bars
    RangeStart, RangeEnd, \* start_at and end_at
    DevelopmentEnd,  \* development_end_at, validation_start
    MaxConfirmBars   \* max_confirmation_bars

ASSUME EventAssumption ==
    /\ EventHorizons \subseteq Nat \ {0} /\ OutcomeBars \in EventHorizons
    /\ \A h \in EventHorizons : h <= OutcomeBars
    /\ {MaxEvents, RangeStart, RangeEnd, DevelopmentEnd, MaxConfirmBars} \subseteq Nat
    /\ \A bars \in EventMarkets : DOMAIN bars \subseteq Nat /\ IsFiniteSet(DOMAIN bars)
    /\ SweepEvents \subseteq [side : Directions, sweep : Nat \ {0}, reclaim : Nat, shift : Nat,
                             fit : BOOLEAN, pass : BOOLEAN, conflict : BOOLEAN]
    /\ \A bars \in EventMarkets, e \in SweepEvents :
           {e.sweep, e.reclaim, e.shift} \subseteq 0..Cardinality(DOMAIN bars)

VARIABLES
    study,       \* "diagnostics" or "sweeps"
    eventsLeft,  \* events still to be replayed
    rowsLeft,    \* rows of the sweep replay without their annotation
    sampled      \* the rows of the study, in order

eventVars == <<study, eventsLeft, rowsLeft, sampled>>

NoPlace == 0
CohortNumber == [SWEEP_4H_CONTEXT |-> 1, SWEEP_4H_VETO |-> 2, SWEEP_ENTRY_READY_RAW |-> 3]

-----------------------------------------------------------------------------
(* The path behind an event *)

\* Mutant: the path begins with the bar that confirms the event.
FutureWithConfirmation(place, horizon) ==
    {p \in DOMAIN starts : place <= p /\ p <= place + horizon}

\* future_bars
Future(place, horizon) ==
    {p \in DOMAIN starts : place < p /\ p <= place + horizon}

\* evaluate_path and evaluate_outcome: a bar that touches both is a stop.
Path(side, place, horizon) ==
    LET future == Future(place, horizon)
        exit == Min({p \in future : Ended(Touch(side, p))} \cup {Max(future)})
    IN  [closed |-> CloseOf(exit), reason |-> ExitReason(Touch(side, exit)),
         observed |-> Cardinality({p \in future : p <= exit})]

\* build_sensitivity
Sensitivity(side, place) == [h \in EventHorizons |-> Path(side, place, h)]
NoSensitivity == [h \in {} |-> 0]

SideNumber(side) == IF side = "long" THEN 1 ELSE 2

\* The first row in the order of a key that is a sequence of numbers.
Lower(k, l) ==
    \E i \in DOMAIN k : k[i] < l[i] /\ \A j \in 1..i - 1 : k[j] = l[j]
FirstBy(S, Key(_)) == CHOOSE x \in S : \A y \in S \ {x} : Lower(Key(x), Key(y))

-----------------------------------------------------------------------------
(* The primary sample *)

\* Mutant: the last exit is kept for a side, whatever the cohort.
SampleOfSide(row) == <<row.side>>

SampleOf(row) == <<row.side, row.cohort>>

\* last_primary_exit and last_exit: when the latest primary row was closed.
LastSampleExit(row) ==
    LET before == {n \in DOMAIN sampled :
                      sampled[n].primary /\ SampleOf(sampled[n]) = SampleOf(row)}
    IN  IF before = {} THEN 0 ELSE sampled[Max(before)].closed

Annotated(row) == [row EXCEPT !.primary = NoOverlap => row.opened >= LastSampleExit(row)]

Split(opened) == IF opened < DevelopmentEnd THEN "DEVELOPMENT" ELSE "VALIDATION"

EventRow(event, opened, cohort, path, sensitivity) ==
    [side |-> event.side, cohort |-> cohort, event |-> event, opened |-> opened,
     split |-> Split(opened), closed |-> path.closed, reason |-> path.reason,
     observed |-> path.observed, sensitivity |-> sensitivity, primary |-> FALSE]
NoPath == [closed |-> 0, reason |-> "NO_EVALUABLE_PATH", observed |-> 0]

-----------------------------------------------------------------------------
(* replay_diagnostic_symbol *)

\* structure_shift_time_5m or reclaim_time or sweep_time
LatestPhase(event) ==
    IF event.shift # NoPlace THEN event.shift
    ELSE IF event.reclaim # NoPlace THEN event.reclaim ELSE event.sweep
EvaluationTime(event) == CloseOf(LatestPhase(event))

\* Mutant: the events are replayed in the order of their sweeps.
DiagnosticOrderOfSweeps(event) == <<event.sweep, SideNumber(event.side)>>

\* The key raw_events is sorted by.
DiagnosticOrder(event) == <<EvaluationTime(event), SideNumber(event.side), event.sweep>>

\* A candidate was built, and the whole horizon lies behind it.
Evaluable(event) ==
    event.shift # NoPlace /\ event.fit /\ event.shift + OutcomeBars <= Len(starts)

DiagnosticRow(event) ==
    IF ~Evaluable(event)
    THEN EventRow(event, EvaluationTime(event), "ALL", NoPath, NoSensitivity)
    ELSE LET sensitivity == Sensitivity(event.side, event.shift)
         IN  Annotated(EventRow(event, EvaluationTime(event), "ALL",
                                sensitivity[OutcomeBars], sensitivity))

DiagnoseEvent ==
    /\ study = "diagnostics" /\ eventsLeft # {}
    /\ LET event == FirstBy(eventsLeft, DiagnosticOrder)
           inRange == RangeStart <= EvaluationTime(event) /\ EvaluationTime(event) <= RangeEnd
       IN  /\ eventsLeft' = eventsLeft \ {event}
           /\ sampled' = IF inRange THEN Append(sampled, DiagnosticRow(event)) ELSE sampled
    /\ UNCHANGED <<study, rowsLeft, replayVars>>

-----------------------------------------------------------------------------
(* replay_symbol_sweeps and apply_primary_no_overlap *)

\* bisect_left(bar_starts, start_ms)
FirstPlace == Cardinality({p \in DOMAIN starts : starts[p] < RangeStart}) + 1

\* entry_ready, an analysis and a risk, confirmed in the range.
Replayed(event) ==
    LET opened == CloseOf(event.shift)
    IN  /\ event.shift # NoPlace /\ event.fit
        /\ event.sweep + MaxConfirmBars >= FirstPlace /\ starts[event.sweep] < RangeEnd
        /\ RangeStart <= opened /\ opened < RangeEnd
        /\ Future(event.shift, OutcomeBars) # {}

\* The cohorts of an event: without the scores, with them, and with the veto.
CohortsOf(event) ==
    {"SWEEP_ENTRY_READY_RAW"} \cup (IF event.pass THEN {"SWEEP_4H_CONTEXT"} ELSE {})
        \cup (IF event.pass /\ ~event.conflict THEN {"SWEEP_4H_VETO"} ELSE {})

SweepRows(event) ==
    {EventRow(event, CloseOf(event.shift), cohort,
              Path(event.side, event.shift, OutcomeBars), NoSensitivity) :
        cohort \in CohortsOf(event)}

SweepOrder(event) == <<event.sweep, SideNumber(event.side)>>

ReplaySweep ==
    /\ study = "sweeps" /\ eventsLeft # {}
    /\ LET event == FirstBy(eventsLeft, SweepOrder)
       IN  /\ eventsLeft' = eventsLeft \ {event}
           /\ rowsLeft' = IF Replayed(event) THEN rowsLeft \cup SweepRows(event) ELSE rowsLeft
    /\ UNCHANGED <<study, sampled, replayVars>>

\* Mutant: the rows are annotated in the order of the replay.
RowOrderOfSweeps(row) ==
    <<row.event.sweep, SideNumber(row.side), CohortNumber[row.cohort]>>

\* The rows of one time, side and cohort stay in the order of the replay.
RowOrder(row) ==
    <<row.opened, SideNumber(row.side), CohortNumber[row.cohort], row.event.sweep>>

AnnotateRow ==
    /\ study = "sweeps" /\ eventsLeft = {} /\ rowsLeft # {}
    /\ LET row == FirstBy(rowsLeft, RowOrder)
       IN  /\ rowsLeft' = rowsLeft \ {row}
           /\ sampled' = Append(sampled, Annotated(row))
    /\ UNCHANGED <<study, eventsLeft, replayVars>>

-----------------------------------------------------------------------------

\* One event at most for a side and a sweep; every phase is a bar.
EventSets ==
    {S \in UNION {kSubset(n, SweepEvents) : n \in 0..MaxEvents} :
        \A e, f \in S : e.side = f.side /\ e.sweep = f.sweep => e = f}

EventInit ==
    /\ study \in {"diagnostics", "sweeps"}
    /\ market \in EventMarkets
    /\ stage = "done" /\ cursor = 0 /\ fetched = DOMAIN market
    /\ starts = Sorted(DOMAIN market)
    /\ barIndex = 0 /\ lastExit = [side \in Directions |-> 0] /\ replayed = <<>>
    /\ eventsLeft \in EventSets
    /\ rowsLeft = {}
    /\ sampled = <<>>

EventNext == DiagnoseEvent \/ ReplaySweep \/ AnnotateRow
EventSpec == EventInit /\ [][EventNext]_<<eventVars, replayVars>>

-----------------------------------------------------------------------------
(* Properties *)

\* A row is primary unless a primary row of its sample is open at its time, in
\* whatever order the sweeps of the rows began.
PrimaryIsByTime ==
    \A n \in DOMAIN sampled :
        LET row == sampled[n]
            open == {m \in DOMAIN sampled \ {n} :
                        /\ sampled[m].primary
                        /\ <<sampled[m].side, sampled[m].cohort>> = <<row.side, row.cohort>>
                        /\ sampled[m].opened <= row.opened /\ row.opened < sampled[m].closed}
        IN  row.reason # "NO_EVALUABLE_PATH" /\ NoOverlap => (row.primary <=> open = {})

\* The outcome of a row is decided by bars that begin when it is open: none
\* before the last of them touches a level, and a study of a shorter horizon
\* says the same unless it ran out.
OutcomeIsAfterConfirmation ==
    \A n \in DOMAIN sampled : sampled[n].reason # "NO_EVALUABLE_PATH" =>
        LET row == sampled[n]
            places == {p \in DOMAIN starts : row.opened <= starts[p] /\ starts[p] < row.closed}
        IN  /\ places # {} /\ row.observed = Cardinality(places)
            /\ \A p \in places \ {Max(places)} : ~Ended(Touch(row.side, p))
            /\ row.reason = ExitReason(Touch(row.side, Max(places)))
            /\ \A h \in DOMAIN row.sensitivity :
                   \/ row.sensitivity[h].reason = "TIME_EXIT" /\ row.sensitivity[h].observed = h
                   \/ row.sensitivity[h] =
                          [closed |-> row.closed, reason |-> row.reason, observed |-> row.observed]

\* The rows are in order of time, so development ends before validation.
SplitIsChronological ==
    \A n \in DOMAIN sampled, m \in DOMAIN sampled :
        m < n /\ sampled[n].split = "DEVELOPMENT" => sampled[m].split = "DEVELOPMENT"

\* diagnostics_v073.py and sweep_replay.py: wherever bars are missing and
\* however the phases of the events are interleaved, the primary samples are
\* without overlap and leave out nothing else, an outcome is that of the bars
\* after the confirmation, and the split is chronological.
EventSamplesAreSound ==
    PrimaryIsByTime /\ OutcomeIsAfterConfirmation /\ SplitIsChronological
=============================================================================
