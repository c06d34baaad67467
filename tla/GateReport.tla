----------------------------- MODULE GateReport -----------------------------
(***************************************************************************)
(* What a client makes of the gate diagnostics: the runner of              *)
(* run_production_v073_diagnostics.py dispatches batches, polls the status *)
(* until they advance, and then asks for waterfalls and edges, while other *)
(* runs of the queue may go on.  v073_diagnostics_api.py answers each      *)
(* request from two reads without a snapshot; repository.py still answers  *)
(* the older endpoints from the same tables, with gates of its own.        *)
(*                                                                         *)
(* The events of a symbol are given: a row has its side, its split, its    *)
(* analysis, see DayGates, and its net result, if there was a path.        *)
(***************************************************************************)
EXTENDS DiagnosticsQueue, DayGates, Sequences

CONSTANTS
    EventRowsOf,    \* the events of a symbol, a set of rows
    Slices,         \* the splits and sides of the reports, in order
    ShortMode,      \* DIAGNOSTIC_SHORT_MODE
    ClientBatches   \* DIAGNOSTIC_BATCH_COUNT

\* The columns of day_trade_diagnostic_events that a report reads.
EventRecords ==
    [side : DaySides, split : {"DEVELOPMENT", "VALIDATION"}, primary : BOOLEAN,
     evaluable : BOOLEAN, snap : SnapshotFields]

ASSUME GateReportAssumption ==
    /\ \A s \in DiagSymbols :
           Cardinality(EventRowsOf[s]) = DiagEventCount[s] /\ EventRowsOf[s] \subseteq EventRecords
    /\ Slices \in Seq([split : {"all", "DEVELOPMENT", "VALIDATION"}, side : {"both"} \cup DaySides])
    /\ ShortMode \in ShortModes
    /\ ClientBatches \in Nat \ {0}

VARIABLE client   \* the runner

NoClient == [stage |-> "before", left |-> ClientBatches, done |-> 0, failed |-> 0,
             final |-> diagJob, slices |-> <<>>]

-----------------------------------------------------------------------------
(* The runner *)

ClientAt(stage) == client.stage = stage
ClientGoes(stage) == client' = [client EXCEPT !.stage = stage]

CompletedOf(job) == Cardinality(job.counts.completed)
FailedOf(job) == Cardinality(job.counts.failed)
DoneOf(job) == CompletedOf(job) + FailedOf(job)

\* The status before a batch: a finished job is reported, unless it failed.
CheckBefore ==
    /\ ClientAt("before")
    /\ IF diagJob.status \in DiagTerminal
       THEN ClientGoes(IF diagJob.status = "COMPLETED" /\ FailedOf(diagJob) = 0
                       THEN "final" ELSE "raised")
       ELSE client' = [client EXCEPT !.stage = "dispatch", !.done = DoneOf(diagJob),
                                     !.failed = FailedOf(diagJob)]
    /\ UNCHANGED diagVars

\* POST run-batch: the API process begins a run, or one of its runs goes on
\* and the answer is 409.
DispatchBatch ==
    /\ ClientAt("dispatch")
    /\ ClientGoes("poll")
    /\ \E r \in Runs : Connect(r) \/ (at[r] # "out" /\ UNCHANGED diagVars)

\* A poll that ends the wait, whoever the run was that advanced.
PollStatus ==
    /\ ClientAt("poll")
    /\ \/ /\ FailedOf(diagJob) > client.failed
          /\ ClientGoes("raised")
       \/ /\ FailedOf(diagJob) <= client.failed
          /\ DoneOf(diagJob) > client.done \/ diagJob.status \in DiagTerminal
          /\ IF diagJob.status = "PARTIAL" THEN ClientGoes("raised")
             ELSE client' = [client EXCEPT !.left = @ - 1,
                                           !.stage = IF client.left = 1 THEN "final" ELSE "before"]
    /\ UNCHANGED diagVars

\* BATCH_TIMEOUT_SECONDS, or a request that fails.
ClientRaises ==
    /\ client.stage \in {"before", "dispatch", "poll", "final", "slice"}
    /\ ClientGoes("raised")
    /\ UNCHANGED diagVars

ReadFinalStatus ==
    /\ ClientAt("final")
    /\ client' = [client EXCEPT !.stage = "slice", !.final = diagJob]
    /\ UNCHANGED diagVars

\* One waterfall, and in the end the edge: the rows of the events as they are
\* now; the job row, read before them, is only shown.
ReadSlice ==
    /\ ClientAt("slice")
    /\ client' = [client EXCEPT !.slices = Append(@, diagEvents),
                                !.stage = IF Len(client.slices) = Len(Slices) THEN "done" ELSE @]
    /\ UNCHANGED diagVars

ClientStep ==
    CheckBefore \/ DispatchBatch \/ PollStatus \/ ClientRaises \/ ReadFinalStatus \/ ReadSlice

GateReportInit == DiagInit /\ client = NoClient
GateReportNext == (DiagNext /\ UNCHANGED client) \/ ClientStep
GateReportSpec == GateReportInit /\ [][GateReportNext]_<<diagVars, client>>

-----------------------------------------------------------------------------
(* The answers *)

\* _matches
Matches(row, slice, primaryOnly) ==
    /\ slice.side \in {"both", row.side}
    /\ slice.split \in {"all", row.split}
    /\ primaryOnly => row.primary

\* The rows stored for the symbols with events.
StoredRows(events) == UNION {EventRowsOf[s] : s \in {t \in DiagSymbols : events[t] > 0}}
RowsOf(events, slice, primaryOnly) ==
    {row \in StoredRows(events) : Matches(row, slice, primaryOnly)}

\* The gate columns of a row: without a candidate the gates after it are not
\* passed, whatever they would have been.
Columns(row) ==
    LET gates == Gates(ShortMode, row.side, row.snap)
    IN  [n \in DOMAIN gates |-> gates[n] /\ (n > 5 => ~row.snap.tiny)]
PassScores(pass) == \A gate \in 8..11 : pass[gate]
StrictEligible(pass) == \A gate \in 6..13 : pass[gate]
StrictTrade(pass) == StrictEligible(pass) /\ \A gate \in 1..4 : pass[gate]

\* Mutant: the funnel has the fifteen-minute structure before the volume.
FunnelBySteps(pass) ==
    [n \in 1..14 |-> IF n = 14 THEN StrictTrade(pass)
                     ELSE IF n \in {3, 4} THEN pass[7 - n] ELSE pass[n]]

\* waterfall_from_rows: the columns in the order of its gates.
Funnel(pass) == [n \in 1..14 |-> IF n = 14 THEN StrictTrade(pass) ELSE pass[n]]

\* The older waterfall has the volume last and no gate for the reclaim and the
\* structures; its alignment of the timeframes is stored as TRUE.
OldFunnel(pass) ==
    [n \in 1..11 |-> IF n = 11 THEN StrictTrade(pass) ELSE IF n = 10 THEN pass[3] ELSE pass[n + 4]]

\* The gate a row is lost at, 0 for a row that passes all.
LostAt(funnel) ==
    LET failed == {n \in DOMAIN funnel : ~funnel[n]}
    IN  IF failed = {} THEN 0 ELSE Min(failed)

\* Mutant: the score gates are looked at alone.
CohortUnnested(pass, cohort) ==
    IF cohort = 5 THEN PassScores(pass) ELSE \A gate \in 2..cohort : pass[gate]

\* _cohort_match: STRUCTURE_5M, VOLUME_PASS, STRUCTURE_15M_PASS,
\* LIQUID_EXECUTABLE, SCORE_GATES_PASS, STRICT_ELIGIBLE and STRICT_TRADE.
Cohort(pass, cohort) ==
    /\ pass[2]
    /\ cohort >= 2 => pass[3]
    /\ cohort >= 3 => pass[4]
    /\ cohort >= 4 => pass[6] /\ pass[7]
    /\ cohort >= 5 => PassScores(pass)
    /\ cohort >= 6 => StrictEligible(pass)
    /\ cohort >= 7 => StrictTrade(pass)

\* _cohort_match of repository.py, for the cohorts both have.
OldCohort(pass, cohort) ==
    /\ pass[5]
    /\ CASE cohort = 4 -> pass[6] /\ pass[7]
         [] cohort = 5 -> PassScores(pass)
         [] cohort = 6 -> StrictEligible(pass)
         [] cohort = 7 -> StrictTrade(pass)

\* The edge counts rows with a path only.
EdgeRows(rows, cohort) == {row \in rows : row.evaluable /\ Cohort(Columns(row), cohort)}
OldEdgeRows(rows, cohort) == {row \in rows : row.evaluable /\ OldCohort(Columns(row), cohort)}

-----------------------------------------------------------------------------
(* Properties *)

\* A waterfall loses a row at the gate the row names as its first failed one,
\* and loses none at the last step; the older one keeps the same trades.
FunnelNamesFailures(rows) ==
    \A row \in rows :
        LET pass == Columns(row)
        IN  /\ LostAt(Funnel(pass)) = FirstFailed(ShortMode, row.side, row.snap)
            /\ LostAt(Funnel(pass)) = 0 <=> LostAt(OldFunnel(pass)) = 0

\* A cohort is part of the one before it, and of its namesake.
CohortsAreNested(rows) ==
    \A cohort \in 2..7 :
        /\ EdgeRows(rows, cohort) \subseteq EdgeRows(rows, cohort - 1)
        /\ cohort >= 4 => EdgeRows(rows, cohort) \subseteq OldEdgeRows(rows, cohort)

\* What a later request counts has all events of the status read before it,
\* and a status COMPLETED is final: the slices then are those of one sample.
SlicesFollowStatus ==
    \A n \in DOMAIN client.slices : \A s \in DiagSymbols :
        /\ client.final.counts.events[s] <= client.slices[n][s]
        /\ n > 1 => client.slices[n - 1][s] <= client.slices[n][s]
        /\ client.final.status = "COMPLETED" /\ client.final.counts.completed # {} =>
               client.slices[n][s] = DiagEventCount[s]

\* run_production_v073_diagnostics.py and both endpoints: whatever runs beside
\* the client, its reports hold all that its status counted, a COMPLETED one
\* is whole, and each funnel agrees with the failures and with the other.
ReportsAreTrue ==
    /\ SlicesFollowStatus
    /\ ClientAt("done") =>
           \A n \in DOMAIN client.slices :
               LET slice == IF n > Len(Slices) THEN Slices[1] ELSE Slices[n]
                   rows == RowsOf(client.slices[n], slice, n > Len(Slices))
               IN  FunnelNamesFailures(rows) /\ CohortsAreNested(rows)
=============================================================================
