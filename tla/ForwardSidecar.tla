--------------------------- MODULE ForwardSidecar ---------------------------
(* The workers beside the live day worker. The sidecar, a cron job that never *)
(* overlaps itself, tracks the symbols of pending parents, analyses the      *)
(* market, and stores in one transaction the snapshots of recent sweeps, the *)
(* new parents, what became of the pending ones, and the status of the       *)
(* cohorts. A second worker only stores parents. Either may die anywhere.    *)
EXTENDS BarrierStudy

CONSTANTS
    Workers,       \* "sidecar" and "parents", the two programs
    Sweeps,        \* liquidity sweeps: [symbol, side, bar], bar being the swept one
    MaxSweepAge,   \* MAX_EVENT_AGE_MINUTES
    MaxRuns        \* bound: runs that store something

ASSUME SidecarAssumption ==
    /\ {"sidecar", "parents"} \subseteq Workers
    /\ \A s \in Sweeps : s.bar \in Nat

VARIABLES
    funnelStart,   \* prospective_start_at of the funnel, or Never
    snapshots,     \* rows of the funnel
    worker,        \* the state of each program
    runsStored, published, openedCohorts \* bound; the cached status; DEVELOPMENT cohorts that may be opened

sidecarVars == <<studyVars, funnelStart, snapshots, worker, runsStored, published, openedCohorts>>

Symbols == {e.symbol : e \in BarrierEvents \cup Sweeps}
Off == [pc |-> "off", tracked |-> {}, analysed |-> {}, bars |-> 0, last |-> FirstBar,
        captured |-> Never]
NoStatus ==
    [funnel |-> {}, development |-> {}, balanced |-> FALSE, validation |-> {}, development2 |-> {}]

\* run, _load_barrier_tracking_symbols: the start of the study is committed,
\* the symbols of pending parents are read.
Track ==
    /\ worker["sidecar"] = Off /\ runsStored < MaxRuns
    /\ cohortStart' = IF cohortStart = Never THEN barNow ELSE cohortStart
    /\ worker' = [worker EXCEPT !["sidecar"] =
           [Off EXCEPT !.pc = "collect",
                       !.tracked = {e.symbol : e \in {f \in FrozenParents : parents[f].status = "PENDING"}}]]
    /\ UNCHANGED <<barTape, barNow, parents, clears, funnelStart, snapshots, runsStored, published, openedCohorts>>

\* day_barrier_clear_parent_worker.run tracks nothing.
StartParents ==
    /\ worker["parents"] = Off /\ runsStored < MaxRuns
    /\ worker' = [worker EXCEPT !["parents"] = [Off EXCEPT !.pc = "collect"]]
    /\ UNCHANGED <<studyVars, funnelStart, snapshots, runsStored, published, openedCohorts>>

\* collect_forward_analyses: the deep universe and the tracked symbols, where
\* the requests succeed. klines keeps the bars that have closed when the answer
\* is there: one that closed meanwhile may have been read before its close.
Collect(w, deep, failed, last) ==
    /\ worker[w].pc = "collect"
    /\ last = barTape[Len(barTape)] \/ (last \in Bars /\ barNow = Closes(Len(barTape)))
    /\ worker' = [worker EXCEPT ![w] =
           [@ EXCEPT !.pc = "stamp", !.tracked = {}, !.bars = Len(barTape), !.last = last,
                     !.analysed = (deep \cup worker[w].tracked) \ failed]]
    /\ UNCHANGED <<studyVars, funnelStart, snapshots, runsStored, published, openedCohorts>>

\* captured_at is read when everything is collected.
Stamp(w) ==
    /\ worker[w].pc = "stamp"
    /\ worker' = [worker EXCEPT ![w] = [@ EXCEPT !.pc = "persist", !.captured = barNow]]
    /\ UNCHANGED <<studyVars, funnelStart, snapshots, runsStored, published, openedCohorts>>

\* _analysis_snapshot_rows: sweeps not older than the study and the age limit.
Recent(run, start) ==
    {s \in Sweeps : /\ s.symbol \in run.analysed /\ s.bar <= run.bars
                    /\ s.bar > 0 /\ start <= Closes(s.bar - 1) /\ Closes(s.bar - 1) <= run.captured
                    /\ run.captured <= Closes(s.bar - 1) + MaxSweepAge}
\* _apply_current_execution_semantics: a short must be borrowable now.
Strict(s, passing, borrowable) == s \in passing /\ (s.side = "long" \/ s.symbol \in borrowable)
Snapshot(s, run, passing, borrowable, live) ==
    [sweep |-> s, at |-> run.captured, bars |-> run.bars, live |-> s \in live,
     strict |-> Strict(s, passing, borrowable)]

\* _ensure_prospective_boundary: the first run begins the study.
FunnelStart(run) == IF funnelStart = Never THEN run.captured ELSE funnelStart

\* _insert_snapshot: one row for a run and a sweep, a row that is there stays.
NewRows(rows) == {s \in rows : \A old \in snapshots : ~ (old.sweep = s.sweep /\ old.at = s.at)}

\* _cumulative_status: what the funnel counts is the last snapshot of each sweep.
LatestRows(rows) == {s \in rows : \A t \in rows : t.sweep = s.sweep => t.at <= s.at}

\* persist_v073_prospective_funnel, with the gates each sweep passes.
PersistFunnel(run, passing, borrowable, live) ==
    LET recent == Recent(run, FunnelStart(run))
    IN /\ passing \subseteq recent /\ live \subseteq Sweeps /\ borrowable \subseteq run.analysed
       /\ funnelStart' = FunnelStart(run)
       /\ snapshots' = snapshots \cup NewRows({Snapshot(s, run, passing, borrowable, live) : s \in recent})

\* persist_parent_batch: new parents among the eligible candidates; a row that
\* is there stays.
Frozen(run, candidates, start) ==
    [e \in BarrierEvents |->
        IF e \in candidates /\ Admitted(e, run.captured, start) /\ parents[e] = NoParent
        THEN [NoParent EXCEPT !.captured = run.captured, !.status = "PENDING", !.upTo = run.bars]
        ELSE parents[e]]
Candidates(run) == {e \in BarrierEvents : e.symbol \in run.analysed /\ e.bar <= run.bars}

\* persist_pending_resolutions: the pending parents with an analysis.
Pending(table, run) == {e \in BarrierEvents : table[e].status = "PENDING" /\ e.symbol \in run.analysed}
Resolved(table, run) ==
    [e \in BarrierEvents |-> IF e \in Pending(table, run) THEN Observed(e, table[e], run) ELSE table[e]]
Cleared(table, run) ==
    {ClearRow(e, table[e], run) :
        e \in {f \in Pending(table, run) : Resolved(table, run)[f].status = "CLEARED"}}

\* The answers of _cumulative_status, load_partition_status and load_v2_status.
Status(rows, table) ==
    [funnel |-> LatestRows(rows), development |-> Development(table), balanced |-> Authorized(table),
     validation |-> Validation(table), development2 |-> Development2(table)]

\* persist_standalone_capture: one transaction, all of it or nothing. Its
\* writes are conditional on the row they touch, and wait for the other
\* program's transaction on that row.
PersistStudies(candidates, passing, borrowable, live) ==
    LET run == worker["sidecar"]
        frozen == Frozen(run, candidates, cohortStart)
    IN /\ run.pc = "persist" /\ candidates \subseteq Candidates(run)
       /\ PersistFunnel(run, passing, borrowable, live)
       /\ parents' = Resolved(frozen, run) /\ clears' = clears \cup Cleared(frozen, run)
       /\ Contract2(parents')
       /\ published' = Status(snapshots', parents') /\ runsStored' = runsStored + 1
       /\ worker' = [worker EXCEPT !["sidecar"] = Off]
       /\ UNCHANGED <<barTape, barNow, cohortStart, openedCohorts>>

\* The parent worker's transaction: the start of the study and the parents.
PersistParents(candidates) ==
    LET run == worker["parents"]
        start == IF cohortStart = Never THEN run.captured ELSE cohortStart
    IN /\ run.pc = "persist" /\ candidates \subseteq Candidates(run)
       /\ cohortStart' = start /\ parents' = Frozen(run, candidates, start)
       /\ worker' = [worker EXCEPT !["parents"] = Off] /\ runsStored' = runsStored + 1
       /\ UNCHANGED <<barTape, barNow, clears, funnelStart, snapshots, published, openedCohorts>>

\* An error, the runtime limit or the end of the process; a transaction that
\* did not commit leaves nothing.
Die(w) ==
    /\ worker[w] # Off
    /\ worker' = [worker EXCEPT ![w] = Off]
    /\ UNCHANGED <<studyVars, funnelStart, snapshots, runsStored, published, openedCohorts>>

\* The status script reads the gate in the published status.
ReadGate ==
    /\ published.balanced /\ published.development \notin openedCohorts
    /\ openedCohorts' = openedCohorts \cup {published.development}
    /\ UNCHANGED <<studyVars, funnelStart, snapshots, worker, runsStored, published>>

SidecarInit ==
    /\ StudyInit /\ funnelStart = Never /\ snapshots = {} /\ runsStored = 0
    /\ worker = [w \in Workers |-> Off] /\ published = NoStatus /\ openedCohorts = {}
SidecarNext ==
    \/ \E bar \in Bars : BarTick(bar)
       /\ UNCHANGED <<funnelStart, snapshots, worker, runsStored, published, openedCohorts>>
    \/ Track \/ StartParents \/ ReadGate
    \/ \E w \in Workers : \/ \E deep, failed \in SUBSET Symbols, last \in Bars \cup {FirstBar} :
                                 Collect(w, deep, failed, last)
                          \/ Stamp(w) \/ Die(w)
    \/ \E candidates \in SUBSET BarrierEvents :
        \/ PersistParents(candidates)
        \/ \E passing, live \in SUBSET Sweeps, borrowable \in SUBSET Symbols :
               PersistStudies(candidates, passing, borrowable, live)
SidecarSpec == SidecarInit /\ [][SidecarNext]_sidecarVars

-----------------------------------------------------------------------------
(* Properties *)

\* The funnel has no hindsight: a snapshot holds no sweep from before the
\* study, a run says one thing of a sweep, and of two snapshots of a sweep the
\* one with the later clock knows at least as many bars, the last of them
\* perhaps as it was while it ran. The published status
\* counts every sweep once, in the snapshot that knows the most bars.
FunnelHasNoHindsight ==
    \A s \in snapshots :
        /\ funnelStart <= Closes(s.sweep.bar - 1) /\ Closes(s.bars) <= s.at
        /\ \A t \in snapshots : s.sweep = t.sweep /\ s.at <= t.at =>
               s.bars <= t.bars /\ (s.at = t.at => s = t)
        /\ \E t \in published.funnel :
               /\ t \in snapshots /\ t.sweep = s.sweep /\ s.bars <= t.bars
               /\ \A u \in published.funnel : u.sweep = s.sweep => u = t

\* Version 2 raises on an event it must not have, which would take the whole
\* transaction with it: no run comes to that.
NoRunIsRefused ==
    worker["sidecar"].pc = "persist" =>
        LET run == worker["sidecar"]
        IN Contract2(Resolved(Frozen(run, Candidates(run), cohortStart), run))

\* The sidecar's rows are the ones the bars and the preregistration call for.
StudyIsSound == ParentsEndOnce /\ FunnelHasNoHindsight /\ NoRunIsRefused
=============================================================================
