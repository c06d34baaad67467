------------------------------ MODULE FlowCache ------------------------------
(***************************************************************************)
(* The derivatives context of the day radar on its way through the cache:  *)
(* the day worker commits setups, runs of flow_worker.py read them, fetch  *)
(* derivatives and commit one row for every symbol and a status row in one *)
(* transaction, and the API says how fresh what it serves is.              *)
(*                                                                         *)
(* Runs of the flow worker may overlap.  A written row is locked until its *)
(* transaction ends; each run writes the rows in an order of its own.      *)
(***************************************************************************)
EXTENDS Naturals, FiniteSets

CONSTANTS
    FlowRuns,     \* runs of run_flow_worker
    FlowSymbols,  \* symbols that may have a setup
    SetupMaxAge,  \* FLOW_SETUP_MAX_AGE_MINUTES
    SpotMaxAge,   \* the 300 seconds of build_flow_payload
    FlowMaxAge,   \* FLOW_MAX_AGE_SECONDS
    LastTime      \* bound on the clock

ASSUME FlowAssumption ==
    /\ IsFiniteSet(FlowSymbols)
    /\ {SetupMaxAge, SpotMaxAge, FlowMaxAge, LastTime} \subseteq Nat
    /\ "free" \notin FlowRuns /\ "status" \notin FlowSymbols

VARIABLES
    time,      \* the time
    dayPass,   \* data_as_of of the pass of the day worker, 0 between passes
    setupRow,  \* committed rows day_trade_setup:SYMBOL, data_as_of and updated_at
    flowRow,   \* committed rows day_trade_flow:SYMBOL
    statusRow, \* the committed row day_trade_flow_status
    lockOf,    \* which run holds the lock of a row of flowRow, or "status"
    flowAt,    \* where each run is
    flowRun    \* what each run has loaded, made and not written yet

flowVars == <<time, dayPass, setupRow, flowRow, statusRow, lockOf, flowAt, flowRun>>

FlowRows == FlowSymbols \cup {"status"}
Free == "free"
NoSetup == [asOf |-> 0, updated |-> 0]
NoFlow == [batch |-> Free, at |-> 0, spot |-> 0, coverage |-> "none"]
EmptyStatus == [batch |-> Free, symbols |-> {}]
EmptyRun == [spot |-> <<>>, made |-> <<>>, todo |-> {}]  \* to build, built, to write

FlowInit ==
    /\ time = 1
    /\ dayPass = 0
    /\ setupRow = [s \in FlowSymbols |-> NoSetup]
    /\ flowRow = [s \in FlowSymbols |-> NoFlow]
    /\ statusRow = EmptyStatus
    /\ lockOf = [r \in FlowRows |-> Free]
    /\ flowAt = [r \in FlowRuns |-> "load"]
    /\ flowRun = [r \in FlowRuns |-> EmptyRun]

ClockTicks ==
    /\ time < LastTime
    /\ time' = time + 1
    /\ UNCHANGED <<dayPass, setupRow, flowRow, statusRow, lockOf, flowAt, flowRun>>

-----------------------------------------------------------------------------
(* The day worker: data_as_of is taken before the candidates are built, NOW() *)
(* is the start of the transaction, and the rows are visible from its commit. *)

TakeSnapshot ==
    /\ dayPass = 0
    /\ dayPass' = time
    /\ UNCHANGED <<time, setupRow, flowRow, statusRow, lockOf, flowAt, flowRun>>

\* persist_day_results: the symbols that came through have new rows, stamped with
\* the time when the transaction began.
CommitSetups ==
    /\ dayPass # 0
    /\ \E through \in SUBSET FlowSymbols \ {{}}, begun \in dayPass..time :
          setupRow' = [s \in FlowSymbols |->
                          IF s \in through THEN [asOf |-> dayPass, updated |-> begun]
                          ELSE setupRow[s]]
    /\ dayPass' = 0
    /\ UNCHANGED <<time, flowRow, statusRow, lockOf, flowAt, flowRun>>

DayPassFails ==
    /\ dayPass # 0
    /\ dayPass' = 0
    /\ UNCHANGED <<time, setupRow, flowRow, statusRow, lockOf, flowAt, flowRun>>

-----------------------------------------------------------------------------
(* A run of the flow worker *)

\* load_fresh_setups: rows by the age of updated_at.
FreshSetups ==
    {s \in FlowSymbols : setupRow[s].asOf # 0 /\ time <= setupRow[s].updated + SetupMaxAge}

LoadSetups(r) ==
    /\ flowAt[r] = "load"
    /\ FreshSetups # {}
    /\ flowRun' = [flowRun EXCEPT ![r] =
          [EmptyRun EXCEPT !.spot = [s \in FreshSetups |-> setupRow[s].asOf]]]
    /\ flowAt' = [flowAt EXCEPT ![r] = "fetch"]
    /\ UNCHANGED <<time, dayPass, setupRow, flowRow, statusRow, lockOf>>

\* Nothing is fresh: the status alone is written, which waits for its row.
NoFreshSetups(r) ==
    /\ flowAt[r] = "load"
    /\ FreshSetups = {}
    /\ lockOf["status"] = Free
    /\ statusRow' = [batch |-> r, symbols |-> {}]
    /\ flowAt' = [flowAt EXCEPT ![r] = "done"]
    /\ UNCHANGED <<time, dayPass, setupRow, flowRow, lockOf, flowRun>>

\* Mutant: staleness is judged when the setups are loaded, and they were fresh.
CoverageAtLoad(spot, at, answer) == answer

\* build_flow_payload: stale spot data come before all else.  An error of the
\* open-interest history overwrites the coverage with another that is not GOOD.
Coverage(spot, at, answer) ==
    IF at > spot + SpotMaxAge /\ answer # "PARTIAL_OI_HISTORY_ERROR"
    THEN "STALE_SPOT_CONTEXT" ELSE answer

\* The times of a payload that is not GOOD are not kept.
Payload(r, spot, coverage) ==
    IF coverage = "GOOD"
    THEN [batch |-> r, at |-> time, spot |-> spot, coverage |-> coverage]
    ELSE [batch |-> r, at |-> 0, spot |-> 0, coverage |-> coverage]

\* process: each symbol at its own time.
BuildFlow(r, s) ==
    /\ flowAt[r] = "fetch"
    /\ s \in DOMAIN flowRun[r].spot
    /\ \E answer \in {"GOOD", "PARTIAL_OI_HISTORY_ERROR"} :
       LET spot == flowRun[r].spot
           made == flowRun[r].made
           new == Payload(r, spot[s], Coverage(spot[s], time, answer))
       IN  flowRun' = [flowRun EXCEPT ![r] =
              [spot |-> [t \in DOMAIN spot \ {s} |-> spot[t]],
               made |-> [t \in DOMAIN made \cup {s} |-> IF t = s THEN new ELSE made[t]],
               todo |-> {}]]
    /\ UNCHANGED <<time, dayPass, setupRow, flowRow, statusRow, lockOf, flowAt>>

\* gather has all payloads: the transaction begins.
BeginWrites(r) ==
    /\ flowAt[r] = "fetch"
    /\ DOMAIN flowRun[r].spot = {}
    /\ flowRun' = [flowRun EXCEPT ![r].todo = DOMAIN flowRun[r].made]
    /\ flowAt' = [flowAt EXCEPT ![r] = "write"]
    /\ UNCHANGED <<time, dayPass, setupRow, flowRow, statusRow, lockOf>>

\* Mutant: every upsert commits at once, and no lock is kept.
WriteFlowAutocommit(r, s) ==
    /\ flowAt[r] = "write"
    /\ s \in flowRun[r].todo
    /\ flowRow' = [flowRow EXCEPT ![s] = flowRun[r].made[s]]
    /\ flowRun' = [flowRun EXCEPT ![r].todo = @ \ {s}]
    /\ UNCHANGED <<time, dayPass, setupRow, statusRow, lockOf, flowAt>>

\* upsert_cache of one symbol: waits for the row, and keeps its lock.
WriteFlow(r, s) ==
    /\ flowAt[r] = "write"
    /\ s \in flowRun[r].todo
    /\ lockOf[s] = Free
    /\ lockOf' = [lockOf EXCEPT ![s] = r]
    /\ flowRun' = [flowRun EXCEPT ![r].todo = @ \ {s}]
    /\ UNCHANGED <<time, dayPass, setupRow, flowRow, statusRow, flowAt>>

\* The status row comes last.
WriteStatus(r) ==
    /\ flowAt[r] = "write"
    /\ flowRun[r].todo = {}
    /\ lockOf["status"] = Free
    /\ lockOf' = [lockOf EXCEPT !["status"] = r]
    /\ flowAt' = [flowAt EXCEPT ![r] = "commit"]
    /\ UNCHANGED <<time, dayPass, setupRow, flowRow, statusRow, flowRun>>

Unlocked(r) == [row \in FlowRows |-> IF lockOf[row] = r THEN Free ELSE lockOf[row]]

CommitFlow(r) ==
    /\ flowAt[r] = "commit"
    /\ flowRow' = [s \in FlowSymbols |->
                      IF lockOf[s] = r THEN flowRun[r].made[s] ELSE flowRow[s]]
    /\ statusRow' = [batch |-> r, symbols |-> DOMAIN flowRun[r].made]
    /\ lockOf' = Unlocked(r)
    /\ flowAt' = [flowAt EXCEPT ![r] = "done"]
    /\ flowRun' = [flowRun EXCEPT ![r] = EmptyRun]
    /\ UNCHANGED <<time, dayPass, setupRow>>

\* A statement raises, the deadlock of two orders is resolved, or the process
\* dies: the transaction leaves nothing behind.
FlowRunFails(r) ==
    /\ flowAt[r] \in {"fetch", "write", "commit"}
    /\ lockOf' = Unlocked(r)
    /\ flowAt' = [flowAt EXCEPT ![r] = "done"]
    /\ flowRun' = [flowRun EXCEPT ![r] = EmptyRun]
    /\ UNCHANGED <<time, dayPass, setupRow, flowRow, statusRow>>

FlowNext ==
    \/ ClockTicks \/ TakeSnapshot \/ CommitSetups \/ DayPassFails
    \/ \E r \in FlowRuns :
          \/ LoadSetups(r) \/ NoFreshSetups(r) \/ BeginWrites(r)
          \/ WriteStatus(r) \/ CommitFlow(r) \/ FlowRunFails(r)
          \/ \E s \in FlowSymbols : BuildFlow(r, s) \/ WriteFlow(r, s)

FlowSpec == FlowInit /\ [][FlowNext]_flowVars

-----------------------------------------------------------------------------
(* What the API serves *)

\* apply_flow_freshness
ServedCoverage(row) ==
    IF row.coverage = "GOOD" /\ time > row.at + FlowMaxAge
    THEN "STALE_FLOW_CONTEXT" ELSE row.coverage

-----------------------------------------------------------------------------
(* Properties *)

\* In every committed state each symbol that the status names has a payload of
\* the batch of the status, however runs overlap (run_flow_worker; the smoke test
\* scripts/production_flow_freshness_smoke.py asks for the same).
FlowStatusIsWhole ==
    \A s \in statusRow.symbols : flowRow[s].batch = statusRow.batch

\* What is served as GOOD was put together of spot data that are not older than
\* both limits allow, though neither program knows the age of the other's data
\* (build_flow_payload, apply_flow_freshness).
GoodFlowIsFresh ==
    \A s \in FlowSymbols :
        ServedCoverage(flowRow[s]) = "GOOD" =>
            time <= flowRow[s].spot + SpotMaxAge + FlowMaxAge

\* What the API shows of the flow is whole and no older than it says.
FlowIsSound == FlowStatusIsWhole /\ GoodFlowIsFresh
=============================================================================
