------------------------- MODULE DiagnosticsQueue -------------------------
(***************************************************************************)
(* The gate diagnostics queue of diagnostics_v073.py.                      *)
(*                                                                         *)
(* run_diagnostic_batch is called by diagnostic_worker.py and by the API   *)
(* process, where diagnostics_v073_perf.py patches it to one symbol per    *)
(* batch: the members of Runs.  One session advisory lock keeps them       *)
(* apart.  The session of a run may end while the run goes on: the lock is *)
(* free at once, and the run only notices at its next statement.           *)
(*                                                                         *)
(* One job exists per name and version: diagJob, the report a client reads.*)
(* Its queue rows are diagRows, its stored events diagEvents.  Symbols are *)
(* numbered in the order claim_symbols takes them; a count of rows is kept *)
(* as the set of the rows it counts.                                       *)
(***************************************************************************)
EXTENDS Naturals, FiniteSets

CONSTANTS
    Runs,            \* processes able to run run_diagnostic_batch
    DiagSymbols,     \* the universe of the source backtest
    DiagBatches,     \* the batch sizes: DIAGNOSTIC_BATCH_SYMBOLS, or 1 patched
    DiagEventCount,  \* events the replay of a symbol yields
    MaxLost          \* bound on the sessions that end under their run

ASSUME DiagSymbolsAssumption ==
    DiagSymbols \subseteq Nat /\ IsFiniteSet(DiagSymbols) /\ DiagSymbols # {}
ASSUME DiagEventsAssumption == DiagEventCount \in [DiagSymbols -> Nat]
ASSUME DiagBoundsAssumption == MaxLost \in Nat /\ DiagBatches \subseteq Nat \ {0}

VARIABLES
    diagJob,     \* the row of day_trade_diagnostic_jobs
    diagRows,    \* status of each row of day_trade_diagnostic_symbols
    diagEvents,  \* number of stored events of each symbol
    diagStale,   \* RUNNING rows older than DIAGNOSTIC_STALE_RUN_MINUTES
    sessions,    \* runs whose session is open
    diagLock,    \* the runs whose session holds the lock
    at,          \* next statement of a run
    claimed,     \* symbols a run has claimed and not finished
    counted,     \* what a run has counted in update_job_counts
    lost         \* sessions that ended under their run so far

diagVars == <<diagJob, diagRows, diagEvents, diagStale,
              sessions, diagLock, at, claimed, counted, lost>>

DiagTerminal == {"COMPLETED", "PARTIAL"}
RowStatus == {"ABSENT", "PENDING", "RUNNING", "COMPLETED", "FAILED"}
Statements == {"out", "lock", "find", "insert", "rows", "mark", "reset",
               "claim", "btc", "symbol", "countRows", "countEvents", "save",
               "unlock"}
RowsWith(statuses) == {s \in DiagSymbols : diagRows[s] \in statuses}
NoEvents == [s \in DiagSymbols |-> 0]
Counts == [completed : SUBSET DiagSymbols, failed : SUBSET DiagSymbols,
           open : SUBSET DiagSymbols, events : [DiagSymbols -> Nat]]
NoCounts == [completed |-> {}, failed |-> {}, open |-> {}, events |-> NoEvents]

DiagTypeOK ==
    /\ diagJob \in [status : {"ABSENT", "PENDING", "RUNNING"} \cup DiagTerminal,
                    counts : Counts]
    /\ diagRows \in [DiagSymbols -> RowStatus]
    /\ diagEvents \in [DiagSymbols -> Nat]
    /\ diagStale \subseteq DiagSymbols
    /\ sessions \subseteq Runs
    /\ diagLock \subseteq Runs
    /\ at \in [Runs -> Statements]
    /\ claimed \in [Runs -> SUBSET DiagSymbols]
    /\ counted \in [Runs -> Counts]
    /\ lost \in Nat

DiagInit ==
    /\ diagJob = [status |-> "ABSENT", counts |-> NoCounts]
    /\ diagRows = [s \in DiagSymbols |-> "ABSENT"]
    /\ diagEvents = NoEvents
    /\ diagStale = {}
    /\ sessions = {}
    /\ diagLock = {}
    /\ at = [r \in Runs |-> "out"]
    /\ claimed = [r \in Runs |-> {}]
    /\ counted = [r \in Runs |-> NoCounts]
    /\ lost = 0

\* Run r is at a statement, and its session can still execute it.
At(r, statement) == r \in sessions /\ at[r] = statement
GoesTo(r, statement) == at' = [at EXCEPT ![r] = statement]

-----------------------------------------------------------------------------
(* The lock *)

Connect(r) ==
    /\ at[r] = "out"
    /\ sessions' = sessions \cup {r}
    /\ GoesTo(r, "lock")
    /\ UNCHANGED <<diagJob, diagRows, diagEvents, diagStale, diagLock, claimed,
                   counted, lost>>

\* Mutant: the run goes on without the lock.
TryLockUnchecked(r) ==
    /\ At(r, "lock")
    /\ diagLock' = diagLock \cup {r}
    /\ GoesTo(r, "find")
    /\ UNCHANGED <<diagJob, diagRows, diagEvents, diagStale, sessions, claimed,
                   counted, lost>>

\* pg_try_advisory_lock; a run that does not get it is skipped.
TryLock(r) ==
    /\ At(r, "lock")
    /\ \/ /\ diagLock = {}
          /\ diagLock' = {r}
          /\ GoesTo(r, "find")
          /\ UNCHANGED sessions
       \/ /\ diagLock # {}
          /\ sessions' = sessions \ {r}
          /\ GoesTo(r, "out")
          /\ UNCHANGED diagLock
    /\ UNCHANGED <<diagJob, diagRows, diagEvents, diagStale, claimed, counted,
                   lost>>

\* The finally block of run_diagnostic_batch.
ReleaseLock(r) ==
    /\ At(r, "unlock")
    /\ diagLock' = diagLock \ {r}
    /\ sessions' = sessions \ {r}
    /\ claimed' = [claimed EXCEPT ![r] = {}]
    /\ counted' = [counted EXCEPT ![r] = NoCounts]
    /\ GoesTo(r, "out")
    /\ UNCHANGED <<diagJob, diagRows, diagEvents, diagStale, lost>>

-----------------------------------------------------------------------------
(* create_job_if_needed *)

FindJob(r) ==
    /\ At(r, "find")
    /\ GoesTo(r, CASE diagJob.status = "ABSENT" -> "insert"
                   [] diagJob.status \in DiagTerminal -> "countRows"
                   [] OTHER -> "mark")
    /\ UNCHANGED <<diagJob, diagRows, diagEvents, diagStale, sessions, diagLock,
                   claimed, counted, lost>>

\* The source backtest may still be missing, or have no universe: the run ends.
InsertDiagJob(r) ==
    /\ At(r, "insert")
    /\ \/ /\ diagJob' = [diagJob EXCEPT !.status = "PENDING"]
          /\ GoesTo(r, "rows")
       \/ /\ GoesTo(r, "unlock")
          /\ UNCHANGED diagJob
    /\ UNCHANGED <<diagRows, diagEvents, diagStale, sessions, diagLock, claimed,
                   counted, lost>>

InsertRows(r) ==
    /\ At(r, "rows")
    /\ diagRows' = [s \in DiagSymbols |->
                       IF diagRows[s] = "ABSENT" THEN "PENDING" ELSE diagRows[s]]
    /\ GoesTo(r, "mark")
    /\ UNCHANGED <<diagJob, diagEvents, diagStale, sessions, diagLock, claimed,
                   counted, lost>>

-----------------------------------------------------------------------------
(* The claim *)

MarkJobRunning(r) ==
    /\ At(r, "mark")
    /\ diagJob' = [diagJob EXCEPT !.status = "RUNNING"]
    /\ GoesTo(r, "reset")
    /\ UNCHANGED <<diagRows, diagEvents, diagStale, sessions, diagLock, claimed,
                   counted, lost>>

ResetStale(r) ==
    /\ At(r, "reset")
    /\ diagRows' = [s \in DiagSymbols |->
                       IF s \in diagStale THEN "PENDING" ELSE diagRows[s]]
    /\ diagStale' = {}
    /\ GoesTo(r, "claim")
    /\ UNCHANGED <<diagJob, diagEvents, sessions, diagLock, claimed, counted,
                   lost>>

\* The first n pending rows in queue order, or all of them.
FirstPending(n) ==
    {s \in RowsWith({"PENDING"}) :
        Cardinality({t \in RowsWith({"PENDING"}) : t < s}) < n}

\* claim_symbols: one transaction.  Nothing to claim: only recount.
Claim(r) ==
    /\ At(r, "claim")
    /\ \E n \in DiagBatches :
          /\ claimed' = [claimed EXCEPT ![r] = FirstPending(n)]
          /\ diagRows' = [s \in DiagSymbols |->
                             IF s \in FirstPending(n) THEN "RUNNING"
                             ELSE diagRows[s]]
          /\ GoesTo(r, IF FirstPending(n) = {} THEN "countRows" ELSE "btc")
    /\ UNCHANGED <<diagJob, diagEvents, diagStale, sessions, diagLock, counted,
                   lost>>

-----------------------------------------------------------------------------
(* The replays *)

\* The bars of BTCUSDC come first; without them the run ends, its rows RUNNING.
FetchBtcBars(r) ==
    /\ At(r, "btc")
    /\ \E next \in {"symbol", "unlock"} : GoesTo(r, next)
    /\ UNCHANGED <<diagJob, diagRows, diagEvents, diagStale, sessions, diagLock,
                   claimed, counted, lost>>

\* Symbol s of the batch is finished with this status.
FinishRow(r, s, status) ==
    /\ diagRows' = [diagRows EXCEPT ![s] = status]
    /\ diagStale' = diagStale \ {s}
    /\ claimed' = [claimed EXCEPT ![r] = @ \ {s}]
    /\ GoesTo(r, IF claimed[r] = {s} THEN "countRows" ELSE "symbol")
    /\ UNCHANGED <<diagJob, sessions, diagLock, counted, lost>>

IsFirst(s, symbols) == s \in symbols /\ \A t \in symbols : s <= t

\* Events and row status are one transaction; the key of an event makes it
\* the same event in every replay.
StoreReplay(r) ==
    /\ At(r, "symbol")
    /\ \E s \in claimed[r] :
          /\ IsFirst(s, claimed[r])
          /\ diagEvents' = [diagEvents EXCEPT ![s] = DiagEventCount[s]]
          /\ FinishRow(r, s, "COMPLETED")

\* The fetch, the replay or a statement of the transaction raises.
StoreFailure(r) ==
    /\ At(r, "symbol")
    /\ \E s \in claimed[r] :
          /\ IsFirst(s, claimed[r])
          /\ FinishRow(r, s, "FAILED")
    /\ UNCHANGED diagEvents

-----------------------------------------------------------------------------
(* update_job_counts: three statements *)

\* Mutant: the rows that run are not counted as open.
CountRowsPending(r) ==
    /\ At(r, "countRows")
    /\ counted' = [counted EXCEPT ![r] =
          [@ EXCEPT !.completed = RowsWith({"COMPLETED"}),
                    !.failed = RowsWith({"FAILED"}),
                    !.open = RowsWith({"PENDING"})]]
    /\ GoesTo(r, "countEvents")
    /\ UNCHANGED <<diagJob, diagRows, diagEvents, diagStale, sessions, diagLock,
                   claimed, lost>>

CountRows(r) ==
    /\ At(r, "countRows")
    /\ counted' = [counted EXCEPT ![r] =
          [@ EXCEPT !.completed = RowsWith({"COMPLETED"}),
                    !.failed = RowsWith({"FAILED"}),
                    !.open = RowsWith({"PENDING", "RUNNING"})]]
    /\ GoesTo(r, "countEvents")
    /\ UNCHANGED <<diagJob, diagRows, diagEvents, diagStale, sessions, diagLock,
                   claimed, lost>>

CountEvents(r) ==
    /\ At(r, "countEvents")
    /\ counted' = [counted EXCEPT ![r] = [@ EXCEPT !.events = diagEvents]]
    /\ GoesTo(r, "save")
    /\ UNCHANGED <<diagJob, diagRows, diagEvents, diagStale, sessions, diagLock,
                   claimed, lost>>

StatusOf(counts) ==
    IF counts.open # {} THEN "RUNNING"
    ELSE IF counts.failed = {} THEN "COMPLETED" ELSE "PARTIAL"

SaveReport(r) ==
    /\ At(r, "save")
    /\ diagJob' = [status |-> StatusOf(counted[r]), counts |-> counted[r]]
    /\ GoesTo(r, "unlock")
    /\ UNCHANGED <<diagRows, diagEvents, diagStale, sessions, diagLock, claimed,
                   counted, lost>>

-----------------------------------------------------------------------------
(* Faults and the clock *)

\* The session ends: PostgreSQL frees its lock, the run does not know yet.
LoseDiagSession(r) ==
    /\ r \in sessions
    /\ lost < MaxLost
    /\ lost' = lost + 1
    /\ sessions' = sessions \ {r}
    /\ diagLock' = diagLock \ {r}
    /\ UNCHANGED <<diagJob, diagRows, diagEvents, diagStale, at, claimed, counted>>

\* Its next statement raises; so does the one that would store the failure.
NoticeLoss(r) ==
    /\ at[r] # "out"
    /\ r \notin sessions
    /\ claimed' = [claimed EXCEPT ![r] = {}]
    /\ counted' = [counted EXCEPT ![r] = NoCounts]
    /\ GoesTo(r, "out")
    /\ UNCHANGED <<diagJob, diagRows, diagEvents, diagStale, sessions, diagLock,
                   lost>>

\* A row has been RUNNING for longer than the limit.
RowAges ==
    /\ \E s \in RowsWith({"RUNNING"}) \ diagStale : diagStale' = diagStale \cup {s}
    /\ UNCHANGED <<diagJob, diagRows, diagEvents, sessions, diagLock, at, claimed,
                   counted, lost>>

Batch(r) ==
    \/ Connect(r) \/ TryLock(r) \/ ReleaseLock(r)
    \/ FindJob(r) \/ InsertDiagJob(r) \/ InsertRows(r)
    \/ MarkJobRunning(r) \/ ResetStale(r) \/ Claim(r)
    \/ FetchBtcBars(r) \/ StoreReplay(r) \/ StoreFailure(r)
    \/ CountRows(r) \/ CountEvents(r) \/ SaveReport(r)
    \/ LoseDiagSession(r) \/ NoticeLoss(r)

DiagNext == RowAges \/ \E r \in Runs : Batch(r)

DiagSpec == DiagInit /\ [][DiagNext]_diagVars

-----------------------------------------------------------------------------
(* Safety *)

\* A COMPLETED row has all the events of its symbol and every other row has
\* none, whoever replayed it, also when a run that lost its session goes on
\* with a row that was reset and claimed again (diagnostics_v073.py,
\* run_diagnostic_batch).
DiagnosticsAreWhole ==
    \A s \in DiagSymbols :
        diagEvents[s] = IF diagRows[s] = "COMPLETED" THEN DiagEventCount[s] ELSE 0

\* A report that says COMPLETED or PARTIAL counts exactly the rows and events
\* that are stored, and nothing is left to do.  (A job whose rows were never
\* inserted has nothing to count: it reports COMPLETED with no symbol.)
ReportIsExact ==
    diagJob.status \in DiagTerminal =>
        /\ diagJob.counts.completed = RowsWith({"COMPLETED"})
        /\ diagJob.counts.failed = RowsWith({"FAILED"})
        /\ diagJob.counts.events = diagEvents
        /\ RowsWith({"PENDING", "RUNNING"}) = {}

\* The events are whole, and a settled report tells what they are.
DiagnosticsAreExact == DiagnosticsAreWhole /\ ReportIsExact
=============================================================================
