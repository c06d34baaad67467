--------------------------- MODULE BacktestQueue ---------------------------
(***************************************************************************)
(* The historical replay queue of backtest.py.                             *)
(*                                                                         *)
(* A batch run (run_backtest_batch) is started by the cron entry point     *)
(* backtest_worker.py or by the background task of the API route           *)
(* POST /v1/day-trade/backtest/run-batch.  Each of them is a sequential    *)
(* process, a member of Workers; all of them share three tables:           *)
(*                                                                         *)
(*   day_trade_backtest_jobs     job[j]    one replay job                  *)
(*   day_trade_backtest_symbols  sym[j][s] the queue entry of a symbol     *)
(*   day_trade_backtest_signals  signals[j][s] how many signal rows exist  *)
(*                                                                         *)
(* The connection is in autocommit mode, so every SQL statement that is    *)
(* not inside "async with connection.transaction()" is a step of its own.  *)
(* The claim is two steps (SELECT ... FOR UPDATE SKIP LOCKED, then UPDATE  *)
(* and commit) with the row locks held in between.                         *)
(*                                                                         *)
(* Symbols are numbered by their place in the queue order of claim_symbols *)
(* (BTCUSDC first, then by row id).                                        *)
(***************************************************************************)
EXTENDS Naturals, FiniteSets

CONSTANTS
    Workers,      \* processes able to run run_backtest_batch
    Symbols,      \* the universe of the job, numbered in queue order
    BatchSize,    \* BACKTEST_BATCH_SYMBOLS
    SignalCount,  \* signals the replay of a symbol yields
    MaxJobs,      \* bound on the jobs ever inserted
    MaxSlot,      \* bound on the five-minute windows that pass
    MaxResets,    \* bound on the resets of a claim whose worker is alive
    MaxCrashes    \* bound on the runs that die

ASSUME SymbolsAssumption ==
    Symbols \subseteq Nat /\ IsFiniteSet(Symbols) /\ Symbols # {}
ASSUME BatchSizeAssumption == BatchSize \in Nat \ {0}
ASSUME SignalCountAssumption == SignalCount \in [Symbols -> Nat]
ASSUME BoundsAssumption ==
    /\ MaxJobs \in Nat \ {0}
    /\ MaxSlot \in Nat
    /\ MaxResets \in Nat
    /\ MaxCrashes \in Nat

VARIABLES
    job,        \* day_trade_backtest_jobs, by id
    njobs,      \* the id of the latest job, 0 when there is none
    sym,        \* status of every day_trade_backtest_symbols row
    signals,    \* number of stored signal rows of a job and symbol
    stale,      \* RUNNING rows whose started_at is older than the limit
    resets,     \* how often a row was put back by reset_stale_symbols
    slot,       \* the current five-minute window of the clock
    crashes,    \* runs that died so far
    pc,         \* next statement of a worker
    cur,        \* the job a worker is working on
    todo,       \* claimed symbols a worker has not finished
    tally,      \* symbol counts a worker read in update_job_counts
    sigTally    \* signal counts a worker read in update_job_counts

env == <<slot, crashes>>
vars == <<job, njobs, sym, signals, stale, resets, env,
          pc, cur, todo, tally, sigTally>>

JobIds == 1..MaxJobs
JobStatus == {"PENDING", "RUNNING", "COMPLETED", "PARTIAL", "FAILED"}
Terminal == {"COMPLETED", "PARTIAL", "FAILED"}
SymbolStatus == {"ABSENT", "PENDING", "RUNNING", "COMPLETED", "FAILED"}
Done == {"COMPLETED", "FAILED"}
Labels == {"idle", "insertJob", "insertSymbols", "markRunning", "reset",
           "claim", "commitClaim", "fetchBtc", "replay",
           "countSymbols", "countSignals", "saveCounts"}

\* SELECT COUNT(star) over the signals of a job is kept as the counts of its
\* symbols, which it is the sum of.
NoSignals == [s \in Symbols |-> 0]
NoTally == [completed |-> 0, failed |-> 0, open |-> 0]
NewJob == [status |-> "PENDING", window |-> slot, completed |-> 0,
           failed |-> 0, signals |-> NoSignals, finished |-> FALSE]

\* Rows of job j with one of the given statuses.
With(j, statuses) == {s \in Symbols : sym[j][s] \in statuses}

Held(j, s) == \E w \in Workers : cur[w] = j /\ s \in todo[w]

\* Mutant: the claim selects without FOR UPDATE SKIP LOCKED.
LockedByOthersUnlocked(w, j) == {}

\* Rows of job j a worker other than w has locked in its open claim.
LockedByOthers(w, j) ==
    UNION {todo[v] : v \in {u \in Workers \ {w} :
                               pc[u] = "commitClaim" /\ cur[u] = j}}

TypeOK ==
    /\ job \in [JobIds -> [status : JobStatus, window : Nat, completed : Nat,
                           failed : Nat, signals : [Symbols -> Nat],
                           finished : BOOLEAN]]
    /\ njobs \in 0..MaxJobs
    /\ sym \in [JobIds -> [Symbols -> SymbolStatus]]
    /\ signals \in [JobIds -> [Symbols -> Nat]]
    /\ stale \subseteq JobIds \X Symbols
    /\ resets \in [JobIds -> [Symbols -> Nat]]
    /\ slot \in 0..MaxSlot
    /\ crashes \in 0..MaxCrashes
    /\ pc \in [Workers -> Labels]
    /\ cur \in [Workers -> 0..MaxJobs]
    /\ \A w \in Workers : cur[w] = 0 => pc[w] \in {"idle", "insertJob"}
    /\ todo \in [Workers -> SUBSET Symbols]
    /\ tally \in [Workers -> [completed : Nat, failed : Nat, open : Nat]]
    /\ sigTally \in [Workers -> [Symbols -> Nat]]

Init ==
    /\ slot = 0
    /\ job = [j \in JobIds |-> NewJob]
    /\ njobs = 0
    /\ sym = [j \in JobIds |-> [s \in Symbols |-> "ABSENT"]]
    /\ signals = [j \in JobIds |-> NoSignals]
    /\ stale = {}
    /\ resets = [j \in JobIds |-> [s \in Symbols |-> 0]]
    /\ crashes = 0
    /\ pc = [w \in Workers |-> "idle"]
    /\ cur = [w \in Workers |-> 0]
    /\ todo = [w \in Workers |-> {}]
    /\ tally = [w \in Workers |-> NoTally]
    /\ sigTally = [w \in Workers |-> NoSignals]

Goto(w, label) == pc' = [pc EXCEPT ![w] = label]

-----------------------------------------------------------------------------
(* create_job_if_needed *)

\* Mutant: a terminal job is not recounted.
LookupJobNoRecount(w) ==
    /\ pc[w] = "idle"
    /\ cur' = [cur EXCEPT ![w] = njobs]
    /\ \/ njobs = 0 /\ Goto(w, "insertJob")
       \/ njobs # 0 /\ job[njobs].status \in Terminal /\ Goto(w, "idle")
       \/ njobs # 0 /\ job[njobs].status \notin Terminal /\ Goto(w, "markRunning")
    /\ UNCHANGED <<job, njobs, sym, signals, stale, resets, env,
                   todo, tally, sigTally>>

\* SELECT the latest job of this name and version.  A terminal job is only
\* recounted; a missing one makes the worker call the exchange first.
LookupJob(w) ==
    /\ pc[w] = "idle"
    /\ cur' = [cur EXCEPT ![w] = njobs]
    /\ Goto(w, IF njobs = 0 THEN "insertJob"
               ELSE IF job[njobs].status \in Terminal THEN "countSymbols"
               ELSE "markRunning")
    /\ UNCHANGED <<job, njobs, sym, signals, stale, resets, env,
                   todo, tally, sigTally>>

\* job_key is UNIQUE and holds the five-minute window the clock is in.
InsertJob(w) ==
    /\ pc[w] = "insertJob"
    /\ njobs < MaxJobs
    /\ \A j \in 1..njobs : job[j].window # slot
    /\ njobs' = njobs + 1
    /\ job' = [job EXCEPT ![njobs + 1] = NewJob]
    /\ cur' = [cur EXCEPT ![w] = njobs + 1]
    /\ Goto(w, "insertSymbols")
    /\ UNCHANGED <<sym, signals, stale, resets, env, todo, tally, sigTally>>

\* Another worker inserted its job in the same window: the INSERT raises.
DuplicateJobKey(w) ==
    /\ pc[w] = "insertJob"
    /\ \E j \in 1..njobs : job[j].window = slot
    /\ Goto(w, "idle")
    /\ UNCHANGED <<job, njobs, sym, signals, stale, resets, env,
                   cur, todo, tally, sigTally>>

\* One executemany with ON CONFLICT DO NOTHING, after the job row is visible.
InsertSymbols(w) ==
    LET j == cur[w] IN
    /\ pc[w] = "insertSymbols"
    /\ sym' = [sym EXCEPT ![j] =
           [s \in Symbols |-> IF @[s] = "ABSENT" THEN "PENDING" ELSE @[s]]]
    /\ Goto(w, "markRunning")
    /\ UNCHANGED <<job, njobs, signals, stale, resets, env,
                   cur, todo, tally, sigTally>>

-----------------------------------------------------------------------------
(* run_backtest_batch up to the claim *)

MarkRunning(w) ==
    /\ pc[w] = "markRunning"
    /\ job' = [job EXCEPT ![cur[w]].status = "RUNNING"]
    /\ Goto(w, "reset")
    /\ UNCHANGED <<njobs, sym, signals, stale, resets, env,
                   cur, todo, tally, sigTally>>

ResetStaleSymbols(w) ==
    LET j == cur[w]
        old == {s \in With(j, {"RUNNING"}) : <<j, s>> \in stale}
    IN
    /\ pc[w] = "reset"
    /\ sym' = [sym EXCEPT ![j] =
           [s \in Symbols |-> IF s \in old THEN "PENDING" ELSE @[s]]]
    /\ resets' = [resets EXCEPT ![j] =
           [s \in Symbols |-> IF s \in old THEN @[s] + 1 ELSE @[s]]]
    /\ stale' = stale \ ({j} \X old)
    /\ Goto(w, "claim")
    /\ UNCHANGED <<job, njobs, signals, env, cur, todo, tally, sigTally>>

\* Rows SELECT ... FOR UPDATE SKIP LOCKED LIMIT returns to w.
Claimable(w) ==
    LET free == With(cur[w], {"PENDING"}) \ LockedByOthers(w, cur[w]) IN
    {s \in free : Cardinality({t \in free : t < s}) < BatchSize}

\* Mutant: a run that claims nothing returns without updating the counts.
ClaimSymbolsNoCount(w) ==
    /\ pc[w] = "claim"
    /\ todo' = [todo EXCEPT ![w] = Claimable(w)]
    /\ Goto(w, IF Claimable(w) = {} THEN "idle" ELSE "commitClaim")
    /\ UNCHANGED <<job, njobs, sym, signals, stale, resets, env,
                   cur, tally, sigTally>>

ClaimSymbols(w) ==
    /\ pc[w] = "claim"
    /\ todo' = [todo EXCEPT ![w] = Claimable(w)]
    /\ Goto(w, IF Claimable(w) = {} THEN "countSymbols" ELSE "commitClaim")
    /\ UNCHANGED <<job, njobs, sym, signals, stale, resets, env,
                   cur, tally, sigTally>>

\* The UPDATE of the locked rows; the commit releases them.
CommitClaim(w) ==
    LET j == cur[w] IN
    /\ pc[w] = "commitClaim"
    /\ sym' = [sym EXCEPT ![j] =
           [s \in Symbols |-> IF s \in todo[w] THEN "RUNNING" ELSE @[s]]]
    /\ stale' = stale \ ({j} \X todo[w])
    /\ Goto(w, "fetchBtc")
    /\ UNCHANGED <<job, njobs, signals, resets, env,
                   cur, todo, tally, sigTally>>

\* A failing fetch kills the run: see Crash.
FetchBtc(w) ==
    /\ pc[w] = "fetchBtc"
    /\ Goto(w, "replay")
    /\ UNCHANGED <<job, njobs, sym, signals, stale, resets, env,
                   cur, todo, tally, sigTally>>

-----------------------------------------------------------------------------
(* run_backtest_batch: the claimed symbols, in queue order *)

\* The row w works on now.  An UPDATE waits while another open claim holds
\* the lock of the row.
Current(w, s) ==
    /\ pc[w] = "replay"
    /\ s \in todo[w]
    /\ \A t \in todo[w] : s <= t
    /\ s \notin LockedByOthers(w, cur[w])

AfterSymbol(w, s) ==
    /\ todo' = [todo EXCEPT ![w] = @ \ {s}]
    /\ Goto(w, IF todo[w] = {s} THEN "countSymbols" ELSE "replay")

\* Mutant: the signals are inserted without ON CONFLICT (signal_key).
InsertSignalsAgain(j, s) ==
    signals' = [signals EXCEPT ![j][s] = @ + SignalCount[s]]

\* Rows the replay adds: ON CONFLICT (signal_key) DO NOTHING keeps old ones.
InsertSignals(j, s) ==
    signals' = [signals EXCEPT ![j][s] = IF @ = 0 THEN SignalCount[s] ELSE @]

\* One transaction: insert the signals, then complete the row by its id.
CompleteSymbol(w) ==
    \E s \in Symbols :
        /\ Current(w, s)
        /\ InsertSignals(cur[w], s)
        /\ sym' = [sym EXCEPT ![cur[w]][s] = "COMPLETED"]
        /\ stale' = stale \ {<<cur[w], s>>}
        /\ AfterSymbol(w, s)
        /\ UNCHANGED <<job, njobs, resets, env, cur, tally, sigTally>>

\* The fetch, the replay or the transaction raised.
FailSymbol(w) ==
    \E s \in Symbols :
        /\ Current(w, s)
        /\ sym' = [sym EXCEPT ![cur[w]][s] = "FAILED"]
        /\ stale' = stale \ {<<cur[w], s>>}
        /\ AfterSymbol(w, s)
        /\ UNCHANGED <<job, njobs, signals, resets, env, cur, tally, sigTally>>

-----------------------------------------------------------------------------
(* update_job_counts: three statements *)

\* Mutant: FAILED rows, which have a completed_at too, count as completed.
CountSymbolsByTime(w) ==
    LET j == cur[w] IN
    /\ pc[w] = "countSymbols"
    /\ tally' = [tally EXCEPT ![w] =
           [completed |-> Cardinality(With(j, Done)),
            failed |-> Cardinality(With(j, {"FAILED"})),
            open |-> Cardinality(With(j, {"PENDING", "RUNNING"}))]]
    /\ Goto(w, "countSignals")
    /\ UNCHANGED <<job, njobs, sym, signals, stale, resets, env,
                   cur, todo, sigTally>>

CountSymbols(w) ==
    LET j == cur[w] IN
    /\ pc[w] = "countSymbols"
    /\ tally' = [tally EXCEPT ![w] =
           [completed |-> Cardinality(With(j, {"COMPLETED"})),
            failed |-> Cardinality(With(j, {"FAILED"})),
            open |-> Cardinality(With(j, {"PENDING", "RUNNING"}))]]
    /\ Goto(w, "countSignals")
    /\ UNCHANGED <<job, njobs, sym, signals, stale, resets, env,
                   cur, todo, sigTally>>

CountSignals(w) ==
    /\ pc[w] = "countSignals"
    /\ sigTally' = [sigTally EXCEPT ![w] = signals[cur[w]]]
    /\ Goto(w, "saveCounts")
    /\ UNCHANGED <<job, njobs, sym, signals, stale, resets, env,
                   cur, todo, tally>>

CountedStatus(t) ==
    IF t.open > 0 THEN "RUNNING"
    ELSE IF t.failed = 0 THEN "COMPLETED" ELSE "PARTIAL"

SaveCounts(w) ==
    LET t == tally[w] IN
    /\ pc[w] = "saveCounts"
    /\ job' = [job EXCEPT ![cur[w]] =
           [status |-> CountedStatus(t), window |-> @.window,
            completed |-> t.completed, failed |-> t.failed,
            signals |-> sigTally[w], finished |-> t.open = 0 \/ @.finished]]
    /\ tally' = [tally EXCEPT ![w] = NoTally]
    /\ sigTally' = [sigTally EXCEPT ![w] = NoSignals]
    /\ Goto(w, "idle")
    /\ UNCHANGED <<njobs, sym, signals, stale, resets, env, cur, todo>>

-----------------------------------------------------------------------------
(* Time, failures *)

\* Any exception outside the try of the symbol loop, or the end of the
\* process: the connection closes, an open claim is rolled back, and rows
\* already claimed stay RUNNING.
Crash(w) ==
    /\ pc[w] # "idle"
    /\ crashes < MaxCrashes
    /\ crashes' = crashes + 1
    /\ todo' = [todo EXCEPT ![w] = {}]
    /\ tally' = [tally EXCEPT ![w] = NoTally]
    /\ sigTally' = [sigTally EXCEPT ![w] = NoSignals]
    /\ Goto(w, "idle")
    /\ UNCHANGED <<job, njobs, sym, signals, stale, resets, slot, cur>>

\* A claim becomes older than BACKTEST_STALE_RUN_MINUTES.  For a claim whose
\* worker still runs this is a slow worker, and MaxResets bounds it.
Expire(j, s) ==
    /\ sym[j][s] = "RUNNING"
    /\ <<j, s>> \notin stale
    /\ Held(j, s) => resets[j][s] < MaxResets
    /\ stale' = stale \cup {<<j, s>>}
    /\ UNCHANGED <<job, njobs, sym, signals, resets, env,
                   pc, cur, todo, tally, sigTally>>

NextSlot ==
    /\ slot < MaxSlot
    /\ slot' = slot + 1
    /\ UNCHANGED <<job, njobs, sym, signals, stale, resets, crashes,
                   pc, cur, todo, tally, sigTally>>

-----------------------------------------------------------------------------

Step(w) ==
    \/ LookupJob(w) \/ InsertJob(w) \/ DuplicateJobKey(w) \/ InsertSymbols(w)
    \/ MarkRunning(w) \/ ResetStaleSymbols(w)
    \/ ClaimSymbols(w) \/ CommitClaim(w) \/ FetchBtc(w)
    \/ CompleteSymbol(w) \/ FailSymbol(w)
    \/ CountSymbols(w) \/ CountSignals(w) \/ SaveCounts(w)

Next ==
    \/ \E w \in Workers : Step(w) \/ Crash(w)
    \/ \E j \in JobIds, s \in Symbols : Expire(j, s)
    \/ NextSlot

Spec == Init /\ [][Next]_vars

\* The cron keeps starting runs, every statement returns or raises, and the
\* age of a claim grows.
Fairness ==
    /\ \A w \in Workers : WF_vars(Step(w))
    /\ \A j \in JobIds, s \in Symbols : WF_vars(Expire(j, s))

FairSpec == Spec /\ Fairness

-----------------------------------------------------------------------------
(* Safety *)

\* The rows of a symbol are stored as a whole: a row that still waits or is
\* being worked on has no signal, a COMPLETED one has exactly those of one
\* replay, however many workers replayed it (backtest.py, insert_signals).
SignalsAreWhole ==
    \A j \in JobIds, s \in Symbols :
        /\ signals[j][s] \in {0, SignalCount[s]}
        /\ sym[j][s] = "COMPLETED" => signals[j][s] = SignalCount[s]
        /\ sym[j][s] \notin Done => signals[j][s] = 0

\* Two workers work on the same row only after the stale reset gave the row
\* away: FOR UPDATE SKIP LOCKED hands a PENDING row to one worker.
NoDoubleWork ==
    \A v, w \in Workers :
        \A s \in Symbols :
            /\ v # w
            /\ cur[v] = cur[w]
            /\ s \in todo[v] \cap todo[w]
            => resets[cur[w]][s] > 0

\* The progress a client polls never runs ahead of the queue: the recorded
\* completed + failed symbols are done, though the counts may be old.
ReportedIsDone ==
    \A j \in JobIds :
        job[j].completed + job[j].failed <= Cardinality(With(j, Done))

\* A terminal job has all rows done, unless it was counted before its rows
\* were inserted: then it reports no symbol at all.
TerminalIsAllOrNothing ==
    \A j \in JobIds :
        job[j].status \in Terminal =>
            \/ With(j, Done) = Symbols
            \/ job[j].completed + job[j].failed = 0

\* When the record says that every symbol completed, the recorded signals
\* are those of the whole replay: the signals are counted after the rows.
FullReportHasAllSignals ==
    \A j \in JobIds :
        job[j].completed = Cardinality(Symbols) => job[j].signals = SignalCount

\* What a client polls is never ahead of the queue: three promises about the
\* record that update_job_counts composes from two reads.
ReportIsHonest == ReportedIsDone /\ TerminalIsAllOrNothing /\ FullReportHasAllSignals

\* A row that is done is never handed out again, even to a worker whose claim
\* was being committed while a slow worker finished the row.
DoneIsFinal ==
    [][\A j \in JobIds, s \in Symbols :
          sym[j][s] \in Done => sym'[j][s] \in Done]_vars

-----------------------------------------------------------------------------
(* The inductive invariants behind the safety properties *)

Working == {"commitClaim", "fetchBtc", "replay"}

\* The rows of an open claim are still PENDING, and no two open claims share
\* one: only this keeps a commit from handing out a row that is done.
ClaimsArePending ==
    \A w \in Workers :
        pc[w] = "commitClaim" => \A s \in todo[w] : sym[cur[w]][s] = "PENDING"

ClaimsAreDisjoint ==
    \A v, w \in Workers :
        (v # w /\ pc[v] = "commitClaim" /\ pc[w] = "commitClaim" /\ cur[v] = cur[w])
            => todo[v] \cap todo[w] = {}

\* A row that was never reset is RUNNING while a worker works on it.
WorkedOnIsRunning ==
    \A w \in Workers :
        pc[w] \in {"fetchBtc", "replay"} =>
            \A s \in todo[w] :
                resets[cur[w]][s] = 0 => sym[cur[w]][s] = "RUNNING"

OthersHoldNothing ==
    \A w \in Workers : pc[w] \notin Working => todo[w] = {}

\* A worker only holds rows that were inserted.
HeldRowsExist ==
    \A w \in Workers : \A s \in todo[w] : sym[cur[w]][s] # "ABSENT"

ClaimInv ==
    /\ HeldRowsExist
    /\ ClaimsArePending
    /\ ClaimsAreDisjoint
    /\ WorkedOnIsRunning
    /\ OthersHoldNothing
    /\ NoDoubleWork

\* The rows of a job are inserted together.
RowsAppearTogether ==
    \A j \in JobIds :
        \/ \A s \in Symbols : sym[j][s] = "ABSENT"
        \/ \A s \in Symbols : sym[j][s] # "ABSENT"

\* The counts a worker carries were true when it read them and stay a lower
\* bound, and signals read after a full count are complete.
TallyIsOldTruth(w) ==
    LET j == cur[w]
        t == tally[w]
    IN
    /\ t.completed + t.failed <= Cardinality(With(j, Done))
    /\ t.open = 0 => With(j, Done) = Symbols \/ t.completed + t.failed = 0
    /\ t.completed = Cardinality(Symbols) =>
          /\ signals[j] = SignalCount
          /\ pc[w] = "saveCounts" => sigTally[w] = SignalCount

TalliesAreOldTruths ==
    \A w \in Workers :
        pc[w] \in {"countSignals", "saveCounts"} => TallyIsOldTruth(w)

ReportInv ==
    /\ SignalsAreWhole
    /\ RowsAppearTogether
    /\ TalliesAreOldTruths
    /\ ReportedIsDone
    /\ TerminalIsAllOrNothing
    /\ FullReportHasAllSignals

-----------------------------------------------------------------------------
(* Liveness *)

\* Every row of the latest job is completed or failed in the end: a row lost
\* by a dead worker is reset and claimed by a later run.
LatestJobIsWorkedOff ==
    \A j \in JobIds :
        (njobs = j /\ With(j, {"ABSENT"}) = {})
            ~> (With(j, Done) = Symbols \/ njobs # j)

\* Once the latest job is worked off, its recorded counts settle on the full
\* ones, although slow workers may overwrite them with old counts meanwhile,
\* and its status is terminal again and again.  (It need not stay terminal:
\* runs that keep overlapping may mark it RUNNING from an old read for ever.)
WorkedOff(j) == njobs = j /\ With(j, Done) = Symbols

ReportSettles ==
    \A j \in JobIds :
        /\ <>[](WorkedOff(j) =>
                   job[j].completed + job[j].failed = Cardinality(Symbols))
        /\ []<>(WorkedOff(j) => job[j].status \in Terminal)

\* Runs that overlap, slow down and die still come to an end with a job.
JobsAreFinished == LatestJobIsWorkedOff /\ ReportSettles

=============================================================================
