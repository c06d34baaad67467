---------------------------- MODULE SwingCapture ----------------------------
(***************************************************************************)
(* The forward captures of the swing-liquidity trial: the collector of     *)
(* swing_liquidity_shadow.py with the lineage guard around it, the one     *)
(* transaction of persist_forward_snapshot, and the milestones that        *)
(* record_lifecycle_on_capture_persistence adds in it.                     *)
(*                                                                         *)
(* A guarded collector reads the worker's status before and after it       *)
(* collects, and the version of the API, while both are being deployed.    *)
(* The schema script of the transaction alters the table of captures, so   *)
(* that from there to its end no other can write; NOW(), the inserted_at   *)
(* of a capture and the recorded_at of a milestone, is older: the time the *)
(* transaction began.  Every collector here sends pit-v1 provenance; the   *)
(* captures without are older than the ledger.                             *)
(***************************************************************************)
EXTENDS Naturals, Sequences, FiniteSets

CONSTANTS
    Collectors,      \* runs of the capture script that may overlap
    Guarded,         \* those that check the lineage of the scan
    LastHour,        \* bound on the clock
    LastBuild,       \* bound on the deployments
    MinConsecutive   \* MIN_CONSECUTIVE_CAPTURES

ASSUME CollectorsAssumption == Guarded \subseteq Collectors
ASSUME HoursAssumption == {LastHour, LastBuild, MinConsecutive} \subseteq Nat

VARIABLES
    hour,        \* the clock
    builds,      \* the build that the API and the swing worker run
    latestScan,   \* the latest scan: its time and the build that made it
    collector,   \* what each collector is doing
    captures,    \* swing_liquidity_forward_captures
    observed,    \* captured_at of the rows in swing_liquidity_forward_observations
    milestones,  \* the lifecycle events of the trial, in order
    writer       \* the collector whose transaction holds the table, or Nobody

captureVars == <<hour, builds, latestScan, collector, captures, observed, milestones, writer>>

Nobody == "nobody"
ASSUME NobodyAssumption == Nobody \notin Collectors

Unknown == [at |-> 0, build |-> 0]
Away == [at |-> 0, step |-> "away", pre |-> Unknown, scan |-> Unknown,
         full |-> FALSE, api |-> 0, worker |-> 0, start |-> 0]

Gathers(c, record) == collector' = [collector EXCEPT ![c] = record]

-----------------------------------------------------------------------------
(* collect_snapshot_with_worker_lineage *)

\* The worker's status before; scan and status are committed together.
ObserveWorker(c) ==
    /\ c \in Guarded /\ collector[c] = Away
    /\ Gathers(c, [Away EXCEPT !.step = "collect", !.pre = latestScan])
    /\ UNCHANGED <<hour, builds, latestScan, captures, observed, milestones, writer>>

\* collect_snapshot: the scan, then an order book for each of its symbols.
CollectSnapshot(c, full) ==
    /\ IF c \in Guarded THEN collector[c].step = "collect" ELSE collector[c] = Away
    /\ Gathers(c, [collector[c] EXCEPT !.at = hour, !.scan = latestScan, !.full = full,
                                       !.step = IF c \in Guarded THEN "version" ELSE "post"])
    /\ UNCHANGED <<hour, builds, latestScan, captures, observed, milestones, writer>>

ReadVersion(c) ==
    /\ collector[c].step = "version"
    /\ Gathers(c, [collector[c] EXCEPT !.api = builds.api, !.step = "verify"])
    /\ UNCHANGED <<hour, builds, latestScan, captures, observed, milestones, writer>>

\* Mutant: a rotation inside the window is taken for the build seen before it.
WorkerBuildOfWindow(pre, scan, post) ==
    IF post.at = scan.at THEN post.build
    ELSE IF pre.at <= scan.at /\ scan.at <= post.at THEN pre.build ELSE 0

\* The build of the worker that made the scan, 0 when it cannot be told: a
\* status with the time of the scan, or two of one build around it.
WorkerBuild(pre, scan, post) ==
    LET exact == {s.build : s \in {x \in {pre, post} : x.at = scan.at}}
    IN  IF exact # {}
        THEN IF Cardinality(exact) = 1 THEN CHOOSE b \in exact : TRUE ELSE 0
        ELSE IF pre.build = post.build /\ pre.at <= scan.at /\ scan.at <= post.at
             THEN pre.build ELSE 0

\* The worker's status after, and the verdict: another build than that of the
\* API, or none, and nothing is posted.
VerifyLineage(c) ==
    LET worker == WorkerBuild(collector[c].pre, collector[c].scan, latestScan)
    IN  /\ collector[c].step = "verify"
        /\ Gathers(c, IF worker # 0 /\ worker = collector[c].api
                      THEN [collector[c] EXCEPT !.worker = worker, !.step = "post"]
                      ELSE Away)
        /\ UNCHANGED <<hour, builds, latestScan, captures, observed, milestones, writer>>

-----------------------------------------------------------------------------
(* persist_forward_snapshot *)

\* BEGIN sets the time of the transaction.
BeginPost(c) ==
    /\ collector[c].step = "post"
    /\ Gathers(c, [collector[c] EXCEPT !.start = hour, !.api = builds.api, !.step = "begun"])
    /\ UNCHANGED <<hour, builds, latestScan, captures, observed, milestones, writer>>

SnapshotRow(c) ==
    [at |-> collector[c].at, inserted |-> collector[c].start, full |-> collector[c].full,
     sha |-> collector[c].api, worker |-> collector[c].worker, origin |-> collector[c].scan.build]

\* Mutant: a capture that was there already advances the lifecycle again.
WriteCaptureAgain(c) ==
    /\ collector[c].step = "begun" /\ writer = Nobody
    /\ captures' = IF \E r \in captures : r.at = collector[c].at
                   THEN captures ELSE captures \cup {SnapshotRow(c)}
    /\ observed' = observed \cup {collector[c].at}
    /\ writer' = c
    /\ Gathers(c, [collector[c] EXCEPT !.step = "written"])
    /\ UNCHANGED <<hour, builds, latestScan, milestones>>

\* The schema script, then the capture; one of the same captured_at stands,
\* and neither observations nor milestones follow.
WriteCapture(c) ==
    /\ collector[c].step = "begun" /\ writer = Nobody
    /\ IF \E r \in captures : r.at = collector[c].at
       THEN /\ Gathers(c, Away)
            /\ UNCHANGED <<captures, observed, writer>>
       ELSE /\ Gathers(c, [collector[c] EXCEPT !.step = "written"])
            /\ captures' = captures \cup {SnapshotRow(c)}
            /\ observed' = observed \cup {collector[c].at}
            /\ writer' = c
    /\ UNCHANGED <<hour, builds, latestScan, milestones>>

\* Mutant: a milestone may rest on a capture of the time it follows.
InsertedAfterOrWith(k, rows) ==
    {r \in rows : k > 0 => r.inserted >= milestones[k].recorded}

\* The captures that began after the k-th milestone.
InsertedAfter(k, rows) ==
    {r \in rows : k > 0 => r.inserted > milestones[k].recorded}

\* ORDER BY inserted_at DESC, captured_at DESC LIMIT n
NewestCaptures(n, rows) ==
    LET Later(r, s) == r.inserted > s.inserted \/ (r.inserted = s.inserted /\ r.at > s.at)
    IN  {r \in rows : Cardinality({s \in rows : Later(s, r)}) < n}

\* What the milestone after the k-th rests on: TRIAL_REGISTERED on nothing,
\* PIT_AUDIT and LINEAGE on a capture, DATA_QUALITY_GATE on several in a row.
Needed(k) == CASE k = 0 -> 0 [] k = 2 -> MinConsecutive [] OTHER -> 1
EvidenceAfter(k, rows) == NewestCaptures(Needed(k), InsertedAfter(k, rows))

\* The gate and the lineage want an order book for every candidate.
Earned(k, rows) ==
    /\ k < 4
    /\ Cardinality(EvidenceAfter(k, rows)) = Needed(k)
    /\ k >= 2 => \A r \in EvidenceAfter(k, rows) : r.full

\* record_lifecycle_on_capture_persistence: the next milestone and no other.
Advance(c, rows, done) ==
    IF Earned(Len(done), rows)
    THEN Append(done, [recorded |-> collector[c].start, by |-> collector[c].at,
                       evidence |-> {r.at : r \in EvidenceAfter(Len(done), rows)}])
    ELSE done

CommitCapture(c) ==
    /\ collector[c].step = "written"
    /\ milestones' = Advance(c, captures, milestones)
    /\ writer' = Nobody
    /\ Gathers(c, Away)
    /\ UNCHANGED <<hour, builds, latestScan, captures, observed>>

\* The ledger raises, or the API stops: the transaction takes the capture back.
RollBackCapture(c) ==
    /\ collector[c].step = "written"
    /\ captures' = {r \in captures : r.at # collector[c].at}
    /\ observed' = observed \ {collector[c].at}
    /\ writer' = Nobody
    /\ Gathers(c, Away)
    /\ UNCHANGED <<hour, builds, latestScan, milestones>>

\* A request fails, or the workflow is cancelled.
GiveUpCapture(c) ==
    /\ collector[c].step \notin {"away", "written"}
    /\ Gathers(c, Away)
    /\ UNCHANGED <<hour, builds, latestScan, captures, observed, milestones, writer>>

-----------------------------------------------------------------------------
(* Around it *)

HourPasses ==
    /\ hour < LastHour
    /\ hour' = hour + 1
    /\ UNCHANGED <<builds, latestScan, collector, captures, observed, milestones, writer>>

\* persist_results of the worker, at most once a tick of the clock.
PublishScan ==
    /\ latestScan.at < hour
    /\ latestScan' = [at |-> hour, build |-> builds.worker]
    /\ UNCHANGED <<hour, builds, collector, captures, observed, milestones, writer>>

Deploy(service) ==
    /\ builds[service] < LastBuild
    /\ builds' = [builds EXCEPT ![service] = @ + 1]
    /\ UNCHANGED <<hour, latestScan, collector, captures, observed, milestones, writer>>

CaptureStart ==
    /\ hour = 1
    /\ builds = [api |-> 1, worker |-> 1]
    /\ latestScan = [at |-> 1, build |-> 1]
    /\ collector = [c \in Collectors |-> Away]
    /\ captures = {} /\ observed = {}
    /\ milestones = <<>>
    /\ writer = Nobody

CaptureStep ==
    \/ \E c \in Collectors :
        \/ ObserveWorker(c) \/ ReadVersion(c) \/ VerifyLineage(c) \/ BeginPost(c)
        \/ \E full \in BOOLEAN : CollectSnapshot(c, full)
        \/ WriteCapture(c) \/ CommitCapture(c) \/ RollBackCapture(c) \/ GiveUpCapture(c)
    \/ HourPasses \/ PublishScan
    \/ \E service \in {"api", "worker"} : Deploy(service)

CaptureSpec == CaptureStart /\ [][CaptureStep]_captureVars

-----------------------------------------------------------------------------
(* Properties *)

Committed == {r \in captures : writer # Nobody => r.at # collector[writer].at}

\* A capture and its observations are there together or not at all, and every
\* milestone was recorded by a capture of its own that is still there.
CaptureIsWhole ==
    /\ observed = {r.at : r \in captures}
    /\ \A k \in DOMAIN milestones : \E r \in Committed : r.at = milestones[k].by
    /\ \A j, k \in DOMAIN milestones : milestones[j].by = milestones[k].by => j = k

\* What the point-in-time audit rests on is not counted again by the
\* data-quality gate, and the gate has as many complete captures as it asks
\* for: however the transactions that count them overlap.
MilestonesAreEarned ==
    Len(milestones) >= 3 =>
        /\ milestones[2].evidence \cap milestones[3].evidence = {}
        /\ Cardinality(milestones[3].evidence) = MinConsecutive
        /\ \A at \in milestones[3].evidence : \E r \in Committed : r.at = at /\ r.full

\* The worker build that a guarded capture names made its scan, although the
\* worker was deployed and the scan replaced while it was collected.
LineageIsTrue == \A r \in captures : r.worker # 0 => r.worker = r.origin

\* The captures of the swing trial are whole, and what is derived from them is
\* what they show.
CapturesAreSound == CaptureIsWhole /\ MilestonesAreEarned /\ LineageIsTrue
=============================================================================
