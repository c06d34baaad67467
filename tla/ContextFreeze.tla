---------------------------- MODULE ContextFreeze ----------------------------
(* The context of a signal, frozen: a call takes the journal's signals that  *)
(* have no freeze row yet, looks up for each the cross-layer capture of its  *)
(* opening, and inserts a row nothing may change. Version 1 and 2 look in    *)
(* the table the captures replace, version 3 in the immutable history.       *)
EXTENDS ContextLayers, FiniteSetsExt

CONSTANTS
    Freezers,    \* freeze calls in flight
    BatchLimit,  \* signals a call takes, MAX_CAPTURE_BATCH
    MaxSignals   \* bound: signals in the journal

VARIABLES
    opened,    \* opening times of the signals in the journal
    frozen,    \* per version, the freeze rows
    freezer    \* the state of each call

freezeVars == <<opened, frozen, freezer>>
contextVars == <<layerVars, freezeVars>>

Versions == {"v1", "v2", "v3"}
NoFreeze == [version |-> "none", pc |-> "idle", at |-> Absent, start |-> Absent,
             todo |-> {}, cross |-> <<>>]

\* The snapshots a version looks in: version 1 is on cross-layer version 1.
CrossOf(version) == IF version = "v1" THEN "cross_v1" ELSE "cross_v2"
\* Mutant: version 3 looks in the table, as version 2 does.
StoredInTable(version) == TableOf(CrossOf(version))

Stored(version) ==
    IF version = "v3" THEN {h \in history : h.layer = "cross_v2"} ELSE TableOf(CrossOf(version))

\* _prospective_start_at: none before the first capture; version 1 has none.
StartAt(version) ==
    LET times == {r.captured : r \in Stored(version)}
    IN  IF version = "v1" THEN 0 ELSE IF times = {} THEN Absent ELSE Min(times)

\* _load_cross_layer: the newest capture that is not after the signal.
Lookup(version, time) == {r \in Stored(version) : r.captured <= time}

\* A signal is opened at the close of its bar, and in the journal soon after.
\* Where no freeze is in use, signals are left out.
OpenSignal(t) ==
    /\ Versions \cap deployed # {} /\ Cardinality(opened) < MaxSignals
    /\ t \in {tick - 1, tick} \cap Nat
    /\ t \notin opened
    /\ opened' = opened \cup {t}
    /\ UNCHANGED <<layerVars, frozen, freezer>>

BeginFreeze(f, version) ==
    /\ freezer[f] = NoFreeze /\ version \in deployed
    /\ freezer' = [freezer EXCEPT ![f] =
           [NoFreeze EXCEPT !.version = version, !.pc = "start", !.at = tick]]
    /\ UNCHANGED <<layerVars, opened, frozen>>

ReadStart(f) ==
    LET call == freezer[f]
    IN /\ call.pc = "start"
       /\ freezer' = [freezer EXCEPT ![f].start = StartAt(call.version), ![f].pc = "select"]
       /\ UNCHANGED <<layerVars, opened, frozen>>

\* The oldest signals of the cohort without a row of this version.
Unfrozen(call) ==
    {t \in opened : /\ call.start # Absent /\ call.start <= t /\ t <= call.at
                    /\ \A row \in frozen[call.version] : row.opened # t}
Batch(call) == {t \in Unfrozen(call) : Cardinality({u \in Unfrozen(call) : u < t}) < BatchLimit}

Select(f) ==
    LET call == freezer[f]
        batch == Batch(call)
    IN /\ call.pc = "select"
       /\ freezer' = [freezer EXCEPT ![f] =
              IF batch = {} THEN NoFreeze ELSE [call EXCEPT !.pc = "load", !.todo = batch]]
       /\ UNCHANGED <<layerVars, opened, frozen>>

Load(f) ==
    LET call == freezer[f]
        rows == Lookup(call.version, Min(call.todo))
    IN /\ call.pc = "load"
       /\ freezer' = [freezer EXCEPT ![f].pc = "insert",
                          ![f].cross = IF rows = {} THEN <<>> ELSE <<Newest(rows)>>]
       /\ UNCHANGED <<layerVars, opened, frozen>>

\* cross_layer_context: the status of the capture for this signal.
CrossStatus(cross, time) ==
    CASE cross = <<>> -> "MISSING"
      [] cross # <<>> /\ cross[1].captured > time -> "FUTURE_REJECTED"
      [] cross # <<>> /\ cross[1].captured <= time ->
             IF time - cross[1].captured <= CrossMaxAge THEN "FRESH" ELSE "STALE"

FreezeRow(call, time) ==
    [opened |-> time, at |-> call.at, cross |-> call.cross,
     status |-> CrossStatus(call.cross, time)]

\* INSERT ON CONFLICT DO NOTHING; then the next signal of the batch.
InsertFreeze(f) ==
    LET call == freezer[f]
        time == Min(call.todo)
        rest == call.todo \ {time}
    IN /\ call.pc = "insert"
       /\ frozen' = [frozen EXCEPT ![call.version] =
              IF \E row \in @ : row.opened = time THEN @ ELSE @ \cup {FreezeRow(call, time)}]
       /\ freezer' = [freezer EXCEPT ![f] =
              IF rest = {} THEN NoFreeze ELSE [call EXCEPT !.pc = "load", !.todo = rest, !.cross = <<>>]]
       /\ UNCHANGED <<layerVars, opened>>

\* The connection or the process fails; the rows inserted so far stay.
FailFreeze(f) ==
    /\ freezer[f] # NoFreeze
    /\ freezer' = [freezer EXCEPT ![f] = NoFreeze]
    /\ UNCHANGED <<layerVars, opened, frozen>>

FreezeInit ==
    /\ opened = {} /\ frozen = [v \in Versions |-> {}]
    /\ freezer = [f \in Freezers |-> NoFreeze]

FreezeNext ==
    \/ \E t \in 0 .. LastTick : OpenSignal(t)
    \/ \E f \in Freezers :
          \/ \E v \in Versions : BeginFreeze(f, v)
          \/ ReadStart(f) \/ Select(f) \/ Load(f) \/ InsertFreeze(f) \/ FailFreeze(f)

ContextInit == LayersInit /\ FreezeInit
ContextNext ==
    \/ (CaptureNext \/ Tick) /\ UNCHANGED freezeVars
    \/ FreezeNext
ContextSpec == ContextInit /\ [][ContextNext]_contextVars

------------------------------------------------------------------------------
(* Properties.                                                               *)

\* No look-ahead: a cross-layer snapshot holds no layer captured after its
\* own clock, although its reads are statements of their own and the layers
\* are captured meanwhile; and a frozen context holds no snapshot captured
\* after its signal, whenever the freeze ran (Signal-Time Context Freeze:
\* future cross-layer captures are excluded).
ContextIsTimely ==
    /\ \A h \in history : h.layer \in Cross => \A p \in h.parts : p.captured <= h.captured
    /\ \A v \in Versions : \A row \in frozen[v] :
          row.cross # <<>> => row.cross[1].captured <= row.opened

\* What a signal is frozen from is kept for ever and was known at its time.
ContextIsSound == NoCaptureIsLost /\ ContextIsTimely

\* The version 3 cohort: a row is never without a capture, its signal opened
\* no earlier than the first capture of the history as it is now, and no
\* capture the history held before the freeze began fits the signal better
\* or would make a stale row fresh (signal_context_freeze_v3.py: the latest
\* immutable capture with captured_at <= opened_at, no pre-v3 signal).
CohortIsComplete ==
    \A row \in frozen["v3"] :
        /\ row.cross # <<>> /\ StartAt("v3") <= row.opened
        /\ \A h \in history :
              (h.layer = "cross_v2" /\ h.captured <= row.opened /\ h.inserted < row.at) =>
                 /\ h.captured <= row.cross[1].captured
                 /\ row.opened - h.captured <= CrossMaxAge => row.status = "FRESH"
=============================================================================
