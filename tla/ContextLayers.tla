---------------------------- MODULE ContextLayers ----------------------------
(* The shadow context layers: a capture reads what its layer builds on,      *)
(* stamps the snapshot with a clock, appends it to the immutable history and *)
(* replaces the row of the hour or the day in the table of the layer. The    *)
(* order of these steps differs from layer to layer; the scripts below are   *)
(* the order in the code. A call may fail, or lose its process, anywhere.    *)
EXTENDS Integers, Sequences, FiniteSets

CONSTANTS
    Jobs,          \* capture calls in flight
    Deployments,   \* the sets of endpoints, named by layer or freeze version, in use
    LastTick,      \* bound: the clock stops here
    MaxCaptures,   \* bound: captures begun
    HourTicks, DayTicks,    \* length of an hour and a day
    LiquidationMaxAge,      \* age of a liquidation row that derivatives still use
    CrossMaxAge             \* age of a cross-layer row that a signal calls fresh

Absent == -1

ASSUME ContextAssumption ==
    /\ {LastTick, MaxCaptures, LiquidationMaxAge, CrossMaxAge} \subseteq Nat
    /\ {HourTicks, DayTicks} \subseteq Nat \ {0}

VARIABLES
    tick,       \* the clock
    deployed,   \* the endpoints in use
    table,      \* the rows in the tables of the layers
    history,    \* research_snapshot_history
    job,        \* the capture of each call
    begun       \* captures begun so far

layerVars == <<tick, deployed, table, history, job, begun>>

------------------------------------------------------------------------------
(* The layers: the steps of a capture. A step with the name of a layer reads *)
(* the latest row of that layer; clock is captured_at; provider the requests.*)

\* Mutant: the table is replaced before the history is appended.
PersistUpsertFirst == <<"upsert", "append">>

Persist == <<"append", "upsert">>

MarketRegime == <<"clock", "provider">> \o Persist
RelativeStrength == <<"clock", "provider">> \o Persist
SectorRotation == <<"clock", "provider">> \o Persist
BtcOnchain == <<"clock", "provider">> \o Persist
EthOnchain == <<"clock", "provider">> \o Persist
GeopoliticalRisk == <<"clock", "provider">> \o Persist
GeopoliticalEvent == <<"clock", "provider">> \o Persist
BtcMacro == <<"provider", "clock">> \o Persist
Liquidation == <<"market_regime", "clock", "provider">> \o Persist
Derivatives == <<"market_regime", "liquidation_context", "clock">> \o Persist
\* One transaction holds both writes of this layer.
EventTokenomics == <<"clock", "market_regime", "provider", "store">>

\* A read of a layer without a table finds nothing (UndefinedTableError).
Reads(layer) == IF layer \in deployed THEN <<layer>> ELSE <<>>

SourcesV1 ==
    Reads("market_regime") \o Reads("derivatives_positioning") \o Reads("relative_strength")
        \o Reads("event_tokenomics") \o Reads("btc_macro_cycle_etf")
SourcesV2 ==
    Reads("market_regime") \o Reads("derivatives_positioning") \o Reads("relative_strength")
        \o Reads("sector_rotation") \o Reads("event_tokenomics") \o Reads("btc_macro_cycle_etf")
        \o Reads("btc_onchain") \o Reads("eth_onchain")

CrossV1 == <<"clock">> \o SourcesV1 \o Persist
CrossV2 == <<"clock">> \o SourcesV2 \o Persist

Script ==
    [market_regime |-> MarketRegime, relative_strength |-> RelativeStrength,
     sector_rotation |-> SectorRotation, btc_onchain |-> BtcOnchain, eth_onchain |-> EthOnchain,
     geopolitical_risk |-> GeopoliticalRisk, geopolitical_event |-> GeopoliticalEvent,
     btc_macro_cycle_etf |-> BtcMacro, liquidation_context |-> Liquidation,
     derivatives_positioning |-> Derivatives, event_tokenomics |-> EventTokenomics,
     cross_v1 |-> CrossV1, cross_v2 |-> CrossV2]

Layers == DOMAIN Script
Cross == {"cross_v1", "cross_v2"}
Daily == {"relative_strength", "sector_rotation"}

\* The primary key of the table: the hour, the day or the source file, of
\* which there is one for every tick.
Bucket(row) ==
    CASE row.layer \in Daily -> row.captured \div DayTicks
      [] row.layer = "geopolitical_event" -> row.seen
      [] OTHER -> row.captured \div HourTicks

------------------------------------------------------------------------------
(* Reading.                                                                  *)

TableOf(layer) == {r \in table : r.layer = layer}
Newest(rows) == CHOOSE r \in rows : \A s \in rows : s.captured <= r.captured

\* Mutant: the query of the layer forgets captured_at <= $2.
ReadableAnyTime(call, layer) == TableOf(layer)

\* The rows a step of a capture may read: a cross-layer capture nothing
\* newer than its own clock, derivatives no liquidation row that is old.
Readable(call, layer) ==
    {r \in TableOf(layer) :
        /\ call.layer \in Cross => r.captured <= call.captured
        /\ (call.layer = "derivatives_positioning" /\ layer = "liquidation_context")
              => tick - LiquidationMaxAge <= r.captured /\ r.captured <= tick}

\* Liquidation and derivatives take their symbols from the market regime.
Required(call, layer) ==
    layer = "market_regime" /\ call.layer \in {"liquidation_context", "derivatives_positioning"}

------------------------------------------------------------------------------
(* A capture.                                                                *)

NoJob == [layer |-> "none", todo |-> <<>>, captured |-> Absent, seen |-> Absent, parts |-> {}]

Calling(j, step) == job[j].todo # <<>> /\ Head(job[j].todo) = step

\* What the call does next, with its record changed.
Goes(j, call) == job' = [job EXCEPT ![j] = [call EXCEPT !.todo = Tail(@)]]

BeginCapture(j, layer) ==
    /\ job[j] = NoJob /\ begun < MaxCaptures /\ layer \in deployed
    /\ begun' = begun + 1
    /\ job' = [job EXCEPT ![j] = [NoJob EXCEPT !.layer = layer, !.todo = Script[layer]]]
    /\ UNCHANGED <<tick, deployed, table, history>>

ReadClock(j) ==
    /\ Calling(j, "clock")
    /\ Goes(j, [job[j] EXCEPT !.captured = tick])
    /\ UNCHANGED <<tick, deployed, table, history, begun>>

AskProviders(j) ==
    /\ Calling(j, "provider")
    /\ Goes(j, [job[j] EXCEPT !.seen = tick])
    /\ UNCHANGED <<tick, deployed, table, history, begun>>

ReadLayer(j, layer) ==
    /\ Calling(j, layer)
    /\ LET rows == Readable(job[j], layer)
       IN IF rows # {}
          THEN Goes(j, [job[j] EXCEPT
                   !.parts = @ \cup {[layer |-> layer, captured |-> Newest(rows).captured]}])
          ELSE IF Required(job[j], layer)
               THEN job' = [job EXCEPT ![j] = NoJob]
               ELSE Goes(j, job[j])
    /\ UNCHANGED <<tick, deployed, table, history, begun>>

\* The payload of a row: the captures it was built from, and when the
\* providers were asked.
RowOf(call) == [layer |-> call.layer, captured |-> call.captured, seen |-> call.seen,
                parts |-> call.parts, inserted |-> tick]

SameCapture(row) == {h \in history : h.layer = row.layer /\ h.captured = row.captured}
SamePayload(a, b) == [a EXCEPT !.inserted = 0] = [b EXCEPT !.inserted = 0]

\* INSERT ON CONFLICT DO NOTHING, and what it finds when it reads back.
Appended(row) == IF SameCapture(row) = {} THEN history \cup {row} ELSE history
Accepted(row) == \A h \in SameCapture(row) : SamePayload(h, row)

\* INSERT ON CONFLICT DO UPDATE of the table of the layer.
Replaced(row) == {r \in table : r.layer # row.layer \/ Bucket(r) # Bucket(row)} \cup {row}

AppendHistory(j) ==
    LET row == RowOf(job[j])
    IN /\ Calling(j, "append")
       /\ history' = Appended(row)
       /\ IF Accepted(row) THEN Goes(j, job[j]) ELSE job' = [job EXCEPT ![j] = NoJob]
       /\ UNCHANGED <<tick, deployed, table, begun>>

Upsert(j) ==
    /\ Calling(j, "upsert")
    /\ table' = Replaced(RowOf(job[j]))
    /\ job' = [job EXCEPT ![j] = NoJob]
    /\ UNCHANGED <<tick, deployed, history, begun>>

\* The event layer: both writes commit, or neither.
Store(j) ==
    LET row == RowOf(job[j])
    IN /\ Calling(j, "store")
       /\ history' = IF Accepted(row) THEN Appended(row) ELSE history
       /\ table' = IF Accepted(row) THEN Replaced(row) ELSE table
       /\ job' = [job EXCEPT ![j] = NoJob]
       /\ UNCHANGED <<tick, deployed, begun>>

\* A provider, the connection or the process fails.
FailCapture(j) ==
    /\ job[j] # NoJob
    /\ job' = [job EXCEPT ![j] = NoJob]
    /\ UNCHANGED <<tick, deployed, table, history, begun>>

Tick ==
    /\ tick < LastTick
    /\ tick' = tick + 1
    /\ UNCHANGED <<deployed, table, history, job, begun>>

LayersInit ==
    /\ deployed \in Deployments
    /\ tick = 0 /\ begun = 0
    /\ table = {} /\ history = {}
    /\ job = [j \in Jobs |-> NoJob]

CaptureNext ==
    \E j \in Jobs :
        \/ \E l \in Layers : BeginCapture(j, l) \/ ReadLayer(j, l)
        \/ ReadClock(j) \/ AskProviders(j) \/ AppendHistory(j) \/ Upsert(j) \/ Store(j) \/ FailCapture(j)

------------------------------------------------------------------------------
(* Properties.                                                               *)

\* Nothing a reader of a table could have seen is ever lost: every row of
\* every table is in the immutable history, with the payload it has in the
\* table, although the table keeps one row an hour and calls overlap, fail
\* and die between their statements (append_snapshot_history is called
\* before the row is replaced, and refuses another payload).
NoCaptureIsLost ==
    \A r \in table : \E h \in history : SamePayload(h, r)
=============================================================================
