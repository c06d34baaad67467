------------------------------- MODULE Sweep -------------------------------
(***************************************************************************)
(* The liquidity-sweep detector of sweep_research.py, its accelerated copy *)
(* in diagnostics_v073_perf.py, and their callers: a caller asks for the   *)
(* latest bar after every closed bar, as the replay of backtest.py does,   *)
(* while the diagnostics scan a whole history at once.                     *)
(*                                                                         *)
(* A short sweep is a long one upside down, and is seen through View.      *)
(* Prices are a few integers; the depth of a sweep is measured in them and *)
(* not in ATR, and a bar knows whether its volume is a surge.              *)
(***************************************************************************)
EXTENDS Integers, Sequences, FiniteSets, FiniteSetsExt, SequencesExt

CONSTANTS
    Shapes,       \* bars of the market: low, high, close and surge
    LiquidityLookback,   \* liquidity_lookback
    StructureLookback,   \* structure_lookback_5m
    MinDepth, MaxDepth,  \* min_sweep_depth_atr, max_sweep_depth_atr
    Reclaim,      \* reclaim_window_bars
    MaxConfirm,   \* max_confirmation_bars
    GroupBars,    \* five-minute bars in a fifteen-minute bar
    Lookback15,   \* structure_lookback_15m
    SliceBars,    \* bars a caller hands to latest_bar_sweep_setup
    LastSlot,     \* bound on the five-minute slots that pass
    MaxGaps       \* bound on the slots without a bar

ASSUME SweepAssumption ==
    /\ {LiquidityLookback, StructureLookback, MaxConfirm, GroupBars, Lookback15} \subseteq Nat \ {0}
    /\ {MinDepth, MaxDepth, Reclaim, LastSlot, MaxGaps} \subseteq Nat
    /\ SliceBars \in Nat \ {0}
    /\ \A b \in Shapes : {b.low, b.high, b.close} \subseteq Int /\ b.surge \in BOOLEAN

VARIABLES
    closedBars,  \* the closed bars, with the slot of each
    found        \* what latest_bar_sweep_setup returned so far, by side

sweepVars == <<closedBars, found>>

Sides == {"long", "short"}

-----------------------------------------------------------------------------
(* One possible sweep: _evaluate_sweep_normalized *)

View(side, bs) ==
    IF side = "long" THEN bs
    ELSE [i \in DOMAIN bs |-> [bs[i] EXCEPT !.low = -bs[i].high, !.high = -bs[i].low,
                                            !.close = -bs[i].close]]

Required == Max({LiquidityLookback, StructureLookback})

Level(v, i) == Min({v[k].low : k \in i - LiquidityLookback .. i - 1})
ShiftLevel(v, i) == Max({v[k].high : k \in i - StructureLookback .. i - 1})

Swept(v, i) ==
    /\ i > Required
    /\ v[i].low < Level(v, i)
    /\ Level(v, i) - v[i].low \in MinDepth..MaxDepth

FirstOf(S) == IF S = {} THEN 0 ELSE Min(S)
UpTo(v, last) == Min({Len(v), last})

\* The bar that closes back above the swept level, 0 for None.
ReclaimAt(v, i) ==
    FirstOf({j \in i .. UpTo(v, i + Reclaim) : v[j].close > Level(v, i)})

\* The bar that closes above the structure before the sweep, after that.
ConfirmAt(v, i) ==
    IF ReclaimAt(v, i) = 0 THEN 0
    ELSE FirstOf({j \in ReclaimAt(v, i) .. UpTo(v, i + MaxConfirm) :
                      v[j].close > ShiftLevel(v, i)})

-----------------------------------------------------------------------------
(* Fifteen-minute bars *)

\* The n-th number of a set, from the least one.
Nth(S, n) == CHOOSE x \in S : Cardinality({y \in S : y <= x}) = n

\* aggregate_5m_to_15m: only groups without a gap become a bar.
Group(g) == g * GroupBars .. (g + 1) * GroupBars - 1
In(v, g) == {j \in DOMAIN v : v[j].at \in Group(g)}
Whole(v, g) == \A slot \in Group(g) : \E j \in DOMAIN v : v[j].at = slot
Bar15(v, g) ==
    [at |-> g, low |-> Min({v[j].low : j \in In(v, g)}), close |-> v[Max(In(v, g))].close]
Fifteen(v) ==
    LET whole == {g \in 0..LastSlot : Whole(v, g)}
    IN  [n \in 1..Cardinality(whole) |-> Bar15(v, Nth(whole, n))]

\* A fifteen-minute bar is closed when its last slot is.
Closes(bar15, at) == (bar15.at + 1) * GroupBars <= at + 1

\* The last fifteen-minute bar of the list does not close below the range of
\* the ones before it; too few of them confirm nothing.
Confirms(closed) ==
    /\ Len(closed) > Lookback15
    /\ Last(closed).close >= Min({closed[k].low : k \in Len(closed) - Lookback15 .. Len(closed) - 1})

\* Mutant: all fifteen-minute bars, also those that close later.
Structure15Ahead(v, at) == Confirms(Fifteen(v))

\* classify_15m_structure and _15m_confirms at the close of the bar at a slot.
Structure15(v, at) ==
    LET v15 == Fifteen(v)
        closed == {n \in DOMAIN v15 : Closes(v15[n], at)}
    IN  Confirms([n \in 1..Cardinality(closed) |-> v15[Nth(closed, n)]])

\* Mutant: the search drops the middle when it goes down.
BisectStrict(v15, at) ==
    LET search[r \in (0..Len(v15)) \X (0..Len(v15))] ==
            IF r[1] >= r[2] THEN r[1]
            ELSE LET mid == (r[1] + r[2]) \div 2
                 IN  IF Closes(v15[mid + 1], at) THEN search[<<mid, r[2] - 1>>]
                     ELSE search[<<r[1], mid>>]
    IN  search[<<0, Len(v15)>>]

\* fast_classify_15m_structure: the number of closed ones by bisection, where
\* r holds the bounds lo and hi of the search.
Bisect(v15, at) ==
    LET search[r \in (0..Len(v15)) \X (0..Len(v15))] ==
            IF r[1] >= r[2] THEN r[1]
            ELSE LET mid == (r[1] + r[2]) \div 2
                 IN  IF Closes(v15[mid + 1], at) THEN search[<<mid + 1, r[2]>>]
                     ELSE search[<<r[1], mid>>]
    IN  search[<<0, Len(v15)>>]

FastStructure15(v, at) == Confirms(SubSeq(Fifteen(v), 1, Bisect(Fifteen(v), at)))

-----------------------------------------------------------------------------
(* Events *)

At(v, j) == IF j = 0 THEN -1 ELSE v[j].at

\* The event of a sweep at bar i, with the slots of its bars.
EventWith(v, i, confirmed15) ==
    [sweep |-> v[i].at, reclaim |-> At(v, ReclaimAt(v, i)), confirm |-> At(v, ConfirmAt(v, i)),
     ready |-> ConfirmAt(v, i) # 0 /\ v[ConfirmAt(v, i)].surge /\ confirmed15]

Event(v, i) ==
    EventWith(v, i, ConfirmAt(v, i) # 0 /\ Structure15(v, At(v, ConfirmAt(v, i))))

FastEvent(v, i) ==
    EventWith(v, i, ConfirmAt(v, i) # 0 /\ FastStructure15(v, At(v, ConfirmAt(v, i))))

\* scan_sweep_setups: every sweep of a history, complete or not.
ScanSetups(bs, side) ==
    LET v == View(side, bs) IN {Event(v, i) : i \in {k \in DOMAIN v : Swept(v, k)}}

\* fast_scan_sweep_setups.
FastScanSetups(bs, side) ==
    LET v == View(side, bs) IN {FastEvent(v, i) : i \in {k \in DOMAIN v : Swept(v, k)}}

Slice(bs) == SubSeq(bs, Max({1, Len(bs) - SliceBars + 1}), Len(bs))

\* A slice holds what a search reads, however its bars and gaps lie: the bars
\* before a sweep, those up to its confirmation, and enough whole fifteen-minute
\* bars.  (The callers hand over 220 bars for 12, 6 and 4 of them, which leaves
\* room for a hundred gaps.)
ASSUME SliceAssumption ==
    /\ SliceBars > Required + MaxConfirm
    /\ SliceBars + MaxGaps + 1 >= GroupBars * (Lookback15 + 2 + MaxGaps)

\* Where latest_bar_sweep_setup begins its search.
FirstSweep(v) == Max({Required + 1, Len(v) - MaxConfirm})

\* latest_bar_sweep_setup: the first sweep whose confirmation is the last bar,
\* as a set with at most one event.
Latest(bs, side) ==
    LET v == View(side, bs)
        hits == {i \in FirstSweep(v) .. Len(v) :
                     Swept(v, i) /\ Event(v, i).ready /\ ConfirmAt(v, i) = Len(v)}
    IN  IF hits = {} THEN {} ELSE {Event(v, Min(hits))}

-----------------------------------------------------------------------------

SweepInit ==
    /\ closedBars = <<>>
    /\ found = [side \in Sides |-> {}]

NextSlot == IF closedBars = <<>> THEN 0 ELSE Last(closedBars).at + 1
Gaps == NextSlot - Len(closedBars)

\* A bar closes, perhaps after a gap, and the caller looks at the slice that
\* ends with it.
BarCloses ==
    \E shape \in Shapes, gap \in 0..1 :
        /\ Gaps + gap <= MaxGaps
        /\ NextSlot + gap < LastSlot
        /\ closedBars' = Append(closedBars, [at |-> NextSlot + gap, low |-> shape.low, high |-> shape.high,
                                 close |-> shape.close, surge |-> shape.surge])
        /\ found' = [side \in Sides |-> found[side] \cup Latest(Slice(closedBars'), side)]

\* The caller looks again before another bar closes.
LookAgain ==
    /\ closedBars # <<>>
    /\ found' = [side \in Sides |-> found[side] \cup Latest(Slice(closedBars), side)]
    /\ UNCHANGED closedBars

SweepNext == BarCloses \/ LookAgain

SweepSpec == SweepInit /\ [][SweepNext]_sweepVars

-----------------------------------------------------------------------------

\* What was returned bar by bar, from slices, is what one scan of the whole
\* history finds: the same confirmations, each with the earliest sweep that
\* leads to it.  "live and historical replay can call this on every closed 5m
\* bar without rescanning the full history" (latest_bar_sweep_setup).
LiveIsScan ==
    \A side \in Sides :
        LET ready == {e \in ScanSetups(closedBars, side) : e.ready}
        IN  found[side] = {e \in ready : \A f \in ready : f.confirm = e.confirm => e.sweep <= f.sweep}

\* The accelerated scanner of the diagnostics finds what the reference finds
\* ("Reference-equivalent 15m classifier", fast_classify_15m_structure).
FastIsReference == \A side \in Sides : FastScanSetups(closedBars, side) = ScanSetups(closedBars, side)

\* Three programs read the same bars: the live worker, the replay and the
\* diagnostics have one detector, although it is written more than once.
OneDetector == LiveIsScan /\ FastIsReference

\* No repainting: a confirmed event, ready or not, stays as it is when more
\* bars close ("without using future bars before they close",
\* _evaluate_sweep_normalized).
ConfirmedIsFinal ==
    [][\A side \in Sides : \A e \in ScanSetups(closedBars, side) :
           e.confirm >= 0 => e \in ScanSetups(closedBars', side)]_sweepVars

=============================================================================
