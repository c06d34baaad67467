---------------------------- MODULE DayDecision ----------------------------
(***************************************************************************)
(* What a day-trade candidate is told to do, bar after bar:                *)
(* build_day_candidate of day_worker.py, with the triggers of the versions *)
(* of the strategy it still knows.                                         *)
(*                                                                         *)
(* Five-minute bars close one after the other; at every look the scores,   *)
(* the execution flags and the structure around the price are new, as an   *)
(* analysis would find them.  A short candidate is seen upside down: bars  *)
(* have their close and the extreme on the side of the trade.  Prices are  *)
(* a few integers, one of them an ATR.                                     *)
(***************************************************************************)
EXTENDS DayGates, Sequences

CONSTANTS
    DayShapes,      \* bars: close, and the extreme it does not exceed
    DaySnapshots,   \* analyses of a symbol, see SnapshotFields
    DayLookback,    \* twelve bars of range before a breakout
    DayWindow,      \* closed bars that fetch_fast returns
    ActiveBars,     \* DAY_BREAKOUT_ACTIVE_BARS
    MaxExtension,   \* DAY_MAX_PROVISIONAL_EXTENSION_ATR
    DayLastBar      \* bound on the bars that close

Versions == {"0.7.3", "0.7.4", "0.7.5", "0.7.6", "0.7.7"}

ASSUME DayAssumption ==
    /\ DayShapes \subseteq {b \in [close : Int, extreme : Int] : b.close <= b.extreme}
    /\ DaySnapshots \subseteq SnapshotFields
    /\ DayLookback \in Nat \ {0}
    /\ ActiveBars \in 1 .. 2   \* with more, a crossing of 0.7.5 may have been lost and regained
    /\ DayWindow \in Nat \ {0}
    /\ {MaxExtension, DayLastBar} \subseteq Nat

VARIABLES
    dayBars,   \* the closed bars, seen from the side of the candidate
    daySide,   \* its side
    snap       \* the analysis of the latest look

dayVars == <<dayBars, daySide, snap>>

-----------------------------------------------------------------------------
(* Triggers *)

\* The range before bar i.
Boundary(b, i) == Max({b[k].extreme : k \in i - DayLookback .. i - 1})

CrossesAt(b, i) ==
    i > DayLookback /\ b[i].close > Boundary(b, i) /\ b[i - 1].close <= Boundary(b, i)

\* Mutant: a later crossing takes over the origin, and its boundary.
ContextRatcheted(b) ==
    LET origin[i \in 0..Len(b)] ==
            IF i = 0 THEN 0
            ELSE IF CrossesAt(b, i) THEN i
            ELSE IF origin[i - 1] # 0 /\ b[i].close > Boundary(b, origin[i - 1])
                 THEN origin[i - 1] ELSE 0
    IN  origin[Len(b)]

\* Mutant: the bar that loses a boundary is not looked at as a crossing, and
\* neither is any later one.
ContextOnce(b) ==
    LET first == {i \in DayLookback + 1 .. Len(b) : CrossesAt(b, i)}
    IN  IF first # {} /\ \A i \in Min(first) .. Len(b) : b[i].close > Boundary(b, Min(first))
        THEN Min(first) ELSE 0

\* active_structural_breakout_context: the first crossing of an unbroken
\* sequence that holds its boundary, 0 for None.
Context(b) ==
    LET origin[i \in 0..Len(b)] ==
            IF i = 0 THEN 0
            ELSE IF origin[i - 1] # 0 /\ b[i].close > Boundary(b, origin[i - 1])
                 THEN origin[i - 1]
                 ELSE IF CrossesAt(b, i) THEN i ELSE 0
    IN  origin[Len(b)]

\* recent_closed_5m_range_breakout: the newest crossing of the last bars, if
\* it still holds.
Recent(b) ==
    LET crossings == {i \in Len(b) - ActiveBars + 1 .. Len(b) : CrossesAt(b, i)}
    IN  IF crossings # {} /\ b[Len(b)].close > Boundary(b, Max(crossings))
        THEN Max(crossings) ELSE 0

Swept5(s) == s.sweep = "ready"

\* The breakout route of build_day_candidate and resolve_day_trigger_policy.
BreakoutTriggers(version, b) ==
    CASE version = "0.7.3" -> FALSE
      [] version = "0.7.4" -> CrossesAt(b, Len(b))
      [] version = "0.7.5" -> Recent(b) # 0
      [] version = "0.7.6" -> Context(b) = Len(b)
      [] version = "0.7.7" -> Context(b) # 0

Triggered(version, b, s) == Swept5(s) \/ BreakoutTriggers(version, b)

-----------------------------------------------------------------------------
(* The candidate *)

\* classify_entry_state.
EntryState(version, side, b, s) ==
    CASE ~ TechnicalSetup(side, s) -> "NO_SETUP"
      [] TechnicalSetup(side, s) /\ ~ Executable(side, s) -> "EXECUTION_BLOCKED"
      [] TechnicalSetup(side, s) /\ Executable(side, s) /\ BarrierBeforeTp2(s) /\ ~ TargetPathValid(s)
            -> "BLOCKED_BY_BARRIER"
      [] OTHER ->
            IF ~ RrValid(s) THEN "RR_NOT_READY"
            ELSE IF Triggered(version, b, s) THEN "ENTRY_CONFIRMED"
            ELSE IF Context(b) = 0 THEN "WAIT_TRIGGER"
            ELSE IF b[Len(b)].close - Boundary(b, Context(b)) <= MaxExtension
                 THEN "ENTRY_PROVISIONAL" ELSE "ENTRY_TOO_EXTENDED"

\* The decision of 0.7.6 and 0.7.7.
DecisionByState(version, side, b, s) ==
    CASE EntryState(version, side, b, s) = "ENTRY_CONFIRMED" -> "TRADE"
      [] EntryState(version, side, b, s) \in {"NO_SETUP", "EXECUTION_BLOCKED"} -> "NO_TRADE"
      [] OTHER -> "WAIT"

\* The decision of 0.7.3 to 0.7.5, which has no entry state.
DecisionByScore(version, side, b, s) ==
    IF ~ (Executable(side, s) /\ TechnicalSetup(side, s) /\ ExpectedRr(s) >= MinRr) THEN "NO_TRADE"
    ELSE IF Triggered(version, b, s) THEN "TRADE" ELSE "WAIT"

\* build_day_candidate: its decision, "NONE" for no candidate.
Decision(version, side, b, s) ==
    IF s.tiny THEN "NONE"
    ELSE IF version \in {"0.7.6", "0.7.7"} THEN DecisionByState(version, side, b, s)
    ELSE DecisionByScore(version, side, b, s)

-----------------------------------------------------------------------------

DayInit ==
    /\ dayBars = <<>>
    /\ daySide \in DaySides
    /\ snap \in DaySnapshots

\* A bar closes, and the next look finds a new analysis.
DayBar ==
    /\ Len(dayBars) < DayLastBar
    /\ \E b \in DayShapes : dayBars' = Append(dayBars, b)
    /\ snap' \in DaySnapshots
    /\ UNCHANGED daySide

\* Another look before the next bar closes: order book, borrowability and
\* derivatives changed.
DayLook ==
    /\ dayBars # <<>>
    /\ snap' \in DaySnapshots
    /\ UNCHANGED <<dayBars, daySide>>

DayNext == DayBar \/ DayLook

DaySpec == DayInit /\ [][DayNext]_dayVars

-----------------------------------------------------------------------------

\* The bars of the latest look.
Window5 == SubSeq(dayBars, Max({1, Len(dayBars) - DayWindow + 1}), Len(dayBars))

Told(version) == Decision(version, daySide, Window5, snap)

\* A breakout is told to trade as long as its boundary is held and the fresh
\* gates pass: no later bar takes it back, not even one that crosses a newer
\* range ("Egy következő lezárt 5m gyertya puszta megérkezése önmagában nem
\* minősítheti vissza", AGENT_INSTRUCTIONS_HU.md).  The crossing must be in
\* the fetched window, see Breakout for what happens when it leaves it.
HeldBreakoutIsTraded ==
    /\ dayBars # <<>> /\ ~ snap.tiny /\ Strict(daySide, snap)
    /\ \E i \in DOMAIN Window5 :
          CrossesAt(Window5, i) /\ \A k \in i .. Len(Window5) : Window5[k].close > Boundary(Window5, i)
    => Told("0.7.7") = "TRADE"

\* A breakout that an older version trades is traded by the newer ones: the
\* crossing bar of 0.7.4 is in the window of 0.7.5, and what is in that is
\* part of a held sequence of 0.7.7.  0.7.6 trades no more than 0.7.4, since
\* the origin of a sequence is a crossing.  This compares the triggers, on the
\* same levels: 0.7.6 and 0.7.7 measure those from the current price, the
\* others from the boundary, so that the target path may differ.
NewerKeepsOlder ==
    dayBars # <<>> =>
        /\ Told("0.7.3") = "TRADE" => Told("0.7.6") = "TRADE"
        /\ Told("0.7.6") = "TRADE" => Told("0.7.4") = "TRADE"
        /\ Told("0.7.4") = "TRADE" => Told("0.7.5") = "TRADE"
        /\ Told("0.7.5") = "TRADE" => Told("0.7.7") = "TRADE"

\* What five versions of one trigger owe each other and the trader.
BreakoutsAreTraded == HeldBreakoutIsTraded /\ NewerKeepsOlder

\* The 0.7.3 worker's decision and its two rewritings as gates.  The forward
\* capture passes exactly what the worker trades, whatever the short mode of
\* the replay whose gates it borrows.  The replay does so in the mode
\* current_proxy; by default it also passes shorts that cannot be borrowed
\* ("technical_only shorts are research-only", WARNINGS of
\* diagnostics_v073.py), and disabled it passes the longs alone.
GatesMatchDecision ==
    dayBars # <<>> =>
        LET traded == Told("0.7.3") = "TRADE"
            passes(mode) == FirstFailed(mode, daySide, snap) = 0
        IN  /\ \A mode \in ShortModes : FirstGate(ForwardGates(mode, daySide, snap)) = 0 <=> traded
            /\ passes("current_proxy") <=> traded
            /\ passes("disabled") <=> traded /\ daySide = "long"
            /\ traded => passes("technical_only")
            /\ passes("technical_only") /\ ~ traded => daySide = "short" /\ ~ snap.shortable

=============================================================================
