---------------------------- MODULE BarrierStudy ----------------------------
(* The research study of day setups that a structural barrier blocks. A      *)
(* parent is frozen when a worker first sees it; later closed bars end it:   *)
(* its boundary is lost, the fifteen-minute structure turns against it, or a *)
(* close clears the barrier. The first terminal parents by bar time are the  *)
(* DEVELOPMENT cohort, the next ones VALIDATION. This module holds the rows, *)
(* the resolution and the cohorts; ForwardSidecar holds the workers.         *)
EXTENDS Naturals, FiniteSets, Sequences, FiniteSetsExt

CONSTANTS
    BarrierEvents,     \* triggers: [symbol, side, bar, barrier, id], id the order of the hashed keys
    Bars,              \* what a bar may be: [close : 1..3, state : Structures]
    LastBar,           \* bound: bars of the tape
    Window,            \* bars an analysis holds
    Activation,        \* time of ACTIVATION_BOUNDARY of version 2
    DevelopmentTarget, ValidationTarget, \* DEVELOPMENT_TARGET, VALIDATION_TARGET of version 1
    PerSide,           \* DEVELOPMENT_PER_SIDE of version 2
    MinGroup           \* the smallest group of a balanced cohort

ASSUME BarrierAssumption ==
    /\ LastBar \in Nat \ {0} /\ Activation \in Nat
    /\ \A e \in BarrierEvents : e.bar \in Nat

VARIABLES
    barTape,   \* closed bars: close 1..3 and the fifteen-minute structure at the close
    barNow,    \* the clock; bar i closes at 2 * i
    cohortStart, \* prospective_start_at, or Never
    parents,   \* rows of the parent table by event
    clears     \* rows of the clear table: event, bar and bars_to_clear

studyVars == <<barTape, barNow, cohortStart, parents, clears>>

Closes(i) == 2 * i
Never == Closes(LastBar) + 1 \* later than the tape
Structures == {"NEUTRAL", "BEARISH_SHIFT", "BULLISH_SHIFT"}
NoParent == [captured |-> Never, status |-> "none", resolved |-> Never, upTo |-> 0,
             whole |-> TRUE, torn |-> FALSE]
FrozenParents == {e \in BarrierEvents : parents[e].status # "none"}

\* build_parent_record: the trigger bar has closed by the capture, and not
\* before the study began.
Admitted(e, captured, start) == start <= Closes(e.bar) /\ Closes(e.bar) <= captured

\* A long is triggered at 1 and blocked at 2, a short at 3 and at 2.
BoundaryHeld(e, close) == IF e.side = "long" THEN close > 1 ELSE close < 3
BarrierCleared(e, close) == IF e.side = "long" THEN close > e.barrier ELSE close < e.barrier
OpposingStructure(e, state) == state = (IF e.side = "long" THEN "BEARISH_SHIFT" ELSE "BULLISH_SHIFT")

\* What one later closed bar says of a parent.
Verdict(e, bar) ==
    CASE ~ BoundaryHeld(e, bar.close) -> "INVALIDATED_BOUNDARY"
      [] BoundaryHeld(e, bar.close) /\ OpposingStructure(e, bar.state) -> "INVALIDATED_STRUCTURE"
      [] /\ BoundaryHeld(e, bar.close) /\ ~ OpposingStructure(e, bar.state)
         /\ BarrierCleared(e, bar.close) -> "CLEARED"
      [] OTHER -> "PENDING"

\* What a run that analysed run.bars bars has read of them. The clock is read
\* after the answer, so that the last bar may be one that was still running.
Reading(run, i) == IF i = run.bars THEN run.last ELSE barTape[i]
Torn(run) == run.last # barTape[run.bars]
Sure(run) == IF Torn(run) THEN run.bars - 1 ELSE run.bars

\* The bars of an analysis of n bars that closed after the capture.
Seen(n) == {i \in 1..n : i + Window > n}
\* Mutant: bars are later than the trigger, not than the capture.
FutureSinceTrigger(e, row, n) == {i \in Seen(n) : i > e.bar}

Future(e, row, n) == {i \in Seen(n) : Closes(i) > row.captured}

\* resolve_parent_against_analysis: the first bar that ends the parent.
Ends(e, row, run) == {i \in Future(e, row, run.bars) : Verdict(e, Reading(run, i)) # "PENDING"}

\* Whether the analysis goes on where the last one ended; history only.
GoesOn(row, n) == \A i \in 1..n : Closes(i) > row.captured /\ i > row.upTo => i \in Seen(n)

\* The row after an observer run; that the bar that ended it was torn is
\* history only.
Observed(e, row, run) ==
    LET whole == row.whole /\ GoesOn(row, run.bars)
        ending == Min(Ends(e, row, run))
    IN IF Ends(e, row, run) = {} THEN [row EXCEPT !.upTo = Sure(run), !.whole = whole]
       ELSE [row EXCEPT !.status = Verdict(e, Reading(run, ending)), !.resolved = Closes(ending),
                        !.upTo = Sure(run), !.whole = whole, !.torn = ending > Sure(run)]

\* The clear row: bars are counted from the first one the analysis has.
ClearRow(e, row, run) ==
    LET bar == Min(Ends(e, row, run))
    IN [event |-> e, bar |-> bar, bars |-> Cardinality({i \in Future(e, row, run.bars) : i <= bar})]

-----------------------------------------------------------------------------
(* The cohorts *)

Terminal(table) == {e \in BarrierEvents : table[e].status \notin {"none", "PENDING"}}
Before(table, e, f) ==
    \/ table[e].resolved < table[f].resolved
    \/ table[e].resolved = table[f].resolved /\ e.id < f.id
FirstOf(table, events, k) ==
    {e \in events : Cardinality({f \in events : Before(table, f, e)}) < k}
Ready(events, k) == Cardinality(events) >= k

\* freeze_partition: the first ones, once there are enough; then the next.
Development(table) ==
    IF Ready(Terminal(table), DevelopmentTarget)
    THEN FirstOf(table, Terminal(table), DevelopmentTarget) ELSE {}
Validation(table) ==
    IF Ready(Terminal(table), DevelopmentTarget + ValidationTarget)
    THEN FirstOf(table, Terminal(table), DevelopmentTarget + ValidationTarget)
             \ FirstOf(table, Terminal(table), DevelopmentTarget) ELSE {}

\* evaluate_development_gate: the outcomes of a balanced cohort may be opened.
Balanced(table, cohort) ==
    /\ Cardinality({e \in cohort : table[e].status = "CLEARED"}) >= MinGroup
    /\ Cardinality({e \in cohort : table[e].status # "CLEARED"}) >= MinGroup
    /\ \A side \in {"long", "short"} : Cardinality({e \in cohort : e.side = side}) >= MinGroup
Authorized(table) == Development(table) # {} /\ Balanced(table, Development(table))

\* Version 2 takes the parents captured after the activation, by side.
Eligible(table) == {e \in Terminal(table) : table[e].captured > Activation}
OfSide(table, side) == {e \in Eligible(table) : e.side = side}
Development2(table) ==
    IF \A side \in {"long", "short"} : Ready(OfSide(table, side), PerSide)
    THEN UNION {FirstOf(table, OfSide(table, side), PerSide) : side \in {"long", "short"}} ELSE {}

\* _canonical_event of version 2: anything else raises, and with it the run.
Contract2(table) ==
    \A e \in Eligible(table) :
        /\ table[e].captured > Activation /\ table[e].resolved > Activation
        /\ table[e].resolved >= table[e].captured

-----------------------------------------------------------------------------
(* The market *)

\* Time passes; at an even time a bar closes.
BarTick(bar) ==
    /\ barNow < Closes(LastBar)
    /\ barNow' = barNow + 1
    /\ barTape' = IF barNow' % 2 = 0 THEN Append(barTape, bar) ELSE barTape
    /\ UNCHANGED <<cohortStart, parents, clears>>

FirstBar == [close |-> 2, state |-> "NEUTRAL"]

\* One bar has closed, the trigger bar of the first events.
StudyInit ==
    /\ barTape = <<FirstBar>> /\ barNow = Closes(1) /\ cohortStart = Never
    /\ parents = [e \in BarrierEvents |-> NoParent] /\ clears = {}

-----------------------------------------------------------------------------
(* Properties *)

StudyTypeOK ==
    /\ barNow \in 0..Closes(LastBar) /\ barTape \in Seq([close : 1..3, state : Structures])
    /\ cohortStart \in 0..Closes(LastBar) \cup {Never}
    /\ DOMAIN parents = BarrierEvents
    /\ \A row \in clears : row.event \in BarrierEvents

\* A parent ends once, as the bars since its capture say, however many runs of
\* however late analyses looked at it. As long as no bar left the window unseen,
\* no closed bar before the one it ends with loses the boundary, turns the
\* structure or clears the barrier, and a pending parent has no such bar that a
\* run has looked at. The bar it ends with is the first of that kind, and says
\* how it ends, unless the run read that bar while it was still running: then
\* the parent has ended for good on what that bar said so far. It has a clear
\* row if and only if it was cleared, and that counts the bars. No trigger from
\* before the study is a parent.
ParentsEndOnce ==
    /\ \A e \in FrozenParents :
        LET row == parents[e]
            later == {i \in DOMAIN barTape : Closes(i) > row.captured}
            ends == {i \in later : Verdict(e, barTape[i]) # "PENDING"}
            mine == {c \in clears : c.event = e}
        IN /\ cohortStart <= Closes(e.bar) /\ Closes(e.bar) <= row.captured
           /\ mine = {} <=> row.status # "CLEARED"
           /\ row.status # "PENDING" => row.captured < row.resolved /\ row.resolved <= barNow
           /\ row.whole /\ row.status # "PENDING" => \A i \in ends : row.resolved <= Closes(i)
           /\ row.whole /\ row.status # "PENDING" /\ ~ row.torn =>
                  /\ row.resolved = Closes(Min(ends))
                  /\ row.status = Verdict(e, barTape[Min(ends)])
           /\ row.whole /\ row.status = "PENDING" => \A i \in ends : i > row.upTo
           /\ \A c \in mine : /\ Cardinality(mine) = 1 /\ Closes(c.bar) = row.resolved
                              /\ c.bars <= Cardinality({i \in later : i <= c.bar})
    /\ Development(parents) \cap Validation(parents) = {}
    /\ \A e \in Development2(parents) : parents[e].captured > Activation
=============================================================================
