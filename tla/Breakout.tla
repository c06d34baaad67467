------------------------------ MODULE Breakout ------------------------------
(***************************************************************************)
(* The origin of a structural breakout: active_structural_breakout_context *)
(* of day_v076.py, which every run of the day worker evaluates anew over   *)
(* the bars it fetched.  The origin is the identity of the breakout: the   *)
(* journal makes its signal_key of it.                                     *)
(*                                                                         *)
(* The loop of the function is one step per bar.  The bars keep closing    *)
(* while runs come and go, and the window of a run moves on with them.     *)
(* Beside it, origins collects what the module docstring calls the origin  *)
(* of a breakout, from the whole history.                                  *)
(*                                                                         *)
(* This is the long side; the short side is its mirror image.  Only the    *)
(* order of prices matters, so a few numbers stand for them.               *)
(***************************************************************************)
EXTENDS Integers

CONSTANTS
    Prices,    \* prices a bar may have
    Lookback,  \* lookback_bars
    Window,    \* closed bars one request for klines returns
    LastBar    \* bound on the bars that close

ASSUME PricesAssumption == Prices \subseteq Int
ASSUME BoundsAssumption ==
    /\ Lookback \in Nat /\ Lookback >= 2
    /\ Window \in Nat /\ Window > Lookback
    /\ LastBar \in Nat

Bar == {b \in [close : Prices, high : Prices] : b.close <= b.high}

VARIABLES
    clock,     \* bars closed so far
    bars,      \* the bars, by number
    origins,   \* bars that begin a breakout, seen over the whole history
    pc,        \* "idle", or "scan" inside the loop
    from, to,  \* the window of the run
    index,     \* bar the loop looks at next
    active,    \* the origin the loop holds, 0 for None
    report     \* result of the latest run, and the last bar it was about

vars == <<clock, bars, origins, pc, from, to, index, active, report>>

Nums == 0..LastBar

TypeOK ==
    /\ clock \in Nums
    /\ bars \in [1..clock -> Bar]
    /\ origins \subseteq 1..clock
    /\ pc \in {"idle", "scan"}
    /\ from \in Nums
    /\ to \in Nums
    /\ index \in Nat
    /\ active \in Nums
    /\ report \in [origin : Nums, at : Nums]

Init ==
    /\ clock = 0
    /\ bars = [n \in 1..0 |-> 0]
    /\ origins = {}
    /\ pc = "idle"
    /\ from = 0
    /\ to = 0
    /\ index = 0
    /\ active = 0
    /\ report = [origin |-> 0, at |-> 0]

-----------------------------------------------------------------------------
(* Crossing and holding a boundary *)

\* The bars whose highs are the range before bar n.
Prior(n) == n - Lookback .. n - 1

\* The price is above the range before bar n, in the history b.
Above(b, n, price) == \A m \in Prior(n) : price > b[m].high

\* Bar n closes above the range, and the bar before it did not.
Crosses(b, n) == Above(b, n, b[n].close) /\ ~ Above(b, n, b[n - 1].close)

\* All bars after o, up to n, close above the range that o crossed.
Holding(b, o, n) == \A m \in o + 1 .. n : Above(b, o, b[m].close)

\* Bar n crosses its range and no breakout is going on.
Begins(b, n) ==
    n > Lookback /\ Crosses(b, n) /\ \A o \in origins : ~ Holding(b, o, n)

\* A bar closes.
Tick ==
    /\ clock < LastBar
    /\ clock' = clock + 1
    /\ \E b \in Bar : bars' = [n \in 1..clock + 1 |-> IF n = clock + 1 THEN b ELSE bars[n]]
    /\ origins' = IF Begins(bars', clock + 1) THEN origins \cup {clock + 1} ELSE origins
    /\ UNCHANGED <<pc, from, to, index, active, report>>

-----------------------------------------------------------------------------
(* active_structural_breakout_context *)

\* A run fetches its window and enters the loop, behind the bars that only
\* serve as the range of others.
Fetch ==
    /\ pc = "idle"
    /\ clock > 0
    /\ to' = clock
    /\ from' = IF clock < Window THEN 1 ELSE clock - Window + 1
    /\ index' = from' + Lookback
    /\ active' = 0
    /\ pc' = "scan"
    /\ UNCHANGED <<clock, bars, origins, report>>

\* Mutant: a continuation bar that crosses a newer range becomes the origin.
ScanRatchet ==
    /\ pc = "scan" /\ index <= to
    /\ active' = IF Crosses(bars, index) THEN index
                 ELSE IF active # 0 /\ Above(bars, active, bars[index].close) THEN active
                 ELSE 0
    /\ index' = index + 1
    /\ UNCHANGED <<clock, bars, origins, pc, from, to, report>>

\* One iteration: the origin stays while its boundary is held; otherwise this
\* bar may be a new one.
Scan ==
    /\ pc = "scan" /\ index <= to
    /\ active' = IF active # 0 /\ Above(bars, active, bars[index].close) THEN active
                 ELSE IF Crosses(bars, index) THEN index ELSE 0
    /\ index' = index + 1
    /\ UNCHANGED <<clock, bars, origins, pc, from, to, report>>

\* Mutant: the place of the origin in the fetched list, not its start time.
ReturnIndex ==
    /\ pc = "scan" /\ index > to
    /\ report' = [origin |-> IF active = 0 THEN 0 ELSE active - from + 1, at |-> to]
    /\ pc' = "idle"
    /\ to' = 0 /\ index' = 0 /\ active' = 0
    /\ UNCHANGED <<clock, bars, origins, from>>

\* The loop is over: the context goes to the candidate and to the journal.
\* With no more than Lookback bars there was no iteration, and it is None.
Return ==
    /\ pc = "scan" /\ index > to
    /\ report' = [origin |-> active, at |-> to]
    /\ pc' = "idle"
    /\ to' = 0 /\ index' = 0 /\ active' = 0
    /\ UNCHANGED <<clock, bars, origins, from>>

Next == Tick \/ Fetch \/ Scan \/ Return

Spec == Init /\ [][Next]_vars

-----------------------------------------------------------------------------

\* The breakout o goes on at bar n.
Ongoing(o, n) == o \in origins /\ o <= n /\ Holding(bars, o, n)

\* The first bar whose crossing the latest run could have seen.
FirstSeen == from + Lookback

\* A reported context belongs to a breakout that goes on: a run that sees only
\* the end of the history never takes a bar for an ongoing breakout when there
\* is none (day_v076.py, active_structural_breakout_context).
NoFalseBreakout ==
    report.origin # 0 => \E o \in origins : o <= report.origin /\ Ongoing(o, report.at)

\* As long as the origin of the ongoing breakout is among the bars a run can
\* see, the run reports exactly this origin: no ratchet, and no dependence on
\* where the window begins.
OriginIsExact ==
    pc = "idle" =>
        \A o \in origins :
            Ongoing(o, report.at) /\ o >= FirstSeen => report.origin = o

\* What a run reports is the breakout that goes on, no more and no other.
ContextIsTrue == NoFalseBreakout /\ OriginIsExact

\* A later run does not report an earlier origin than the run before: the
\* signal_key of a breakout does not come back after another one was used.
OriginNeverGoesBack ==
    [][report'.origin # 0 => report'.origin >= report.origin]_report

\* "Later continuation bars may cross newer rolling 12-bar highs or lows, but
\* they must not ratchet the trigger/origin forward" (day_v076.py, docstring of
\* active_structural_breakout_context): as long as the boundary of a reported
\* origin is held, no later run reports another origin.
OriginIsNotRatcheted ==
    [][report.origin # 0 /\ report'.origin # 0 /\ Holding(bars, report.origin, report'.at)
          => report'.origin = report.origin]_report

=============================================================================
