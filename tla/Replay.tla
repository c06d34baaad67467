------------------------------- MODULE Replay -------------------------------
(***************************************************************************)
(* The replay of one symbol in backtest.py: klines_range pages its history *)
(* backwards from the exchange, replay_symbol walks over the bars, and     *)
(* evaluate_outcome looks at the bars behind a signal.  The queue that     *)
(* hands out the symbols is BacktestQueue; there, all of this is one step. *)
(*                                                                         *)
(* Time is in five-minute slots from the start of the range; a slot may    *)
(* have no bar.  Whether a side triggers at a bar, and passes the filters, *)
(* is data.  So is what a bar touches: of the levels of a long signal,     *)
(* which are one step up or down for a short one.                          *)
(***************************************************************************)
EXTENDS Integers, Sequences, SequencesExt

CONSTANTS
    Moves,      \* what a bar may touch: how far up and down, in 0..2
    Slots,      \* end_ms, the end of the range
    PageLimit,  \* BACKTEST_PAGE_LIMIT
    OutcomeBars,  \* BACKTEST_HORIZON_HOURS, in bars
    Warmup,     \* slots before start_at
    NoOverlap   \* BACKTEST_PRIMARY_NO_OVERLAP

ASSUME ReplayAssumption ==
    /\ \A move \in Moves : move \in [up : 0..2, down : 0..2]
    /\ {Slots, PageLimit, OutcomeBars} \subseteq Nat \ {0}
    /\ Warmup \in Nat
    /\ NoOverlap \in BOOLEAN

VARIABLES
    market,    \* the bars the exchange has, by slot; the others are missing
    stage,     \* "fetch", "walk" or "done"
    cursor,    \* cursor_end
    fetched,   \* keys of by_start
    starts,    \* start times of the fetched bars, in order; empty while paging
    barIndex,  \* index: place of the bar the walk looks at next
    lastExit,  \* last_primary_exit, by side
    replayed   \* the signals found so far

replayVars == <<market, stage, cursor, fetched, starts, barIndex, lastExit, replayed>>

Directions == {"long", "short"}

ReplayInit ==
    /\ market \in UNION {[present -> Moves] : present \in SUBSET (0..Slots - 1)}
    /\ stage = "fetch"
    /\ cursor = Slots - 1
    /\ fetched = {}
    /\ starts = <<>>
    /\ barIndex = 0
    /\ lastExit = [side \in Directions |-> 0]
    /\ replayed = <<>>

-----------------------------------------------------------------------------
(* klines_range *)

Present(first, last) == {s \in DOMAIN market : first <= s /\ s <= last}

\* What the exchange answers: the last bars up to the cursor, one page of them.
Page == {s \in Present(0, cursor) : Cardinality(Present(s, cursor)) <= PageLimit}

\* sorted(by_start): the n-th key is the first that has n keys up to it.
Sorted(keys) ==
    LET UpTo(s) == Cardinality({t \in keys : t <= s})
    IN  [n \in 1..Cardinality(keys) |-> Min({s \in keys : UpTo(s) >= n})]

\* The paging ends: the bars are sorted, and the walk begins at
\* bisect_left(bar_starts, start_ms).
Walk(keys) ==
    /\ stage' = "walk"
    /\ starts' = Sorted(keys)
    /\ barIndex' = Cardinality({s \in keys : s < Warmup}) + 1
    /\ UNCHANGED cursor

\* Mutant: the next page ends one bar too early.
FetchPageSkipping ==
    /\ stage = "fetch"
    /\ fetched' = fetched \cup Page
    /\ IF Cardinality(Page) < PageLimit \/ Min(Page) = 0 \/ Min(Page) = 1
       THEN Walk(fetched')
       ELSE /\ cursor' = Min(Page) - 2
            /\ UNCHANGED <<stage, starts, barIndex>>
    /\ UNCHANGED <<market, lastExit, replayed>>

FetchPage ==
    /\ stage = "fetch"
    /\ fetched' = fetched \cup Page
    /\ IF Cardinality(Page) < PageLimit \/ Min(Page) = 0
       THEN Walk(fetched')
       ELSE /\ cursor' = Min(Page) - 1
            /\ UNCHANGED <<stage, starts, barIndex>>
    /\ UNCHANGED <<market, lastExit, replayed>>

-----------------------------------------------------------------------------
(* evaluate_outcome *)

\* What the bar at a place touches of the levels of a signal of a side.
Touch(side, place) ==
    LET move == market[starts[place]]
    IN  IF side = "long" THEN [stop |-> move.down > 0, reach |-> move.up]
        ELSE [stop |-> move.up > 0, reach |-> move.down]

Ended(touch) == touch.stop \/ touch.reach = 2

ExitReason(touch) ==
    IF ~ Ended(touch) THEN "TIME_EXIT"
    ELSE IF ~ touch.stop THEN "TP2"
    ELSE IF touch.reach > 0 THEN "AMBIGUOUS_STOP_FIRST" ELSE "STOP"

\* Mutant: the horizon begins with the bar of the signal itself.
ExitPlaceAtSignal(side, place) ==
    LET future == place .. place + OutcomeBars
    IN  Min({p \in future : Ended(Touch(side, p))} \cup {Max(future)})

\* The bar that ends a signal: the first that touches its stop or its second
\* target, or else the last of its horizon.
ExitPlace(side, place) ==
    LET future == place + 1 .. place + OutcomeBars
    IN  Min({p \in future : Ended(Touch(side, p))} \cup {Max(future)})

-----------------------------------------------------------------------------
(* replay_symbol *)

CloseOf(place) == starts[place] + 1

Signal(side, place) ==
    [side |-> side, place |-> place, opened |-> CloseOf(place),
     exit |-> ExitPlace(side, place), closed |-> CloseOf(ExitPlace(side, place)),
     reason |-> ExitReason(Touch(side, ExitPlace(side, place))),
     primary |-> NoOverlap => CloseOf(place) >= lastExit[side]]

\* Mutant: a signal that is not primary moves the exit as well.
LastExitOfAll(side, signal) == signal.closed

LastExitAfter(side, signal) ==
    IF signal.primary THEN signal.closed ELSE lastExit[side]

\* One bar: the sides that trigger and pass become signals, long first.
EvaluateBar ==
    /\ stage = "walk"
    /\ barIndex <= Len(starts) - 1
    /\ barIndex + OutcomeBars <= Len(starts)
    /\ \E sides \in SUBSET Directions :
           LET new(side) == IF side \in sides THEN <<Signal(side, barIndex)>> ELSE <<>>
           IN  /\ replayed' = replayed \o new("long") \o new("short")
               /\ lastExit' = [side \in Directions |->
                      IF side \in sides THEN LastExitAfter(side, Signal(side, barIndex))
                      ELSE lastExit[side]]
    /\ barIndex' = barIndex + 1
    /\ UNCHANGED <<market, stage, cursor, fetched, starts>>

\* The horizon of the next bar does not fit any more, or there is none.
EndReplay ==
    /\ stage = "walk"
    /\ barIndex + OutcomeBars > Len(starts)
    /\ stage' = "done"
    /\ UNCHANGED <<market, cursor, fetched, starts, barIndex, lastExit, replayed>>

ReplayNext == FetchPage \/ EvaluateBar \/ EndReplay

ReplaySpec == ReplayInit /\ [][ReplayNext]_replayVars

-----------------------------------------------------------------------------

\* Paging backwards loses no bar and invents none, wherever bars are missing
\* and however the pages fall (klines_range).
FetchIsComplete == stage # "fetch" => fetched = DOMAIN market

\* Two primary signals of a side never overlap, and a signal is left out of
\* the primary ones only for a primary one that is still open
\* (replay_symbol, OVERLAPPING_SAME_SYMBOL_SIDE_SIGNAL).
PrimaryIsGreedy ==
    \A n \in DOMAIN replayed :
        LET open == {m \in 1..n - 1 :
                        /\ replayed[m].side = replayed[n].side
                        /\ replayed[m].primary
                        /\ replayed[m].closed > replayed[n].opened}
        IN  NoOverlap => (replayed[n].primary <=> open = {})

\* The live journal over the same bars; a signal is one of its events.
JournalOf(side) == [place \in DOMAIN starts |-> Touch(side, place)]

Live == INSTANCE Journal WITH
            Workers <- {"live"}, Events <- 1..2 * Slots, Horizon <- OutcomeBars,
            Bars <- [stop : BOOLEAN, reach : 0..2], Window <- Slots, Lag <- 0, LastBar <- Slots,
            path <- [e \in DOMAIN replayed |-> JournalOf(replayed[e].side)],
            win <- [w \in {"live"} |-> [from |-> 1, to |-> Len(starts), torn |-> FALSE]],
            now <- [w \in {"live"} |-> Slots],
            clock <- Len(starts), rows <- <<>>, active <- 0, pc <- <<>>, part <- <<>>,
            mine <- <<>>, read <- <<>>

\* A replayed signal ends as the live journal would end it, which counts its
\* horizon in hours and not in bars: for the same bar and the same reason,
\* when no bar of the horizon is missing (backtest.py, evaluate_outcome, and
\* journal_core.py, evaluate_signal_row).
ReplayIsJournal ==
    \A e \in DOMAIN replayed :
        LET s == replayed[e]
            row == Live!Evaluate("live", e,
                       [Live!NoRow EXCEPT !.signal = s.place, !.status = "OPEN", !.last = s.place])
        IN  starts[s.place + OutcomeBars] = starts[s.place] + OutcomeBars =>
                row.reason = s.reason /\ row.exit = s.exit

\* The replay sees all bars, takes the right signals and ends them rightly.
ReplayIsFaithful == FetchIsComplete /\ PrimaryIsGreedy /\ ReplayIsJournal
=============================================================================
