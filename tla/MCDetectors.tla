---------------------------- MODULE MCDetectors ----------------------------
(* The breakout and sweep detectors, the decision of a candidate and the    *)
(* offline statistics, for TLC: a behaviour is one of the subject, and the  *)
(* variables of the others stay as they are.                                *)
EXTENDS Breakout, Sweep, DayDecision, Statistics

VARIABLE subject

MCPrices == 1..3

\* A quiet bar, one that breaks the structure, and sweeps that do or do not
\* close back above the level, with and without a surge of volume.
Shape(l, h, c, s) == [low |-> l, high |-> h, close |-> c, surge |-> s]
MCShapes == {Shape(2, 3, 2, FALSE), Shape(2, 3, 3, TRUE), Shape(1, 3, 3, TRUE),
             Shape(1, 4, 4, TRUE), Shape(1, 4, 1, TRUE)}

\* Bars without a wick, and one with a wick.
MCDayShapes == {[close |-> p, extreme |-> p] : p \in 1..3}
                   \cup {[close |-> 1, extreme |-> 2]}

\* An analysis that passes all gates of its side, and what each gate stops.
Good(side) == [expansion |-> 60, direction |-> IF side = "long" THEN 60 ELSE -60,
               quality |-> 100, tradeable |-> TRUE, shortable |-> TRUE, tiny |-> FALSE,
               barrier |-> 0, sweep |-> "none"]
Variants(s) == {s, [s EXCEPT !.expansion = 50], [s EXCEPT !.quality = 60],
                [s EXCEPT !.tradeable = FALSE], [s EXCEPT !.shortable = FALSE],
                [s EXCEPT !.tiny = TRUE], [s EXCEPT !.barrier = 15],
                [s EXCEPT !.barrier = 20]}
MCDaySnapshots ==
    UNION {Variants([Good("long") EXCEPT !.sweep = w]) : w \in {"none", "ready"}}
        \cup {[Good("long") EXCEPT !.sweep = "volume"], Good("short"),
              [Good("short") EXCEPT !.sweep = "ready"],
              [Good("short") EXCEPT !.sweep = "ready", !.shortable = FALSE]}

\* A loss, and a gain that makes up for it.
LossOrGain == {-1, 2}

MCInit ==
    /\ subject \in {"breakout", "sweep", "day", "statistics"}
    /\ Init /\ SweepInit /\ DayInit /\ StatisticsInit
    /\ subject # "day" => daySide = "long" /\ snap = Good("long")

MCNext ==
    /\ \/ subject = "breakout" /\ Next /\ UNCHANGED <<sweepVars, dayVars, statisticsVars>>
       \/ subject = "sweep" /\ SweepNext /\ UNCHANGED <<vars, dayVars, statisticsVars>>
       \/ subject = "day" /\ DayNext /\ UNCHANGED <<vars, sweepVars, statisticsVars>>
       \/ subject = "statistics" /\ (StatisticsNext \/ UNCHANGED statisticsVars)
             /\ UNCHANGED <<vars, sweepVars, dayVars>>
    /\ UNCHANGED subject

MCSpec == MCInit /\ [][MCNext]_<<vars, sweepVars, dayVars, statisticsVars, subject>>
=============================================================================
