------------------------------ MODULE MCQueues ------------------------------
(* The two replay queues with a client of one, the replay of a symbol and   *)
(* of its sweep events, and the flow cache, for TLC: a behaviour is one of  *)
(* the subject, and the variables of the others stay as they are.  The      *)
(* queue is not followed further when its client has ended: it goes on as   *)
(* with a client that has not begun.                                        *)
EXTENDS BacktestQueue, GateReport, EventReplay, FlowCache, TLC

CONSTANTS w1, w2, s1, s2

VARIABLE subject

reportVars == <<diagVars, client>>

MCSymbols == 1..2

\* Different counts, so that the total tells which symbols were replayed.
MCSignalCount == [s \in MCSymbols |-> s]

\* A bar may touch nothing, the second target, a stop far away, or both.
Move(u, d) == [up |-> u, down |-> d]
MCMoves == {Move(0, 0), Move(2, 0), Move(0, 2), Move(1, 1)}

\* Six bars, the first two quiet, with or without a gap after the third.
MCEventMoves == {Move(0, 0), Move(2, 0), Move(1, 1)}
MCEventMarkets ==
    UNION {{[s \in {0, 1} \cup late |-> IF s < 2 THEN Move(0, 0) ELSE move[s]] :
               move \in [late -> MCEventMoves]} : late \in {2..5, {2, 4, 5, 6}}}

\* Events whose sweeps and confirmations come in different orders; one that
\* never confirms, one without a candidate, and the cohorts.
Event(side, sweep, shift, fit, pass, conflict) ==
    [side |-> side, sweep |-> sweep, reclaim |-> shift, shift |-> shift, fit |-> fit,
     pass |-> pass, conflict |-> conflict]
MCSweepEvents ==
    {Event("long", 1, 3, TRUE, p, FALSE) : p \in BOOLEAN}
        \cup {Event("long", 2, 2, TRUE, TRUE, c) : c \in BOOLEAN}
        \cup {Event("long", 3, 3, TRUE, TRUE, FALSE), Event("long", 4, 4, TRUE, FALSE, FALSE),
              Event("long", 4, 5, TRUE, TRUE, FALSE), Event("long", 2, 3, FALSE, TRUE, FALSE),
              Event("short", 1, 3, TRUE, TRUE, FALSE),
              [Event("short", 2, 0, FALSE, FALSE, FALSE) EXCEPT !.reclaim = 3]}

\* Rows that fail at one gate or another, and one that fails nowhere.
Analysis(sweep, tiny, expansion) ==
    [expansion |-> expansion, direction |-> 60, quality |-> 100, tradeable |-> TRUE,
     shortable |-> FALSE, tiny |-> tiny, barrier |-> 0, sweep |-> sweep]
Row(side, split, primary, evaluable, snapshot) ==
    [side |-> side, split |-> split, primary |-> primary, evaluable |-> evaluable,
     snap |-> snapshot]
MCEventRowsOf ==
    <<{Row("long", "DEVELOPMENT", TRUE, TRUE, Analysis("ready", FALSE, 60)),
       Row("short", "VALIDATION", FALSE, FALSE, Analysis("ready", TRUE, 60))},
      {Row("long", "DEVELOPMENT", TRUE, TRUE, Analysis("shift", FALSE, 60)),
       Row("long", "DEVELOPMENT", FALSE, TRUE, Analysis("volume", FALSE, 60)),
       Row("short", "VALIDATION", TRUE, TRUE, Analysis("ready", FALSE, 50)),
       Row("short", "VALIDATION", TRUE, FALSE, Analysis("none", TRUE, 60))}>>
MCDiagEventCount == [s \in MCSymbols |-> Cardinality(MCEventRowsOf[s])]
MCSlices == <<[split |-> "all", side |-> "both"], [split |-> "DEVELOPMENT", side |-> "long"]>>

\* The workers differ in nothing but their names, nor do the symbols of the
\* flow cache.
MCSymmetry == Permutations(Workers) \cup Permutations(FlowSymbols)

MCInit ==
    /\ subject \in {"queue", "diagnostics", "replay", "events", "flow"}
    /\ Init /\ GateReportInit /\ FlowInit
    /\ subject = "events" => EventInit
    /\ subject # "events" =>
           /\ ReplayInit /\ (subject # "replay" => market = <<>>)
           /\ study = "diagnostics" /\ eventsLeft = {} /\ rowsLeft = {} /\ sampled = <<>>

MCNext ==
    /\ \/ subject = "queue" /\ Next /\ UNCHANGED <<reportVars, replayVars, eventVars, flowVars>>
       \/ subject = "diagnostics" /\ client.stage \notin {"done", "raised"} /\ GateReportNext
              /\ UNCHANGED <<vars, replayVars, eventVars, flowVars>>
       \/ subject = "replay" /\ ReplayNext /\ UNCHANGED <<vars, reportVars, eventVars, flowVars>>
       \/ subject = "events" /\ EventNext /\ UNCHANGED <<vars, reportVars, flowVars>>
       \/ subject = "flow" /\ FlowNext /\ UNCHANGED <<vars, reportVars, replayVars, eventVars>>
    /\ UNCHANGED subject

MCSpec == MCInit /\ [][MCNext]_<<vars, reportVars, replayVars, eventVars, flowVars, subject>>
=============================================================================
