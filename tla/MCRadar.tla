------------------------------ MODULE MCRadar ------------------------------
(* The day journal, the passes of both workers, the captures of the swing   *)
(* trial and those of policy catalysts with the alerts, for TLC: a behaviour *)
(* is one of the subject, and the variables of the others stay as they are. *)
EXTENDS Journal, SwingScan, DayScan, SwingCapture, SwingTriggers, MarketAlerts, TLC

CONSTANTS w1, w2, c1, u1, u2, p1, p2, r1, r2

VARIABLE subject

\* What bars may touch: nothing, either target and the ambiguous bar.
SomeBars == {[stop |-> FALSE, reach |-> n] : n \in 0..2} \cup
            {[stop |-> TRUE, reach |-> 2]}

OneEvent == {1}

\* A strict long, a weaker one, a strict short, a blocked one of each side.
Symbol(side, strength, score, solid, tradeable, borrow) ==
    [side |-> side, strength |-> strength, score |-> score, solid |-> solid,
     tradeable |-> tradeable, borrow |-> borrow]
MCSwingShapes ==
    {Symbol("long", 3, 2, TRUE, TRUE, FALSE), Symbol("long", 2, 1, TRUE, TRUE, FALSE),
     Symbol("short", 3, 3, TRUE, TRUE, TRUE), Symbol("long", 1, 1, FALSE, FALSE, FALSE),
     Symbol("short", 3, 2, TRUE, FALSE, TRUE)}

\* Strict for a long, strict for a short, and behind a barrier while the score
\* is one that derivatives may change.
Analysis(e, d, q) ==
    [expansion |-> e, direction |-> d, quality |-> q, tradeable |-> TRUE,
     shortable |-> TRUE, tiny |-> FALSE, barrier |-> 0, sweep |-> "none"]
MCDayAnalyses == {Analysis(60, 60, 100), Analysis(60, -60, 100),
                  [Analysis(100, 32, 100) EXCEPT !.barrier = 15]}
MCDayEffects == {[expansion |-> 5, direction |-> 8, quality |-> 5],
                 [expansion |-> 0, direction |-> -8, quality |-> 0]}

\* The workers differ in nothing but their names.
MCSymmetry == Permutations(Workers)

\* Captures of the swing trial: a guarded collector while both services are
\* deployed, or two posts that overlap, each soon after its collection.
MCLineage ==
    /\ CaptureStep
    /\ \A c \in Collectors \ Guarded : collector'[c] = Away
    /\ Cardinality(captures') <= 1 /\ hour' <= 4 /\ \A r \in captures' : r.full
MCMilestones ==
    /\ CaptureStep
    /\ \A c \in Guarded : collector'[c] = Away
    /\ builds' = builds /\ latestScan' = latestScan
    /\ \A c \in Collectors : collector'[c].start \in {0, collector'[c].at}
    /\ Cardinality({r \in captures' : ~r.full}) <= 1

\* Frozen triggers of two keys, and bars that close above or at them.
MCCandidates == {[k \in TriggerKeys |-> 1], [k \in {2} |-> 1]}
MCCloses == [TriggerKeys -> {1}] \cup [TriggerKeys -> {2}]
MCTriggers == TriggersNext /\ klines'.failed \in {{}, {1}}

\* A page of a feed and two of an HTML source, the second for the alerts only:
\* it has no date and comes later.  Either two captures overlap,
\* and one of them may break; or they follow one another and the alerts read the
\* tables in between, two requests at a time while there is one capture at most.
\* Files of geopolitics come when there is none, and to one request.
MCSourceOf == [p \in {1, 2, 3} |-> IF p = 1 THEN 1 ELSE 2]
MCGeo == {<<0, 0>>, <<1, 1>>, <<1, 0>>}
Uncalls == {c \in PolicyCaptures : capture[c] = Uncalled}
MCPolicy ==
    /\ PolicyNext /\ UNCHANGED <<geoFiles, request, cached>>
    /\ page' # page => page'[2] = page[2] /\ page'[3] = NotOut /\ \E c \in PolicyCaptures : capture[c].left # {}
    /\ moment' <= 4 /\ capture'[p1].failed = {} /\ capture'[p1].stage # "failed"
AtRest(c) == capture[c].stage \in {"off", "done"}
MCAlerts ==
    /\ AlertsNext /\ page' = page
    /\ \A c \in PolicyCaptures : capture'[c].stage # "failed" /\ capture'[c].failed = {}
    /\ \A c \in PolicyCaptures : 3 \in DOMAIN capture'[c].found =>
           capture'[c].at > FirstMoment /\ capture'[c].found[3] = Undated
    /\ capture'[p1] = Uncalled => capture'[p2] = Uncalled
    /\ Cardinality({c \in PolicyCaptures : ~AtRest(c)'}) <= 1
    /\ moment' # moment => \A c \in PolicyCaptures : AtRest(c)
    /\ page[1] = NotOut => (Uncalls # {} => request' = request)
    /\ Uncalls' = {} => /\ page[1] = NotOut \/ cached # NoContext
                        /\ request'[r2].stage = "off"
                        /\ request'[r1].stage = "off" \/ \A c \in PolicyCaptures : AtRest(c)'
    /\ request' # request => \A c \in PolicyCaptures : capture[c].left = {}
    /\ request[r2].stage = "off" /\ request'[r2].stage # "off" =>
           request[r1].stage # "off" /\ cached = NoContext
    /\ Cardinality({r \in Requests : request'[r].stage \in {"capture", "events"}}) <= 1
    /\ \A r \in Requests : request'[r].error /\ ~request[r].error => Done = {}
    /\ geoFiles' # {} => Uncalls' = PolicyCaptures /\ request'[r2] = NoLoad
    /\ Cardinality(geoFiles') <= 2

MCInit ==
    /\ subject \in {"journal", "swing", "day", "lineage", "milestones", "triggers", "policy",
                    "alerts"}
    /\ Init /\ SwingInit /\ ScanInit /\ CaptureStart /\ TriggersInit /\ AlertsInit
    /\ subject \notin {"policy", "alerts"} => page = [p \in Pages |-> NotOut]
    /\ page[3] = NotOut <=> subject # "alerts"
    /\ subject = "alerts" => page[2] # NotOut

MCNext ==
    /\ \/ subject = "journal" /\ Next
       \/ subject # "journal" /\ UNCHANGED vars
    /\ \/ subject = "swing" /\ SwingNext
       \/ subject # "swing" /\ UNCHANGED swingVars
    /\ \/ subject = "day" /\ ScanNext
       \/ subject # "day" /\ UNCHANGED scanVars
    /\ \/ subject = "lineage" /\ MCLineage
       \/ subject = "milestones" /\ MCMilestones
       \/ subject \notin {"lineage", "milestones"} /\ UNCHANGED captureVars
    /\ \/ subject = "triggers" /\ MCTriggers
       \/ subject # "triggers" /\ UNCHANGED triggerVars
    /\ \/ subject = "policy" /\ MCPolicy
       \/ subject = "alerts" /\ MCAlerts
       \/ subject \notin {"policy", "alerts"} /\ UNCHANGED alertVars
    /\ UNCHANGED subject

MCSpec ==
    MCInit /\ [][MCNext]_<<vars, swingVars, scanVars, captureVars, triggerVars, alertVars, subject>>
=============================================================================
