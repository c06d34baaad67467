----------------------------- MODULE MCResearch -----------------------------
(* The research side for TLC: the lifecycle ledger, the capture and the     *)
(* freeze of context, and the forward sidecar.  A behaviour is one of the   *)
(* subject; the variables of the others stay as they are.                   *)
EXTENDS ResearchLedger, ContextFreeze, ForwardSidecar, TLC

\* Recorders, event ids, identities and builds; capture and freeze calls.
CONSTANTS a, b, e1, e2, e3, i1, i2, b1, b2, j1, j2, f1

VARIABLE subject

\* One swap is cheaper for the other subjects than all permutations.
MCSymmetry == Permutations({e1, e2})

MCDeployments ==
    {{"cross_v1", "v1"}, {"cross_v2", "v3"}, {"cross_v2", "v2"}, {"cross_v2", "sector_rotation"},
     {"market_regime", "liquidation_context", "derivatives_positioning"},
     {"event_tokenomics", "market_regime"}, {"relative_strength", "btc_macro_cycle_etf"},
     {"btc_onchain", "eth_onchain"}, {"geopolitical_risk", "geopolitical_event"}}

\* A long and a short blocked parent, and a sweep; where the verdicts of bars
\* matter they vary, where the funnel or the overlap matters they do not.
MCBarrierEvents ==
    {[symbol |-> "s1", side |-> "long", bar |-> 1, barrier |-> 2, id |-> 1],
     [symbol |-> "s2", side |-> "short", bar |-> 1, barrier |-> 2, id |-> 2]}
MCSweeps == {[symbol |-> "s1", side |-> "short", bar |-> 2]}
MCBars == [close : {2}, state : Structures] \cup [close : {1, 3}, state : {"NEUTRAL"}]

\* A bar may be read as losing a long's boundary, or clearing a short's barrier,
\* though it does not; or the other way.
MCTorn == {FirstBar, [close |-> 1, state |-> "NEUTRAL"]}

MCSidecar ==
    /\ SidecarNext
    /\ subject # "barrier" => \A w \in Workers : worker'[w].analysed \in {{}, {"s1"}}
    /\ \A w \in Workers : worker[w].pc = "collect" /\ worker'[w].pc = "stamp" /\ Torn(worker'[w]) =>
           subject = "barrier" /\ Len(barTape) = 2 /\ {worker'[w].last, barTape[worker'[w].bars]} = MCTorn
    /\ subject = "overlap" => runsStored' <= 2 /\ Len(barTape') <= 2
    /\ subject # "overlap" => worker'["parents"] = Off
    /\ subject # "funnel" => snapshots' = {}
    /\ subject = "funnel" =>
           parents' = parents /\ \A i \in DOMAIN barTape' : barTape'[i] = barTape'[1]

MCInit ==
    /\ subject \in {"ledger", "context", "barrier", "overlap", "funnel"}
    /\ Init /\ ContextInit /\ SidecarInit
    /\ subject # "context" => deployed = {"cross_v1", "v1"}

MCNext ==
    /\ \/ subject = "ledger" /\ Next
       \/ subject # "ledger" /\ UNCHANGED vars
    /\ \/ subject = "context" /\ ContextNext
       \/ subject # "context" /\ UNCHANGED contextVars
    /\ \/ subject \in {"barrier", "overlap", "funnel"} /\ MCSidecar
       \/ subject \notin {"barrier", "overlap", "funnel"} /\ UNCHANGED sidecarVars
    /\ UNCHANGED subject

MCSpec == MCInit /\ [][MCNext]_<<vars, contextVars, sidecarVars, subject>>
=============================================================================
