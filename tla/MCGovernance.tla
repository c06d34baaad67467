---------------------------- MODULE MCGovernance ----------------------------
(* What may be said of a study, for TLC: the lifecycle ledger, the          *)
(* out-of-sample vault and the controlled-pullback sample.  A behaviour is  *)
(* one of the subject; the variables of the others stay as they are.        *)
EXTENDS ResearchLedger, OosVault, Pullback, TLC

\* Processes, event ids, identities, which are payloads too, and the rest.
CONSTANTS a, b, e1, e2, e3, i1, i2, b1, b2, g1, g2, t1, t2

VARIABLE subject

\* Recorders of the ledger use the vault as well.  One swap of events is cheaper
\* for the other subjects than all permutations.
MCSymmetry == Permutations(Recorders) \cup Permutations({e1, e2}) \cup Permutations(Idents)

\* Prices of a leg of 5 up or down with a pullback of two fifths or three, and
\* one odd row: none, one without a mid, or one of a deeper book. The first
\* cycle has the rows of an impulse and a bucket after it. The standby
\* looks at the last window only, and the odd row is replaced between a finished
\* cycle that stored something and that look.
MCRow(m, f, l) == [mid |-> m, flow |-> f, level |-> l]
MCShapes == {MCRow(5, -1, 1), MCRow(10, 1, 1), MCRow(8, 1, 1), MCRow(7, -1, 1),
             MCRow(0, 0, 0), MCRow(5, 1, 2)}
MCOdd == {i \in DOMAIN tape : tape[i] = NoRow \/ tape[i].mid = 0 \/ tape[i].level = 2}
MCPullback ==
    /\ PullbackNext
    /\ Len(tape') = Len(tape) /\ tape' # tape =>
           /\ Len(tape) = LastSlot /\ records # {} /\ cycle[t2] = NoCycle
           /\ cycle[t1] # NoCycle /\ cycle[t1].pending = {}
           /\ MCOdd # {} /\ MCOdd' = {}
    /\ cycle'[t2] # NoCycle => Len(tape) = LastSlot
    /\ cycle'[t1] # NoCycle => Len(tape) >= 4
    /\ tape' # tape => tape'[1].mid = 5 /\ Cardinality(MCOdd') <= 1

MCInit ==
    /\ subject \in {"ledger", "vault", "pullback"}
    /\ Init /\ VaultInit /\ PullbackInit
    /\ subject # "vault" => \A c \in Callers : call[c] = [build |-> b1, payload |-> i1, auth |-> g1]

MCNext ==
    /\ \/ subject = "ledger" /\ Next
       \/ subject # "ledger" /\ UNCHANGED vars
    /\ \/ subject = "vault" /\ VaultNext
       \/ subject # "vault" /\ UNCHANGED vaultVars
    /\ \/ subject = "pullback" /\ MCPullback
       \/ subject # "pullback" /\ UNCHANGED pullbackVars
    /\ UNCHANGED subject

MCSpec == MCInit /\ [][MCNext]_<<vars, vaultVars, pullbackVars, subject>>
=============================================================================
