----------------------------- MODULE SwingScan -----------------------------
(***************************************************************************)
(* The swing radar: a pass of worker.py, the cached scan it commits, and   *)
(* the answer of GET /v1/top-candidates, which reads that scan twice.      *)
(*                                                                         *)
(* A score is kept as the band the code compares it with.  The shape of an *)
(* analysed symbol is                                                      *)
(*   side       the sign of direction_score, "neutral" below 10            *)
(*   strength   its size: 1 from 10, 2 from 20, 3 from 35                  *)
(*   score      setup_score: 0 below 55, 1 below 70, then 2 and above      *)
(*   solid      expansion_score >= 55 and quality_score >= 60              *)
(*   tradeable  turnover and spread are good enough for execution          *)
(*   borrow     the base coin can be borrowed for a short                  *)
(* Symbols are numbered by their place in the universe.                    *)
(***************************************************************************)
EXTENDS Naturals, FiniteSets

CONSTANTS
    SwingSymbols,  \* the candidates of the universe, by turnover
    SwingShapes,   \* the shapes a symbol may have
    Discovery,     \* DISCOVERY_SYMBOLS among them
    Fields,        \* COINALYZE_REQUIRED_FIELDS, one endpoint each
    CompactLimit,  \* DEFAULT_COMPACT_LIMIT, what the worker makes room for
    AnswerLimit,   \* the largest limit a client may ask for
    ScanLimit,     \* how many setups of a side the scan lists
    WatchLimit,    \* how many the extended watchlist lists
    EnrichLimit,   \* COINALYZE_ENRICH_LIMIT, the rate budget
    MaxPasses      \* bound on the worker passes

ASSUME SwingAssumption ==
    /\ SwingSymbols \subseteq Nat /\ IsFiniteSet(SwingSymbols)
    /\ Discovery \subseteq SwingSymbols
    /\ {CompactLimit, AnswerLimit, ScanLimit, WatchLimit, EnrichLimit, MaxPasses} \subseteq Nat

VARIABLES
    swingAt,   \* where the pass is: "idle", "borrow", "target", "enrich", "commit"
    passes,    \* passes begun so far; the number of the one that runs
    draft,     \* what the pass has found
    swingScan, \* the cached scan of the last commit, or NoScan
    reply      \* the answer that GET /v1/top-candidates is putting together

swingVars == <<swingAt, passes, draft, swingScan, reply>>

Sides == {"long", "short"}
NoDerivatives == [s \in SwingSymbols |-> {}]
EmptyDraft == [shape |-> <<>>, shortable |-> {}, targets |-> {},
               derivatives |-> NoDerivatives, errors |-> FALSE]
NoScan == [asOf |-> 0]
NoReply == [asOf |-> 0, limit |-> 0, shown |-> {}, joined |-> 0]

-----------------------------------------------------------------------------
(* The lists of a pass d: its analysed symbols are DOMAIN d.shape *)

\* The first n elements of S in the order that Before gives.
FirstOf(n, S, Before(_, _)) ==
    {x \in S : Cardinality({y \in S : Before(y, x)}) < n}

\* build_setup: the sides a symbol can be traded on.
SideExecutable(d, s, side) ==
    /\ d.shape[s].tradeable
    /\ d.shape[s].side = side
    /\ d.shape[s].strength >= 2
    /\ d.shape[s].score >= 1
    /\ side = "short" => s \in d.shortable

Executables(d) ==
    {s \in DOMAIN d.shape : \E side \in Sides : SideExecutable(d, s, side)}

\* Sorted by setup_score, the sort being stable.
Better(d, s, t) ==
    \/ d.shape[s].score > d.shape[t].score
    \/ d.shape[s].score = d.shape[t].score /\ s < t

\* The setups of a side the scan lists.
Listed(d, side) ==
    LET Before(s, t) == Better(d, s, t)
    IN  FirstOf(ScanLimit, {s \in DOMAIN d.shape : SideExecutable(d, s, side)}, Before)

\* rank_watchlist: the discovery symbols come first.
WatchBefore(d, s, t) ==
    \/ s \in Discovery /\ t \notin Discovery
    \/ (s \in Discovery <=> t \in Discovery) /\ Better(d, s, t)

\* extended_watchlist, and every symbol that is liquidity-blocked.
Watched(d) ==
    LET rest == DOMAIN d.shape \ Executables(d)
        Before(s, t) == WatchBefore(d, s, t)
    IN  FirstOf(WatchLimit, rest, Before) \cup {s \in rest : ~d.shape[s].tradeable}

\* is_strict_swing_candidate, _strict_candidate
StrictOnes(d, side) ==
    {s \in Listed(d, side) :
        d.shape[s].score >= 2 /\ d.shape[s].solid /\ d.shape[s].strength = 3}

\* The watched symbols of a side that are strict on neither.
WatchOnes(d, side) ==
    {s \in Watched(d) \ (StrictOnes(d, "long") \cup StrictOnes(d, "short")) :
        d.shape[s].side = side}

\* The watch candidates by setup_score; of equal ones the combined list decides.
ShownBefore(d, s, t) ==
    \/ d.shape[s].score > d.shape[t].score
    \/ d.shape[s].score = d.shape[t].score /\ WatchBefore(d, s, t)

\* _get_top_candidates: the first of each section, of the cached lists.
Surfaced(d, limit, withWatch) ==
    LET Best(s, t) == Better(d, s, t)
        Before(s, t) == ShownBefore(d, s, t)
        section(side) ==
            FirstOf(limit, StrictOnes(d, side), Best) \cup
            (IF withWatch THEN FirstOf(limit, WatchOnes(d, side), Before) ELSE {})
    IN  section("long") \cup section("short")

\* Mutant: the worker's copy of the rule forgets the liquidity-blocked symbols.
PrioritySymbolsTradeable(d) ==
    {s \in Surfaced(d, CompactLimit, TRUE) : d.shape[s].tradeable}

\* select_compact_priority_sections: the same rule, on the lists of the worker
\* before the enrichment.
PrioritySymbols(d) ==
    LET Best(s, t) == Better(d, s, t)
        Before(s, t) == ShownBefore(d, s, t)
        section(side) == FirstOf(CompactLimit, StrictOnes(d, side), Best) \cup
                         FirstOf(CompactLimit, WatchOnes(d, side), Before)
    IN  UNION {section(side) : side \in Sides}

-----------------------------------------------------------------------------
(* A pass of the worker *)

SwingInit ==
    /\ swingAt = "idle"
    /\ passes = 0
    /\ draft = EmptyDraft
    /\ swingScan = NoScan
    /\ reply = NoReply

\* The symbols that are selected, promoted by momentum and fetched in full are
\* analysed.  Without any the pass ends with an error.
Analyse ==
    /\ swingAt = "idle"
    /\ passes < MaxPasses
    /\ passes' = passes + 1
    /\ \E analysed \in SUBSET SwingSymbols : \E shape \in [analysed -> SwingShapes] :
          /\ draft' = [EmptyDraft EXCEPT !.shape = shape]
          /\ swingAt' = IF analysed = {} THEN "idle" ELSE "borrow"
    /\ UNCHANGED <<swingScan, reply>>

\* apply_shortability: without the margin data nothing is shortable.
ApplyShortability ==
    /\ swingAt = "borrow"
    /\ \E known \in BOOLEAN :
          draft' = [draft EXCEPT !.shortable =
                       {s \in DOMAIN draft.shape : known /\ draft.shape[s].borrow}]
    /\ swingAt' = "target"
    /\ UNCHANGED <<passes, swingScan, reply>>

\* The remaining budget goes by setup_score, five points more for discovery.
Secondary(d, n, rest) ==
    LET worth(s) == 2 * d.shape[s].score + (IF s \in Discovery THEN 1 ELSE 0)
        Before(s, t) == worth(s) > worth(t) \/ (worth(s) = worth(t) /\ s < t)
    IN  FirstOf(n, rest, Before)

\* select_coinalyze_targets: what the compact answer will show comes first;
\* when that alone exceeds the budget, the whole pass fails.
SelectTargets ==
    LET priority == PrioritySymbols(draft)
        room == EnrichLimit - Cardinality(priority)
    IN  /\ swingAt = "target"
        /\ \/ /\ Cardinality(priority) > EnrichLimit
              /\ swingAt' = "idle"
              /\ UNCHANGED draft
           \/ /\ Cardinality(priority) <= EnrichLimit
              /\ draft' = [draft EXCEPT !.targets =
                    priority \cup Secondary(draft, room, DOMAIN draft.shape \ priority)]
              /\ swingAt' = "enrich"
        /\ UNCHANGED <<passes, swingScan, reply>>

\* enrich_coinalyze(partial_safe=True): each endpoint fails alone, answers for
\* some of the targets that have a market, and the others keep their answers.
\* With mutate_scores=False no score changes.
\* Without the list of markets there is no answer at all.
EnrichSwing ==
    /\ swingAt = "enrich"
    /\ \E failed \in SUBSET Fields, nameless \in BOOLEAN :
       \E answers \in [draft.targets -> SUBSET (Fields \ failed)] :
          LET all == [s \in SwingSymbols |->
                         IF s \in draft.targets THEN answers[s] ELSE {}]
          IN  draft' = [draft EXCEPT !.derivatives = all,
                                     !.errors = failed # {} \/ nameless]
    /\ swingAt' = "commit"
    /\ UNCHANGED <<passes, swingScan, reply>>

\* persist_results: one transaction.
CommitScan ==
    /\ swingAt = "commit"
    /\ swingScan' = [asOf |-> passes, d |-> draft]
    /\ swingAt' = "idle"
    /\ draft' = EmptyDraft
    /\ UNCHANGED <<passes, reply>>

\* A request fails for good, or a statement raises: nothing is committed.
AbortPass ==
    /\ swingAt # "idle"
    /\ swingAt' = "idle"
    /\ draft' = EmptyDraft
    /\ UNCHANGED <<passes, swingScan, reply>>

-----------------------------------------------------------------------------
(* GET /v1/top-candidates *)

HasScan == swingScan # NoScan

\* repo.get_top_candidates: the ranking, from the cached scan.
RankCandidates ==
    /\ HasScan
    /\ \E limit \in 1..AnswerLimit, withWatch \in BOOLEAN :
          reply' = [asOf |-> swingScan.asOf, limit |-> limit, joined |-> 0,
                    shown |-> Surfaced(swingScan.d, limit, withWatch)]
    /\ UNCHANGED <<swingAt, passes, draft, swingScan>>

\* The symbols of which the cached scan has a row with derivatives.
WithDerivatives ==
    {s \in DOMAIN swingScan.d.shape : swingScan.d.derivatives[s] # {}}

\* attach_swing_candidate_derivatives: the cached scan is read again.
AttachDerivatives ==
    /\ reply.asOf # 0
    /\ reply.joined = 0
    /\ reply' = [reply EXCEPT !.joined =
                    IF reply.shown \cap WithDerivatives = {} THEN reply.asOf
                    ELSE swingScan.asOf]
    /\ UNCHANGED <<swingAt, passes, draft, swingScan>>

SwingNext ==
    \/ Analyse \/ ApplyShortability \/ SelectTargets \/ EnrichSwing
    \/ CommitScan \/ AbortPass
    \/ RankCandidates \/ AttachDerivatives

SwingSpec == SwingInit /\ [][SwingNext]_swingVars

-----------------------------------------------------------------------------
(* Properties *)

\* "GOOD" in _derivatives_status: no endpoint failed and no field is missing.
GoodDerivatives(d, s) == d.derivatives[s] = Fields /\ ~d.errors

\* The returned flag of enrich_coinalyze, the status "ok" of the source.
SourceOk(d) == ~d.errors /\ \A s \in d.targets : d.derivatives[s] = Fields

\* What an answer shows, up to the compact limit, was given a share of the
\* Coinalyze budget, and when the source is ok its derivatives are complete:
\* the worker ranks before the enrichment, the API after it, in two pieces of
\* code ("Select the exact symbol set surfaced by swing getTopCandidates
\* semantics", select_compact_priority_sections).  A scan that is committed
\* between the two reads of a request breaks the tie between the two, and so
\* does a limit above the one the worker makes room for.
AnswerIsCovered ==
    LET d == swingScan.d IN
    HasScan /\ reply.asOf = swingScan.asOf /\ reply.joined = swingScan.asOf /\ reply.limit <= CompactLimit
        => /\ reply.shown \subseteq d.targets
           /\ SourceOk(d) => \A s \in reply.shown : GoodDerivatives(d, s)

=============================================================================
