----------------------------- MODULE Statistics -----------------------------
(***************************************************************************)
(* The offline statistics of the research: the reports that select a rule  *)
(* on one part of a dataset and look at it on another one                  *)
(* (research_gate_family_v1.py, research_interactions_v1.py,               *)
(* research_historical_flow_analysis_v2.py), the quartiles of              *)
(* research_dataset_v1.py, the ranks and corrected p-values of the effect  *)
(* tests, and the overfitting and plateau measures of                      *)
(* statistical_robustness.py.                                              *)
(*                                                                         *)
(* Rows are appended in the order of their time; every other computation   *)
(* is asked for once.  Fractions are kept as integers with a common        *)
(* denominator, and nothing is rounded.                                    *)
(***************************************************************************)
EXTENDS Integers, FiniteSets, Sequences, SequencesExt

CONSTANTS
    TrainEnd,     \* end of the first 90 days of DEVELOPMENT
    HoldoutEnd,   \* development_end_at
    LastDay,      \* end of VALIDATION
    Scores,       \* expansion_score of a row
    Nets,         \* base_net_r of a row
    MinTrain,     \* MIN_TRAIN_N, MIN_DISCOVERY_N
    MinHoldout,   \* MIN_HOLDOUT_N, MIN_VALIDATION_N
    MaxRows,      \* bound on the rows of the dataset
    Levels,       \* values that are ranked or cut into quartiles
    MinProfile,   \* sample that a profile needs
    Unit,         \* a p-value of one
    Hypotheses,   \* hypotheses that are tested together
    Blocks,       \* n_blocks of CSCV, each of one observation
    Configs,      \* configurations of a panel
    Returns,      \* what a configuration returns in an observation
    Axis          \* values of a parameter

ASSUME StatisticsAssumption ==
    /\ {TrainEnd, HoldoutEnd, LastDay, MinTrain, MinHoldout, MaxRows, Unit} \subseteq Nat
    /\ Scores \cup Nets \cup Levels \cup Returns \cup Axis \subseteq Int
    /\ Blocks \in Nat /\ Blocks % 2 = 0 /\ Configs \in Nat \ {0}
    /\ Hypotheses \subseteq Int /\ IsFiniteSet(Hypotheses)

VARIABLES
    dataset,  \* the rows of the materialized dataset
    asked,    \* what was asked for, and of what
    answer    \* what was computed

statisticsVars == <<dataset, asked, answer>>

Nothing == [what |-> "nothing"]

StatisticsInit == dataset = << >> /\ asked = Nothing /\ answer = Nothing

TotalOf(values) == FoldSeq(LAMBDA x, y : x + y, 0, values)
Ascending(values) == SortSeq(values, LAMBDA x, y : x < y)
Increasing(set) == SetToSortSeq(set, <)

-----------------------------------------------------------------------------
(* The reports that select a rule *)

\* oi: open interest builds or contracts.  fits: whatever else a rule asks for.
DatasetRow == [day : 0 .. LastDay - 1, score : Scores, oi : {"up", "down"},
               fits : BOOLEAN, net : Nets]

AddRow ==
    /\ asked = Nothing
    /\ Len(dataset) < MaxRows
    /\ \E row \in DatasetRow :
           /\ dataset # << >> => Last(dataset).day <= row.day
           /\ dataset' = Append(dataset, row)
    /\ UNCHANGED <<asked, answer>>

Between(rows, from, to) == SelectSeq(rows, LAMBDA r : from <= r.day /\ r.day < to)

\* Mutant: the holdout is trained on.
TrainToEnd(rows) == Between(rows, 0, HoldoutEnd)

TrainRows(rows) == Between(rows, 0, TrainEnd)
HoldoutRows(rows) == Between(rows, TrainEnd, HoldoutEnd)
DiscoveryRows(rows) == Between(rows, 0, HoldoutEnd)
ValidationRows(rows) == Between(rows, HoldoutEnd, LastDay)

Field(rows, f(_)) == [k \in DOMAIN rows |-> f(rows[k])]
ScoresOf(rows) == Field(rows, LAMBDA r : r.score)
NetsOf(rows) == Field(rows, LAMBDA r : r.net)

\* _quantile, times four, of q quarters.
Quarter(values, q) ==
    LET sorted == Ascending(values)
        position == (Len(values) - 1) * q
        lower == position \div 4 + 1
        weight == position % 4
    IN  IF weight = 0 THEN 4 * sorted[lower]
        ELSE sorted[lower] * (4 - weight) + sorted[lower + 1] * weight

\* A rule is the set of its rows.  high: above the third quartile of learned.
High(learned) ==
    LET quartile == Quarter(ScoresOf(learned), 3)
    IN  {r \in DatasetRow : 4 * r.score > quartile}
Building == {r \in DatasetRow : r.oi = "up"}
Fitting == {r \in DatasetRow : r.fits}

\* build_gate_family_report: confirmations, reward path, both, and both with a
\* high score.
GateRules(learned) ==
    <<Building, Fitting, Building \cap Fitting>>
        \o IF learned = << >> THEN << >> ELSE <<High(learned) \cap Building \cap Fitting>>

\* build_interaction_report: a high score alone, with BTC expanding, with a
\* confirmation in time, and with both.
InteractionRules(learned) ==
    LET high == High(learned)
    IN  <<high, high \cap Building, high \cap Fitting, high \cap Building \cap Fitting>>

\* build_historical_flow_report: a high score with open interest that builds or
\* contracts, with supportive funding, and with both.
FlowRules(learned) ==
    LET high == IF learned = << >> THEN {} ELSE High(learned)
    IN  <<high \cap Building, high \ Building, high \cap Fitting,
          high \cap Building \cap Fitting>>

Selected(rows, rule) == NetsOf(SelectSeq(rows, LAMBDA r : r \in rule))
Complement(rows, rule) == NetsOf(SelectSeq(rows, LAMBDA r : r \notin rule))

\* _evaluate: the uplift of the average over the rest, as a fraction; the
\* denominator is zero if there is none.
Uplift(rows, rule) ==
    LET a == Selected(rows, rule)
        b == Complement(rows, rule)
    IN  [over |-> TotalOf(a) * Len(b) - TotalOf(b) * Len(a), under |-> Len(a) * Len(b)]

\* No uplift is less than any.
Better(u, v) ==
    u.under # 0 /\ (v.under = 0 \/ u.over * v.under > v.over * u.under)

Enough(rows, rules) == {n \in DOMAIN rules : Len(Selected(rows, rules[n])) >= MinTrain}
Comparable(rows, rules) == {n \in Enough(rows, rules) : Uplift(rows, rules[n]).under # 0}

\* The first of the eligible rules with the greatest uplift, or none.
Winner(rows, rules, eligible) ==
    LET uplift == [n \in eligible |-> Uplift(rows, rules[n])]
        best == {n \in eligible : \A k \in eligible : ~ Better(uplift[k], uplift[n])}
    IN  IF best = {} THEN 0 ELSE Min(best)

\* A rule passes with a positive average and more gains than losses, of which
\* there must be some.
Passes(rows, rule) ==
    LET nets == Selected(rows, rule)
        losses == SelectSeq(nets, LAMBDA x : x < 0)
    IN  Len(nets) >= MinHoldout /\ TotalOf(nets) > 0 /\ losses # << >>

\* What a rule that won on some rows does on others.
OnOthers(winner, rules, others) ==
    [winner |-> winner, pass |-> winner # 0 /\ Passes(others, rules[winner])]

GateReport(rows) ==
    LET train == TrainRows(rows)
        rules == GateRules(train)
    IN  OnOthers(Winner(train, rules, Comparable(train, rules)), rules, HoldoutRows(rows))

FlowReport(rows) ==
    LET train == TrainRows(rows)
        rules == FlowRules(train)
    IN  OnOthers(Winner(train, rules, Comparable(train, rules)), rules, HoldoutRows(rows))

\* This report has no holdout in DEVELOPMENT, does not ask for an uplift to
\* compare with, and asks for one in VALIDATION.
InteractionReport(rows) ==
    LET discovery == DiscoveryRows(rows)
        rules == InteractionRules(discovery)
        winner == Winner(discovery, rules, Enough(discovery, rules))
        uplift == Uplift(ValidationRows(rows), rules[winner])
    IN  IF Len(discovery) < MinProfile THEN [winner |-> 0, pass |-> FALSE]
        ELSE [OnOthers(winner, rules, ValidationRows(rows)) EXCEPT
                 !.pass = @ /\ uplift.under # 0 /\ uplift.over > 0]

-----------------------------------------------------------------------------
(* Quartiles *)

\* Mutant: the cuts are learned on all there is.
CutsOfAll(discovery, validation) == [q \in 1 .. 3 |-> Quarter(discovery \o validation, q)]

\* profile_numeric_feature: the cuts are learned on discovery alone.
Cuts(discovery, validation) == [q \in 1 .. 3 |-> Quarter(discovery, q)]

\* _bin
Bin(x, cuts) == Min({q \in 1 .. 3 : 4 * x <= cuts[q]} \cup {4})

Profile ==
    \E D, V \in SUBSET Levels :
        /\ Cardinality(D) >= MinProfile
        /\ asked = Nothing /\ dataset = << >>
        /\ asked' = [what |-> "profile", discovery |-> D, validation |-> V]
        /\ LET cuts == Cuts(Increasing(D), Increasing(V))
           IN  answer' = [bins |-> [x \in D \cup V |-> Bin(x, cuts)]]
        /\ UNCHANGED dataset

-----------------------------------------------------------------------------
(* Ranks and p-values *)

\* Mutant: tied values all have the first of their positions.
TwiceFirstPlace(values) ==
    LET sorted == Ascending(values)
    IN  [k \in DOMAIN values |-> 2 * SelectInSeq(sorted, LAMBDA x : x = values[k])]

\* _ranks, times two: tied values share the mean of their positions.
TwiceRanks(values) ==
    LET sorted == Ascending(values)
        places(x) == {p \in DOMAIN sorted : sorted[p] = x}
    IN  [k \in DOMAIN values |-> Min(places(values[k])) + Max(places(values[k]))]

Rank ==
    \E values \in BoundedSeq(Levels, 4) :
        /\ asked = Nothing /\ dataset = << >>
        /\ asked' = [what |-> "ranks", values |-> values]
        /\ answer' = [ranks |-> TwiceRanks(values)]
        /\ UNCHANGED dataset

\* Mutant: a p-value may be less than one before it.
HolmUnordered(p) ==
    [h \in Hypotheses |->
        Min({Unit, p[h] * Cardinality({g \in Hypotheses : p[g] > p[h] \/ (p[g] = p[h] /\ g >= h)})})]

\* _holm_adjust: p-values in their order, each times the number that is left,
\* and never less than one before it.
Holm(p) ==
    LET m == Cardinality(Hypotheses)
        place == [h \in Hypotheses |->
                     Cardinality({g \in Hypotheses : p[g] < p[h] \/ (p[g] = p[h] /\ g < h)})]
        adjusted == [h \in Hypotheses |-> Min({Unit, (m - place[h]) * p[h]})]
    IN  [h \in Hypotheses |-> Max({adjusted[g] : g \in {f \in Hypotheses : place[f] <= place[h]}})]

Correct ==
    \E p \in [Hypotheses -> 0 .. Unit] :
        /\ asked = Nothing /\ dataset = << >>
        /\ asked' = [what |-> "holm", p |-> p]
        /\ answer' = [adjusted |-> Holm(p)]
        /\ UNCHANGED dataset

-----------------------------------------------------------------------------
(* Overfitting and plateaus *)

\* The metric "mean", without its denominator.
Metrics(panel, blocks) ==
    [c \in 1 .. Configs |-> FoldSet(LAMBDA b, sum : panel[b][c] + sum, 0, blocks)]

\* The selected configuration is the first with the greatest metric.
InSampleBest(metrics) ==
    Min({c \in DOMAIN metrics : \A d \in DOMAIN metrics : metrics[d] <= metrics[c]})

\* _average_ascending_rank, times two.
TwiceAverageRank(values, c) ==
    LET less == Cardinality({d \in DOMAIN values : values[d] < values[c]})
        equal == Cardinality({d \in DOMAIN values : values[d] = values[c]})
    IN  2 + 2 * less + (equal - 1)

Splits == kSubset(Blocks \div 2, 1 .. Blocks)

\* Mutant: the rank is taken where the selection was.
OverfitInside(panel, inside) ==
    LET metrics == Metrics(panel, inside)
    IN  TwiceAverageRank(metrics, InSampleBest(metrics)) < Configs + 1

\* The logit of the relative rank is negative.
Overfit(panel, inside) ==
    LET selected == InSampleBest(Metrics(panel, inside))
    IN  TwiceAverageRank(Metrics(panel, (1 .. Blocks) \ inside), selected) < Configs + 1

\* probability_backtest_overfitting, without its denominator.
Pbo(panel) == Cardinality({inside \in Splits : Overfit(panel, inside)})

CrossValidate ==
    \E panel \in [1 .. Blocks -> [1 .. Configs -> Returns]] :
        /\ asked = Nothing /\ dataset = << >>
        /\ asked' = [what |-> "pbo", panel |-> panel]
        /\ answer' = [overfit |-> Pbo(panel)]
        /\ UNCHANGED dataset

\* _value_order and the coordinates of analyze_parameter_surface.
Values(grid, d) == Increasing({c[d] : c \in grid})
Coordinate(grid, c) == [d \in 1 .. 2 |-> SelectInSeq(Values(grid, d), LAMBDA v : v = c[d])]

\* Mutant: a step is one in the value of the parameter.
NeighborsByValue(grid, selected) ==
    {c \in grid : <<c[1] - selected[1], c[2] - selected[2]>>
                      \in {<<0, 1>>, <<1, 0>>, <<0, -1>>, <<-1, 0>>}}

\* The configurations one step from the selected one on an axis.
Neighbors(grid, selected) ==
    LET at == Coordinate(grid, selected)
        steps == {[at EXCEPT ![d] = at[d] + s] : d \in 1 .. 2, s \in {-1, 1}}
    IN  {c \in grid : Coordinate(grid, c) \in steps}

Survey ==
    \E grid \in SUBSET (Axis \X Axis) : \E selected \in grid :
        /\ asked = Nothing /\ dataset = << >>
        /\ asked' = [what |-> "surface", grid |-> grid, selected |-> selected]
        /\ answer' = [neighbors |-> Neighbors(grid, selected)]
        /\ UNCHANGED dataset

StatisticsNext == AddRow \/ Profile \/ Rank \/ Correct \/ CrossValidate \/ Survey

StatisticsSpec == StatisticsInit /\ [][StatisticsNext]_statisticsVars

-----------------------------------------------------------------------------
(* Properties *)

\* Rows after the training part change neither the rule nor what was learned for
\* it, and rows after the holdout change no verdict of the reports that have one.
SelectionIsBlind ==
    [][dataset' # dataset =>
       /\ Between(dataset', 0, TrainEnd) = Between(dataset, 0, TrainEnd) =>
              /\ GateReport(dataset').winner = GateReport(dataset).winner
              /\ FlowReport(dataset').winner = FlowReport(dataset).winner
       /\ Between(dataset', 0, HoldoutEnd) = Between(dataset, 0, HoldoutEnd) =>
              /\ GateReport(dataset') = GateReport(dataset)
              /\ FlowReport(dataset') = FlowReport(dataset)
              /\ InteractionReport(dataset').winner = InteractionReport(dataset).winner
      ]_dataset

\* The quartiles of the discovery sample are as even as its size allows, and
\* those of any other value follow from its order among them.
QuartilesAreEven ==
    asked.what = "profile" =>
        LET size(q) == Cardinality({x \in asked.discovery : answer.bins[x] = q})
        IN  /\ \A q, k \in 1 .. 4 : size(q) <= size(k) + 1
            /\ \A x, y \in DOMAIN answer.bins : x <= y => answer.bins[x] <= answer.bins[y]

\* The ranks of the effect tests are those of the overfitting measure, and of a
\* sample without ties they are its order.
RanksAgree ==
    asked.what = "ranks" =>
        \A k \in DOMAIN answer.ranks : answer.ranks[k] = TwiceAverageRank(asked.values, k)

\* Hypotheses that are rejected together are those of closed testing with
\* Bonferroni's test: any set of hypotheses with a rejected one in it is rejected.
HolmIsClosedTesting ==
    asked.what = "holm" =>
        \A h \in Hypotheses, level \in 0 .. Unit - 1 :
            (answer.adjusted[h] <= level) <=>
                \A S \in SUBSET Hypotheses :
                    h \in S => \E g \in S : Cardinality(S) * asked.p[g] <= level

\* A split counts as overfit if out of sample more configurations beat the
\* selected one than it beats; one that is best everywhere never does.
OverfitIsBeaten ==
    asked.what = "pbo" =>
        /\ answer.overfit = Cardinality({outside \in Splits :
               LET inside == (1 .. Blocks) \ outside
                   c == InSampleBest(Metrics(asked.panel, inside))
                   out == Metrics(asked.panel, outside)
               IN  Cardinality({d \in 1 .. Configs : out[d] > out[c]})
                       > Cardinality({d \in 1 .. Configs : out[d] < out[c]})})
        /\ (\E c \in 1 .. Configs : \A b \in 1 .. Blocks, d \in 1 .. Configs \ {c} :
                 asked.panel[b][d] < asked.panel[b][c]) => answer.overfit = 0

\* A neighbour differs in one parameter, with no value of any configuration
\* between.
NeighborsAreAdjacent ==
    asked.what = "surface" =>
        answer.neighbors = {c \in asked.grid : \E d \in 1 .. 2 :
                     /\ c[d] # asked.selected[d] /\ c[3 - d] = asked.selected[3 - d]
                     /\ \A other \in asked.grid :
                            ~ (c[d] < other[d] /\ other[d] < asked.selected[d])
                            /\ ~ (asked.selected[d] < other[d] /\ other[d] < c[d])}

\* The offline statistics measure what they say, and select on nothing else.
StatisticsAreExact ==
    /\ [](QuartilesAreEven /\ RanksAgree /\ HolmIsClosedTesting)
    /\ [](OverfitIsBeaten /\ NeighborsAreAdjacent)
    /\ SelectionIsBlind
=============================================================================
