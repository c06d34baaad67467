------------------------------ MODULE DayGates ------------------------------
(***************************************************************************)
(* What makes a day-trade candidate: the scores, levels and gates of       *)
(* build_day_candidate of day_worker.py, and beside it the same gates      *)
(* taken apart, build_research_candidate and gate_snapshot of              *)
(* diagnostics_v073.py.                                                    *)
(*                                                                         *)
(* A snapshot is what one analysis of a symbol knows.  Distances on the    *)
(* way of a trade, and RR with them, are in tenths of its risk.            *)
(***************************************************************************)
EXTENDS Integers, FiniteSetsExt

CONSTANT DayCost   \* assumed round-trip cost, in tenths of the risk

ASSUME DayCostAssumption == DayCost \in Nat

DaySides == {"long", "short"}

MinSetup == 70
MinExpansion == 55
MinDirection == 35
MinQuality == 65
MinRr == 18

SnapshotFields ==
    [expansion : 0..100, direction : -100..100, quality : 0..100,
     tradeable : BOOLEAN, shortable : BOOLEAN,
     tiny : BOOLEAN,           \* the risk is below three ticks
     barrier : Nat,            \* tenths of the risk to the nearest barrier, 0 for None
     sweep : {"none", "reclaim", "shift", "volume", "ready"}]   \* how far a sweep has come

-----------------------------------------------------------------------------
(* Validity *)

SideDirection(side, s) == IF side = "long" THEN s.direction ELSE -s.direction

\* The setup score, in hundredths of its weights.
SetupScore(side, s) ==
    (35 * s.expansion + 35 * Max({SideDirection(side, s), 0}) + 30 * s.quality) \div 100

Executable(side, s) == s.tradeable /\ (side = "long" \/ s.shortable)

\* technical_setup_valid.
TechnicalSetup(side, s) ==
    /\ SetupScore(side, s) >= MinSetup
    /\ s.expansion >= MinExpansion
    /\ SideDirection(side, s) >= MinDirection
    /\ s.quality >= MinQuality

\* The second target stands at MinRr net of costs; a barrier in front of it
\* takes its place.
BarrierBeforeTp2(s) == s.barrier # 0 /\ s.barrier < MinRr + DayCost
Reward(s) == IF BarrierBeforeTp2(s) THEN s.barrier ELSE MinRr + DayCost
ExpectedRr(s) == Max({0, Reward(s) - DayCost})
TargetPathValid(s) == ~ BarrierBeforeTp2(s) \/ Max({0, s.barrier - DayCost}) >= MinRr
RrValid(s) == ExpectedRr(s) >= MinRr /\ TargetPathValid(s)

Strict(side, s) == Executable(side, s) /\ TechnicalSetup(side, s) /\ RrValid(s)

-----------------------------------------------------------------------------
(* The gates of the diagnostics *)

Reached(s, stages) == s.sweep \in stages

\* V073_DIAGNOSTIC_SHORT_MODE; the second is the default.
ShortModes == {"disabled", "technical_only", "current_proxy"}

\* The execution gate: a replay knows nothing of past borrowability, so only
\* the mode current_proxy asks for it.
ExecutionModel(mode, side, s) ==
    /\ s.tradeable
    /\ \/ side = "long"
       \/ mode = "technical_only"
       \/ mode = "current_proxy" /\ s.shortable

\* Mutant: the gates without the fifteen-minute structure.
GatesWithout15(mode, side, s) ==
    <<Reached(s, {"reclaim", "shift", "volume", "ready"}), Reached(s, {"shift", "volume", "ready"}),
      Reached(s, {"volume", "ready"}), ~ s.tiny, s.tradeable, ExecutionModel(mode, side, s),
      s.expansion >= MinExpansion, SideDirection(side, s) >= MinDirection, s.quality >= MinQuality,
      SetupScore(side, s) >= MinSetup, TargetPathValid(s), ExpectedRr(s) >= MinRr>>

\* gate_snapshot: the ordered gates.
Gates(mode, side, s) ==
    <<Reached(s, {"reclaim", "shift", "volume", "ready"}),   \* RECLAIM
      Reached(s, {"shift", "volume", "ready"}),              \* STRUCTURE_SHIFT_5M
      Reached(s, {"volume", "ready"}),                       \* VOLUME_1_3X
      Reached(s, {"ready"}),                                 \* STRUCTURE_15M
      ~ s.tiny,                                              \* CANDIDATE_BUILD
      s.tradeable,                                           \* LIQUIDITY_EXECUTION
      ExecutionModel(mode, side, s),                         \* SIDE_EXECUTION_MODEL
      s.expansion >= MinExpansion,
      SideDirection(side, s) >= MinDirection,
      s.quality >= MinQuality,
      SetupScore(side, s) >= MinSetup,
      TargetPathValid(s),
      ExpectedRr(s) >= MinRr>>

\* The first gate that is not passed, 0 if there is none.
FirstGate(gates) ==
    LET failed == {g \in DOMAIN gates : ~ gates[g]}
    IN  IF failed = {} THEN 0 ELSE Min(failed)

\* first_failed_gate, 0 for PASSED_STRICT_TRADE.
FirstFailed(mode, side, s) == FirstGate(Gates(mode, side, s))

\* Mutant: the forward capture keeps the execution gate of the replay.
ForwardAsReplayed(mode, side, s) == Gates(mode, side, s)

\* _apply_current_execution_semantics: the forward capture knows what can be
\* borrowed, and replaces the execution gate of a short.
ForwardGates(mode, side, s) ==
    IF side = "long" THEN Gates(mode, side, s)
    ELSE [Gates(mode, side, s) EXCEPT ![7] = s.tradeable /\ s.shortable]

-----------------------------------------------------------------------------
(* The candidate of one side, as the lists and the reader see it *)

\* The bucket of a candidate that is not strict: the map of entry states for
\* a valid setup, watch_bucket for the others.
Bucket(side, s) ==
    IF TechnicalSetup(side, s)
    THEN IF Executable(side, s) THEN "BARRIER_BLOCKED_VALID_SETUP" ELSE "LIQUIDITY_OR_BORROW_BLOCKED"
    ELSE IF ~ Executable(side, s) THEN "LIQUIDITY_OR_BORROW_BLOCKED"
    ELSE IF ExpectedRr(s) < 10 THEN "POOR_RR"
    ELSE IF SetupScore(side, s) >= 65 /\ ExpectedRr(s) >= 12 THEN "NEAR_STRICT"
    ELSE "LOW_CONVICTION"

\* build_day_candidate, without the trigger.
DayCandidate(symbol, side, s) ==
    [symbol |-> symbol, side |-> side,
     category |-> IF Strict(side, s) THEN "STRICT" ELSE "WATCH_ONLY",
     bucket |-> IF Strict(side, s) THEN "STRICT" ELSE Bucket(side, s),
     setup |-> TechnicalSetup(side, s), score |-> SetupScore(side, s), rr |-> ExpectedRr(s),
     path |-> TargetPathValid(s), executable |-> Executable(side, s),
     direction |-> SideDirection(side, s), quality |-> s.quality]

=============================================================================
