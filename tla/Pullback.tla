------------------------------ MODULE Pullback ------------------------------
(* Controlled-pullback research v2, for one symbol: beside the recorder, a  *)
(* task loads the last bucket rows every interval, looks for an impulse, a  *)
(* controlled pullback and the reacceleration of the flow, and inserts what *)
(* it finds one row after the other into an append-only table. A standby    *)
(* recorder runs the same task, and either may stop between two rows. The   *)
(* recorder may have written a row of a bucket that is not complete, and    *)
(* replaces it later, so that two cycles may see different rows.            *)
(* Returns are differences of prices, spread and depth are one level.       *)
EXTENDS Integers, Sequences, FiniteSets, FiniteSetsExt

CONSTANTS
    Tasks,            \* processes that run the task
    Shapes,           \* what a bucket row may hold; a mid of 0 is NULL
    LastSlot,         \* BOUND: buckets of the tape
    Lookback,         \* LOOKBACK_SECONDS, in buckets like all that follows
    ImpulseLength,    \* MOMENTUM_LOOKBACK_SECONDS
    BaseLength,       \* PRE_IMPULSE_BASELINE_SECONDS
    PullbackSearch, ReaccelSearch, Cooldown,
    ForwardStart,     \* first bucket close that may trigger
    MinMove,          \* momentum_mid_return_60s_abs_min
    MinRetrace, MaxRetrace \* in per cent of the leg

ASSUME PullbackAssumption ==
    /\ {Lookback, ImpulseLength, BaseLength, PullbackSearch, ReaccelSearch} \subseteq Nat
    /\ {LastSlot, ForwardStart, MinRetrace, MaxRetrace} \subseteq Nat
    /\ Cooldown \in Nat \ {0} /\ MinMove \in Nat \ {0}
    /\ \A b \in Shapes : b.mid \in Nat

VARIABLES
    tape,     \* tape[i]: bucket row i, or NoRow
    records,  \* research_controlled_pullback_v2_records
    cycle     \* per task: the rows it has loaded, and those still to insert

pullbackVars == <<tape, records, cycle>>

NoRow == [mid |-> -1]
NoCycle == [rows |-> <<>>, pending |-> {}]
Slots == 1..LastSlot

----------------------------------------------------------------------------
\* The detector, on the loaded rows r: a function of the slots that have one.

Toward(d) == IF d = "long" THEN 1 ELSE -1
Displacement(r, i) == r[i].mid - r[i - ImpulseLength].mid
Direction(r, i) == IF Displacement(r, i) > 0 THEN "long" ELSE "short"
BaseSlots(i) == (i - ImpulseLength - BaseLength)..(i - ImpulseLength - 1)

\* Bucket i ends a move of one minute, after a complete minute of baseline,
\* with the flow on its side and a book all along. A level of 0 is no book.
Impulse(r, i) ==
    /\ i \in DOMAIN r /\ i + 1 >= ForwardStart
    /\ i - ImpulseLength \in DOMAIN r /\ BaseSlots(i) \subseteq DOMAIN r
    /\ Displacement(r, i) >= MinMove \/ -Displacement(r, i) >= MinMove
    /\ Toward(Direction(r, i)) * r[i].flow > 0
    /\ \A j \in BaseSlots(i) \cup {i} : r[j].level > 0

\* An impulse is a candidate unless one of the last minute already is.
ImpulseCandidates(r) ==
    LET upTo[i \in 0..LastSlot] ==
            IF i = 0 THEN {}
            ELSE LET before == upTo[i - 1]
                 IN  IF Impulse(r, i) /\ \A c \in before : i - c >= Cooldown
                     THEN before \cup {i} ELSE before
    IN upTo[LastSlot]

\* The median of the baseline: the least level that half of it does not exceed.
BaseLevel(r, c) ==
    Min({r[j].level : j \in {k \in BaseSlots(c) :
            2 * Cardinality({n \in BaseSlots(c) : r[n].level <= r[k].level}) >= BaseLength}})

Given(r, c, j) == Toward(Direction(r, c)) * (r[c].mid - r[j].mid)
Leg(r, c) == Toward(Direction(r, c)) * Displacement(r, c)

\* From the impulse c on, bucket j is there, beyond the origin, and has not
\* given back too much of the leg.
Holds(r, c, j) ==
    j \in DOMAIN r /\ Given(r, c, j) < Leg(r, c)
        /\ 100 * Given(r, c, j) <= MaxRetrace * Leg(r, c)

Controlled(r, c, j) ==
    /\ \A k \in (c + 1)..j : Holds(r, c, k)
    /\ 100 * Given(r, c, j) >= MinRetrace * Leg(r, c)
    /\ r[j].level > 0 /\ r[j].level >= BaseLevel(r, c)
Pullbacks(r, c) == {j \in (c + 1)..(c + PullbackSearch) : Controlled(r, c, j)}

\* Mutant: the path to the reacceleration is not looked at.
ReacceleratesBlindly(r, c, p, j) ==
    j \in DOMAIN r /\ Toward(Direction(r, c)) * r[j].flow > 0

Reaccelerates(r, c, p, j) ==
    /\ \A k \in (p + 1)..j : Holds(r, c, k)
    /\ Toward(Direction(r, c)) * r[j].flow > 0
Reaccelerations(r, c) ==
    IF Pullbacks(r, c) = {} THEN {}
    ELSE LET p == Min(Pullbacks(r, c))
         IN {j \in (p + 1)..(p + ReaccelSearch) : Reaccelerates(r, c, p, j)}

Momentum(r, c) ==
    [class |-> "MOMENTUM_ONLY", side |-> Direction(r, c), impulse |-> c, trigger |-> c + 1]
\* What its cycle saw is history: the record keeps figures of these rows only.
PullbackEvent(r, c) ==
    [class |-> "CONTROLLED_PULLBACK", side |-> Direction(r, c), impulse |-> c,
     trigger |-> Min(Reaccelerations(r, c)) + 1, saw |-> r]

\* The events, by candidate: none within the cooldown of the last one, for the
\* impulse and for the trigger.
Events(r) ==
    LET upTo[i \in 0..LastSlot] ==
            IF i = 0 THEN {}
            ELSE LET before == upTo[i - 1]
                 IN  IF /\ i \in ImpulseCandidates(r) /\ Reaccelerations(r, i) # {}
                        /\ \A e \in before : i + 1 - e.trigger >= Cooldown
                        /\ \A e \in before : PullbackEvent(r, i).trigger - e.trigger >= Cooldown
                     THEN before \cup {PullbackEvent(r, i)} ELSE before
    IN upTo[LastSlot]

----------------------------------------------------------------------------
\* The runtime.

WindowStart(now) == Max({ForwardStart - ImpulseLength - BaseLength, now - Lookback, 1})
LoadedRows(from, to) == [i \in {n \in from..to : tape[n] # NoRow} |-> tape[i]]

PullbackInit ==
    /\ tape = <<>> /\ records = {}
    /\ cycle = [t \in Tasks |-> NoCycle]

\* The recorder writes the row of the next bucket, complete or forced out
\* before its end, or has none for it.
Record ==
    /\ Len(tape) < LastSlot
    /\ \E b \in Shapes \cup {NoRow} : tape' = Append(tape, b)
    /\ UNCHANGED <<records, cycle>>

\* UPSERT_SQL replaces a row, or adds one that was left out: the rest of a
\* bucket that was forced out, a late message, or another recorder's bucket.
Rewrite ==
    /\ \E i \in 1..Len(tape), b \in Shapes : b # tape[i] /\ tape' = [tape EXCEPT ![i] = b]
    /\ UNCHANGED <<records, cycle>>

\* One row without a mid fails the cycle, which leaves nothing to insert.
LoadWindow(t) ==
    LET r == LoadedRows(WindowStart(Len(tape) + 1), Len(tape))
    IN /\ cycle[t].pending = {} /\ Len(tape) > 0
       /\ cycle' = [cycle EXCEPT ![t] =
              IF \E i \in DOMAIN r : r[i].mid = 0 THEN NoCycle
              ELSE [rows |-> r, pending |-> {Momentum(r, c) : c \in ImpulseCandidates(r)} \cup Events(r)]]
       /\ UNCHANGED <<tape, records>>

\* Mutant: the events are inserted first.
PrecedesSwapped(x, y) ==
    IF x.class = y.class THEN x.trigger <= y.trigger ELSE x.class # "MOMENTUM_ONLY"

\* The rows of a cycle: the comparators first, then the events, in time order.
Precedes(x, y) ==
    IF x.class = y.class THEN x.trigger <= y.trigger ELSE x.class = "MOMENTUM_ONLY"
SameKey(x, y) == x.class = y.class /\ x.side = y.side /\ x.trigger = y.trigger

InsertNext(t) ==
    \E x \in cycle[t].pending :
        /\ \A y \in cycle[t].pending : Precedes(x, y)
        /\ records' = IF \E y \in records : SameKey(x, y) THEN records ELSE records \cup {x}
        /\ cycle' = [cycle EXCEPT ![t].pending = @ \ {x}]
        /\ UNCHANGED tape

\* An error, a kill or the end of the service: the rows not inserted are gone.
Abandon(t) ==
    /\ cycle[t].pending # {}
    /\ cycle' = [cycle EXCEPT ![t] = NoCycle]
    /\ UNCHANGED <<tape, records>>

PullbackNext == Record \/ Rewrite \/ \E t \in Tasks : LoadWindow(t) \/ InsertNext(t) \/ Abandon(t)
PullbackSpec == PullbackInit /\ [][PullbackNext]_pullbackVars

----------------------------------------------------------------------------
StoredOf(class) == {x \in records : x.class = class}

\* An event never stands in the table without the momentum-only row that it
\* is compared with, whatever cycle of whatever task stopped in between.
ComparatorIsStored ==
    \A e \in StoredOf("CONTROLLED_PULLBACK") : \E m \in StoredOf("MOMENTUM_ONLY") :
        m.impulse = e.impulse /\ m.side = e.side

\* In the rows its cycle had loaded, a stored event has every bucket between
\* its impulse and its trigger; no price has crossed the origin, some price has
\* pulled back, and none too far: opposite_structure_break_definition. The tape
\* may say otherwise later, for its rows are replaced and the event stays.
SequenceIsIntact ==
    \A e \in StoredOf("CONTROLLED_PULLBACK") :
        LET r == e.saw IN
        /\ \A j \in e.impulse..(e.trigger - 1) : Holds(r, e.impulse, j)
        /\ \E j \in (e.impulse + 1)..(e.trigger - 2) :
               100 * Given(r, e.impulse, j) >= MinRetrace * Leg(r, e.impulse)

\* Every impulse that a finished cycle saw is stored as a comparator, or one
\* of the cooldown before it is: the momentum sample leaves out no episode,
\* although each cycle starts its cooldown anew, windows overlap, and a row may
\* have been another one in the cycle before.
ImpulsesAreRepresented ==
    \A t \in Tasks : cycle[t].pending = {} =>
        \A i \in DOMAIN cycle[t].rows : Impulse(cycle[t].rows, i) =>
            \E m \in StoredOf("MOMENTUM_ONLY") : i + 1 - m.trigger \in 0..(Cooldown - 1)

\* The prospective sample is sound.
PullbackSampleIsSound == ComparatorIsStored /\ SequenceIsIntact /\ ImpulsesAreRepresented
=============================================================================
