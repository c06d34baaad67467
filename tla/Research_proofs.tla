--------------------------- MODULE Research_proofs ---------------------------
(***************************************************************************)
(* Proofs about the research side: the capture of context layers and the   *)
(* freeze of a signal's context (ContextFreeze), the barrier study and the *)
(* funnel (ForwardSidecar), and the controlled-pullback sample (Pullback). *)
(***************************************************************************)
EXTENDS ContextFreeze, ForwardSidecar, Pullback, Extrema, FiniteSetTheorems, SequenceTheorems, TLAPS

------------------------------------------------------------------------------
(* Context layers: the type invariant.                                      *)

Names ==
    {"market_regime", "relative_strength", "sector_rotation", "btc_onchain", "eth_onchain",
     "geopolitical_risk", "geopolitical_event", "btc_macro_cycle_etf", "liquidation_context",
     "derivatives_positioning", "event_tokenomics", "cross_v1", "cross_v2",
     "none", "clock", "provider", "append", "upsert", "store"}
Parts == SUBSET [layer : Names, captured : Int]
Captures == [layer : Names, captured : Int, seen : Int, parts : Parts, inserted : Nat]
Calls == [layer : Names, todo : Seq(Names), captured : Int, seen : Int, parts : Parts]

LayersTypeOK ==
    /\ tick \in Nat /\ begun \in Nat
    /\ table \subseteq Captures /\ history \subseteq Captures
    /\ job \in [Jobs -> Calls]

\* Steps that write nothing.
Plain(s) == s \in Seq(Names) /\ \A i \in 1..Len(s) : s[i] # "upsert"

\* The history is appended just before the table is replaced.
InOrder(s) ==
    /\ s \in Seq(Names)
    /\ \A i \in 1..Len(s) : s[i] = "upsert" => i > 1 /\ s[i - 1] = "append"

\* Two runs of steps that write nothing make one.
LEMMA PlainJoined ==
    ASSUME NEW s, NEW t, Plain(s), Plain(t)
    PROVE  Plain(s \o t)
<1>1. s \in Seq(Names) /\ t \in Seq(Names)
  BY DEF Plain
<1>2. /\ s \o t \in Seq(Names) /\ Len(s \o t) = Len(s) + Len(t)
      /\ \A i \in 1..Len(s) + Len(t) : (s \o t)[i] = IF i <= Len(s) THEN s[i] ELSE t[i - Len(s)]
  BY <1>1, ConcatProperties
<1>3. ASSUME NEW i \in 1..Len(s) + Len(t) PROVE (s \o t)[i] # "upsert"
  <2>1. CASE i <= Len(s)
    BY <1>1, <1>2, <2>1 DEF Plain
  <2>2. CASE i > Len(s)
    <3>1. i - Len(s) \in 1..Len(t)
      BY <1>1, <2>2
    <3> QED BY <1>1, <1>2, <2>2, <3>1 DEF Plain
  <2> QED BY <1>1, <2>1, <2>2
<1> QED BY <1>2, <1>3 DEF Plain

\* A script that ends with its persistence appends before it replaces.
LEMMA PersistLast ==
    ASSUME NEW s, Plain(s)
    PROVE  InOrder(s \o Persist)
<1>1. s \in Seq(Names) /\ Persist \in Seq(Names) /\ Len(Persist) = 2
      /\ Persist[1] = "append" /\ Persist[2] = "upsert"
  <2>1. "append" \in Names /\ "upsert" \in Names
    BY DEF Names
  <2> QED BY <2>1 DEF Plain, Persist
<1>2. /\ s \o Persist \in Seq(Names) /\ Len(s \o Persist) = Len(s) + 2
      /\ \A i \in 1..Len(s) + 2 :
            (s \o Persist)[i] = IF i <= Len(s) THEN s[i] ELSE Persist[i - Len(s)]
  <2>1. \A t \in Seq(Names) :
            /\ s \o t \in Seq(Names) /\ Len(s \o t) = Len(s) + Len(t)
            /\ \A i \in 1..Len(s) + Len(t) :
                  (s \o t)[i] = IF i <= Len(s) THEN s[i] ELSE t[i - Len(s)]
    BY <1>1, ConcatProperties
  <2> QED BY <1>1, <2>1, Zenon
<1>3. ASSUME NEW i \in 1..Len(s) + 2, (s \o Persist)[i] = "upsert"
      PROVE  i > 1 /\ (s \o Persist)[i - 1] = "append"
  <2>1. i > Len(s)
    BY <1>1, <1>2, <1>3 DEF Plain
  <2>2. i = Len(s) + 1 \/ i = Len(s) + 2
    BY <1>1, <2>1
  <2>3. i = Len(s) + 2
    BY <1>1, <1>2, <1>3, <2>1, <2>2
  <2> QED BY <1>1, <1>2, <2>3
<1> QED BY <1>2, <1>3 DEF InOrder

\* Up to four steps, none of them a replacement, write nothing.
LEMMA PlainSteps ==
    ASSUME NEW v \in Names, NEW x \in Names, NEW y \in Names, NEW z \in Names,
           "upsert" \notin {v, x, y, z}
    PROVE  Plain(<<>>) /\ Plain(<<v>>) /\ Plain(<<v, x>>) /\ Plain(<<v, x, y>>)
           /\ Plain(<<v, x, y, z>>)
<1>1. /\ <<>> \in Seq(Names) /\ <<v>> \in Seq(Names) /\ <<v, x>> \in Seq(Names)
      /\ <<v, x, y>> \in Seq(Names) /\ <<v, x, y, z>> \in Seq(Names)
  OBVIOUS
<1> QED BY <1>1 DEF Plain

\* Every script, whatever is deployed, appends before it replaces.
LEMMA ScriptsInOrder == \A l \in Layers : InOrder(Script[l])
<1>1. \A v, x, y, z \in Names : "upsert" \notin {v, x, y, z} =>
          /\ Plain(<<>>) /\ Plain(<<v>>) /\ Plain(<<v, x>>) /\ Plain(<<v, x, y>>)
          /\ Plain(<<v, x, y, z>>)
  BY PlainSteps
<1>2. \A l \in Names \ {"upsert"} : Plain(Reads(l))
  BY <1>1 DEF Reads
<1> DEFINE Read == {"market_regime", "derivatives_positioning", "relative_strength",
                    "sector_rotation", "event_tokenomics", "btc_macro_cycle_etf", "btc_onchain",
                    "eth_onchain", "liquidation_context", "clock", "provider", "store"}
<1>3. Read \subseteq Names \ {"upsert"}
  BY DEF Names
<1>4. Plain(SourcesV1) /\ Plain(SourcesV2)
  BY <1>2, <1>3, PlainJoined DEF SourcesV1, SourcesV2
<1>5. Plain(<<"clock">>) /\ Plain(<<"clock", "provider">>) /\ Plain(<<"provider", "clock">>)
      /\ Plain(<<"market_regime", "clock", "provider">>)
      /\ Plain(<<"market_regime", "liquidation_context", "clock">>)
      /\ Plain(<<"clock", "market_regime", "provider", "store">>)
  <2>1. \A v, x, y, z \in Read : Plain(<<v>>) /\ Plain(<<v, x>>) /\ Plain(<<v, x, y>>)
                                 /\ Plain(<<v, x, y, z>>)
    <3> HIDE DEF Read
    <3>1. SUFFICES ASSUME NEW v \in Read, NEW x \in Read, NEW y \in Read, NEW z \in Read
                   PROVE  /\ Plain(<<v>>) /\ Plain(<<v, x>>) /\ Plain(<<v, x, y>>)
                          /\ Plain(<<v, x, y, z>>)
      BY Zenon
    <3>2. v \in Names /\ x \in Names /\ y \in Names /\ z \in Names
      BY <1>3, Zenon
    <3>3. "upsert" \notin {v, x, y, z}
      BY <1>3
    <3> QED BY <1>1, <3>2, <3>3, Zenon
  <2>2. /\ "clock" \in Read /\ "provider" \in Read /\ "market_regime" \in Read
        /\ "liquidation_context" \in Read /\ "store" \in Read
    OBVIOUS
  <2> HIDE DEF Read
  <2> QED BY <2>1, <2>2, Zenon
<1>6. InOrder(CrossV1) /\ InOrder(CrossV2)
  BY <1>5, <1>4, PlainJoined, PersistLast DEF CrossV1, CrossV2
<1>7. InOrder(EventTokenomics)
  BY <1>5 DEF Plain, InOrder, EventTokenomics
<1>8. /\ InOrder(MarketRegime) /\ InOrder(RelativeStrength) /\ InOrder(SectorRotation)
      /\ InOrder(BtcOnchain) /\ InOrder(EthOnchain) /\ InOrder(GeopoliticalRisk)
      /\ InOrder(GeopoliticalEvent) /\ InOrder(BtcMacro) /\ InOrder(Liquidation)
      /\ InOrder(Derivatives)
  BY <1>5, PersistLast DEF MarketRegime, RelativeStrength, SectorRotation, BtcOnchain, EthOnchain,
     GeopoliticalRisk, GeopoliticalEvent, BtcMacro, Liquidation, Derivatives
<1> QED BY <1>6, <1>7, <1>8 DEF Layers, Script

\* The newest of some captures, as long as there is one.
LEMMA NewestIs ==
    ASSUME NEW rows, rows # {}, NEW high \in Int,
           \A r \in rows : r.captured \in Int /\ r.captured <= high
    PROVE  Newest(rows) \in rows /\ \A r \in rows : r.captured <= Newest(rows).captured
<1> DEFINE stamps == {r.captured : r \in rows}
<1>1. stamps \in SUBSET Int /\ stamps # {} /\ \A x \in stamps : x <= high
  OBVIOUS
<1>2. PICK x \in stamps : \A y \in stamps : y <= x
  BY <1>1, GreatestInteger
<1>3. PICK r \in rows : r.captured = x
  BY <1>2
<1>4. \A s \in rows : s.captured <= r.captured
  BY <1>2, <1>3
<1> QED BY <1>3, <1>4 DEF Newest

------------------------------------------------------------------------------
(* Context layers: the inductive invariant.                                 *)

\* What a call has collected, whenever it is written.
CallRow(c) ==
    [layer |-> c.layer, captured |-> c.captured, seen |-> c.seen, parts |-> c.parts, inserted |-> 0]

Timely(r) == r.layer \in Cross => \A p \in r.parts : p.captured <= r.captured

\* A replacement follows an append.
Ordered(s) == \A i \in 1..Len(s) - 1 : s[i + 1] = "upsert" => s[i] = "append"

\* A call at its replacement has its snapshot in the history.
CallHolds(c, rows, now) ==
    /\ Ordered(c.todo)
    /\ (c.todo # <<>> /\ Head(c.todo) = "upsert") =>
          \E h \in rows : [h EXCEPT !.inserted = 0] = CallRow(c)
    /\ Timely(c) /\ Absent <= c.captured /\ c.captured <= now

RowHolds(r, now) ==
    Timely(r) /\ Absent <= r.captured /\ r.captured <= now /\ r.inserted <= now

LayersInv ==
    /\ LayersTypeOK
    /\ \A j \in Jobs : CallHolds(job[j], history, tick)
    /\ \A r \in table \cup history : RowHolds(r, tick)
    /\ NoCaptureIsLost

\* The next step of a call in order.
LEMMA NextStep ==
    ASSUME NEW s \in Seq(Names), s # <<>>, Ordered(s)
    PROVE  /\ Tail(s) \in Seq(Names) /\ Ordered(Tail(s))
           /\ (Tail(s) # <<>> /\ Head(Tail(s)) = "upsert") => Head(s) = "append"
<1>1. /\ Tail(s) \in Seq(Names) /\ Len(Tail(s)) = Len(s) - 1 /\ Len(s) \in Nat \ {0}
      /\ \A i \in 1..Len(s) - 1 : Tail(s)[i] = s[i + 1]
      /\ Head(s) = s[1]
  BY HeadTailProperties, EmptySeq
<1>2. Ordered(Tail(s))
  BY <1>1 DEF Ordered
<1>3. ASSUME Tail(s) # <<>>, Head(Tail(s)) = "upsert" PROVE Head(s) = "append"
  <2>1. Len(Tail(s)) \in Nat \ {0} /\ Head(Tail(s)) = Tail(s)[1]
    BY <1>1, <1>3, EmptySeq
  <2>2. 1 \in 1..Len(s) - 1 /\ s[1 + 1] = "upsert"
    BY <1>1, <1>3, <2>1
  <2> QED BY <1>1, <2>2 DEF Ordered
<1> QED BY <1>1, <1>2, <1>3

\* What held of a call or a row holds later.
LEMMA CallHoldsLater ==
    ASSUME NEW c, NEW rows, NEW more, NEW now \in Int, NEW later \in Int, rows \subseteq more,
           now <= later, c.captured \in Int, CallHolds(c, rows, now)
    PROVE  CallHolds(c, more, later)
BY DEF CallHolds

\* What holds of a row holds of it later.
LEMMA RowHoldsLater ==
    ASSUME NEW r \in Captures, NEW now \in Int, NEW later \in Int, now <= later, RowHolds(r, now)
    PROVE  RowHolds(r, later)
BY DEF RowHolds, Captures

\* The row of a call has its layer, its clock and its parts.
LEMMA RowOfIs ==
    ASSUME LayersTypeOK, NEW c \in Calls
    PROVE  /\ RowOf(c) \in Captures
           /\ RowOf(c).layer = c.layer /\ RowOf(c).captured = c.captured
           /\ RowOf(c).inserted = tick
           /\ [RowOf(c) EXCEPT !.inserted = 0] = CallRow(c)
           /\ Timely(c) => Timely(RowOf(c))
BY DEF RowOf, CallRow, Calls, Captures, LayersTypeOK, Timely

\* The history after an append holds the row appended, if it is accepted.
LEMMA AppendedIs ==
    ASSUME LayersInv, NEW c \in Calls, CallHolds(c, history, tick), Accepted(RowOf(c))
    PROVE  \E h \in Appended(RowOf(c)) : [h EXCEPT !.inserted = 0] = CallRow(c)
<1>1. [RowOf(c) EXCEPT !.inserted = 0] = CallRow(c)
  BY RowOfIs DEF LayersInv
<1>2. CASE SameCapture(RowOf(c)) = {}
  BY <1>1, <1>2 DEF Appended
<1>3. CASE SameCapture(RowOf(c)) # {}
  BY <1>1, <1>3 DEF Appended, Accepted, SamePayload, SameCapture
<1> QED BY <1>2, <1>3

\* A step of call j that adds to the history at most rows that hold, and to
\* the table at most rows that are in the history then.
LEMMA LayersInvAfter ==
    ASSUME LayersInv, NEW j \in Jobs, NEW c,
           job' = [job EXCEPT ![j] = c], tick' = tick, begun' \in Nat,
           c \in Calls, CallHolds(c, history', tick),
           history \subseteq history',
           \A r \in history' \ history : r \in Captures /\ RowHolds(r, tick),
           \A r \in table' \ table : /\ r \in Captures /\ RowHolds(r, tick)
                                     /\ \E h \in history' : SamePayload(h, r)
    PROVE  LayersInv'
<1>1. LayersTypeOK'
  <2>1. history' \subseteq Captures /\ table' \subseteq Captures
    BY DEF LayersInv, LayersTypeOK
  <2>2. job' \in [Jobs -> Calls] /\ tick' \in Nat
    BY DEF LayersInv, LayersTypeOK
  <2> QED BY <2>1, <2>2 DEF LayersTypeOK
<1>2. ASSUME NEW k \in Jobs PROVE CallHolds(job'[k], history', tick)
  <2>1. CASE k = j
    BY <2>1 DEF LayersInv, LayersTypeOK
  <2>2. CASE k # j
    <3>1. job'[k] = job[k] /\ job[k].captured \in Int /\ CallHolds(job[k], history, tick)
      BY <2>2 DEF LayersInv, LayersTypeOK, Calls
    <3>2. tick \in Int /\ tick <= tick
      BY DEF LayersInv, LayersTypeOK
    <3> QED BY <3>1, <3>2, CallHoldsLater
  <2> QED BY <2>1, <2>2
<1>3. \A r \in table' \cup history' : RowHolds(r, tick)
  BY DEF LayersInv
<1>4. NoCaptureIsLost'
  BY DEF LayersInv, NoCaptureIsLost
<1> QED BY <1>1, <1>2, <1>3, <1>4 DEF LayersInv

\* The context layers begin in their invariant.
LEMMA LayersInitial == LayersInit => LayersInv
<1> SUFFICES ASSUME LayersInit PROVE LayersInv
  OBVIOUS
<1>1. NoJob \in Calls
  BY EmptySeq DEF NoJob, Calls, Names, Parts, Absent
<1>2. LayersTypeOK
  BY <1>1 DEF LayersInit, LayersTypeOK
<1>3. \A j \in Jobs : CallHolds(job[j], history, tick)
  BY EmptySeq DEF LayersInit, CallHolds, NoJob, Absent, Ordered, Timely
<1> QED BY <1>2, <1>3 DEF LayersInit, LayersInv, NoCaptureIsLost

\* A call that is over.
LEMMA NoJobHolds ==
    ASSUME NEW rows, NEW now \in Nat
    PROVE  NoJob \in Calls /\ CallHolds(NoJob, rows, now)
BY EmptySeq DEF NoJob, Calls, Names, Parts, Absent, CallHolds, Ordered, Timely

\* A call that goes on without writing.
LEMMA CallGoesOn ==
    ASSUME LayersInv, NEW j \in Jobs, NEW c \in Calls, NEW rows, c.todo = job[j].todo,
           c.todo # <<>>, Timely(c), Absent <= c.captured, c.captured <= tick,
           Head(c.todo) = "append" => \E h \in rows : [h EXCEPT !.inserted = 0] = CallRow(c)
    PROVE  /\ [c EXCEPT !.todo = Tail(@)] \in Calls
           /\ CallHolds([c EXCEPT !.todo = Tail(@)], rows, tick)
<1> DEFINE d == [c EXCEPT !.todo = Tail(@)]
<1>1. c.todo \in Seq(Names) /\ Ordered(c.todo)
  BY DEF LayersInv, CallHolds, Calls
<1>2. /\ Tail(c.todo) \in Seq(Names) /\ Ordered(Tail(c.todo))
      /\ (Tail(c.todo) # <<>> /\ Head(Tail(c.todo)) = "upsert") => Head(c.todo) = "append"
  BY <1>1, NextStep
<1>3. /\ d \in Calls /\ d.todo = Tail(c.todo) /\ d.captured = c.captured
      /\ CallRow(d) = CallRow(c) /\ Timely(d)
  BY <1>2 DEF Calls, CallRow, Timely
<1> QED BY <1>2, <1>3 DEF CallHolds

\* Every step of the captures keeps the invariant of the layers.
LEMMA LayersStep == LayersInv /\ [CaptureNext \/ Tick]_layerVars => LayersInv'
<1> SUFFICES ASSUME LayersInv, [CaptureNext \/ Tick]_layerVars PROVE LayersInv'
  OBVIOUS
<1> USE DEF LayersTypeOK
<1>t. LayersTypeOK /\ tick \in Nat
  BY DEF LayersInv
<1>n. NoJob \in Calls /\ CallHolds(NoJob, history', tick) /\ CallHolds(NoJob, history, tick)
  BY <1>t, NoJobHolds
<1>1. ASSUME NEW j \in Jobs, NEW l \in Layers, BeginCapture(j, l) PROVE LayersInv'
  <2> DEFINE c == [NoJob EXCEPT !.layer = l, !.todo = Script[l]]
  <2>1. InOrder(c.todo) /\ c.todo = Script[l] /\ c.captured = Absent /\ c.parts = {}
    BY ScriptsInOrder DEF NoJob
  <2>2. c \in Calls
    <3>1. l \in Names
      BY DEF Names, Layers, Script
    <3> QED BY <1>n, <2>1, <3>1 DEF NoJob, Calls, InOrder
  <2>3. c.todo # <<>> => Head(c.todo) = c.todo[1] /\ 1 \in 1..Len(c.todo)
    BY <2>1, HeadTailProperties, EmptySeq DEF InOrder
  <2>4. Ordered(c.todo)
    <3> SUFFICES ASSUME NEW i \in 1..Len(c.todo) - 1, c.todo[i + 1] = "upsert"
                 PROVE  c.todo[i] = "append"
      BY DEF Ordered
    <3>1. i + 1 \in 1..Len(c.todo) /\ (i + 1) - 1 = i
      BY <2>1 DEF InOrder
    <3> QED BY <2>1, <3>1 DEF InOrder
  <2>5. CallHolds(c, history, tick)
    <3>1. ~ (c.todo # <<>> /\ Head(c.todo) = "upsert")
      <4> HIDE DEF c
      <4> QED BY <2>1, <2>3 DEF InOrder
    <3>2. Timely(c) /\ Absent <= c.captured /\ c.captured <= tick
      <4>1. Timely(c)
        <5> HIDE DEF c
        <5> QED BY <2>1 DEF Timely
      <4> QED BY <4>1, <2>1, <1>t DEF Absent
    <3> HIDE DEF c
    <3> QED BY <2>4, <3>1, <3>2 DEF CallHolds
  <2>6. job' = [job EXCEPT ![j] = c] /\ tick' = tick /\ begun' \in Nat /\ history' = history
        /\ table' = table
    BY <1>1, <1>t DEF BeginCapture
  <2> HIDE DEF c
  <2> QED BY <2>2, <2>5, <2>6, LayersInvAfter
<1>2. ASSUME NEW j \in Jobs, ReadClock(j) PROVE LayersInv'
  <2> DEFINE c == [job[j] EXCEPT !.captured = tick]
             d == [c EXCEPT !.todo = Tail(@)]
  <2>1. c \in Calls /\ c.todo = job[j].todo /\ c.todo # <<>> /\ Head(c.todo) = "clock"
        /\ Absent <= c.captured /\ c.captured = tick /\ c.captured <= tick
    <3>1. job[j].todo # <<>> /\ Head(job[j].todo) = "clock"
      BY <1>2 DEF ReadClock, Calling
    <3>2. job[j] \in Calls /\ tick \in Int
      BY <1>t
    <3>3. c \in Calls /\ c.todo = job[j].todo /\ c.captured = tick
      BY <3>2 DEF Calls
    <3>4. Absent <= tick /\ tick <= tick
      BY <1>t DEF Absent
    <3> HIDE DEF c
    <3> QED BY <3>1, <3>3, <3>4
  <2>2. Timely(c)
    BY <1>t DEF LayersInv, CallHolds, Timely, Calls, Parts
  <2>3. d \in Calls /\ CallHolds(d, history, tick)
    <3> HIDE DEF c
    <3> QED BY <1>t, <2>1, <2>2, CallGoesOn
  <2>4. job' = [job EXCEPT ![j] = d] /\ tick' = tick /\ begun' \in Nat /\ history' = history
        /\ table' = table
    BY <1>2, <1>t DEF ReadClock, Goes
  <2> HIDE DEF d
  <2> QED BY <2>3, <2>4, LayersInvAfter
<1>3. ASSUME NEW j \in Jobs, AskProviders(j) PROVE LayersInv'
  <2> DEFINE c == [job[j] EXCEPT !.seen = tick]
             d == [c EXCEPT !.todo = Tail(@)]
  <2>1. c \in Calls /\ c.todo = job[j].todo /\ c.todo # <<>> /\ Head(c.todo) = "provider"
        /\ Absent <= c.captured /\ c.captured = job[j].captured /\ c.captured <= tick
    BY <1>3, <1>t DEF AskProviders, Calling, Calls, LayersInv, CallHolds
  <2>2. Timely(c)
    BY <1>t DEF LayersInv, CallHolds, Timely, Calls
  <2>3. d \in Calls /\ CallHolds(d, history, tick)
    <3> HIDE DEF c
    <3> QED BY <1>t, <2>1, <2>2, CallGoesOn
  <2>4. job' = [job EXCEPT ![j] = d] /\ tick' = tick /\ begun' \in Nat /\ history' = history
        /\ table' = table
    BY <1>3, <1>t DEF AskProviders, Goes
  <2> HIDE DEF d
  <2> QED BY <2>3, <2>4, LayersInvAfter
<1>4. ASSUME NEW j \in Jobs, NEW l \in Layers, ReadLayer(j, l) PROVE LayersInv'
  <2> DEFINE rows == Readable(job[j], l)
             c == [job[j] EXCEPT !.parts = @ \cup {[layer |-> l, captured |-> Newest(rows).captured]}]
             d(e) == [e EXCEPT !.todo = Tail(@)]
  <2>1. job[j] \in Calls /\ job[j].todo # <<>> /\ Head(job[j].todo) = l /\ l # "append"
        /\ Timely(job[j]) /\ Absent <= job[j].captured /\ job[j].captured <= tick
    BY <1>4, <1>t DEF ReadLayer, Calling, LayersInv, CallHolds, Layers, Script
  <2>l. l \in Names
    BY DEF Names, Layers, Script
  <2>2. tick' = tick /\ begun' \in Nat /\ history' = history /\ table' = table
    BY <1>4, <1>t DEF ReadLayer
  <2>3. CASE rows # {}
    <3>1. \A r \in rows : r.captured \in Int /\ r.captured <= tick
                          /\ (job[j].layer \in Cross => r.captured <= job[j].captured)
      BY <1>t DEF Readable, TableOf, LayersInv, RowHolds, Captures
    <3>2. Newest(rows) \in rows
      <4> HIDE DEF rows
      <4> QED BY <1>t, <2>3, <3>1, NewestIs
    <3>3. Newest(rows).captured \in Int
          /\ (job[j].layer \in Cross => Newest(rows).captured <= job[j].captured)
      BY <3>1, <3>2
    <3> HIDE DEF rows
    <3>4. c \in Calls /\ c.todo = job[j].todo /\ c.layer = job[j].layer
          /\ c.captured = job[j].captured
          /\ c.parts = job[j].parts \cup {[layer |-> l, captured |-> Newest(rows).captured]}
      BY <2>1, <2>l, <3>3 DEF Calls, Parts
    <3>5. Timely(c)
      BY <2>1, <3>3, <3>4 DEF Timely
    <3>6. job' = [job EXCEPT ![j] = d(c)]
      BY <1>4, <2>3 DEF ReadLayer, Goes, rows
    <3> HIDE DEF c
    <3>7. d(c) \in Calls /\ CallHolds(d(c), history, tick)
      BY <2>1, <3>4, <3>5, CallGoesOn
    <3> HIDE DEF d
    <3> QED BY <2>2, <3>6, <3>7, LayersInvAfter
  <2>4. CASE rows = {} /\ ~ Required(job[j], l)
    <3>1. d(job[j]) \in Calls /\ CallHolds(d(job[j]), history, tick)
      BY <2>1, CallGoesOn
    <3>2. job' = [job EXCEPT ![j] = d(job[j])]
      BY <1>4, <2>4 DEF ReadLayer, Goes
    <3> HIDE DEF d
    <3> QED BY <2>2, <3>1, <3>2, LayersInvAfter
  <2>5. CASE rows = {} /\ Required(job[j], l)
    <3>1. job' = [job EXCEPT ![j] = NoJob]
      BY <1>4, <2>5 DEF ReadLayer
    <3> QED BY <1>n, <2>2, <3>1, LayersInvAfter
  <2> QED BY <2>3, <2>4, <2>5
<1>5. ASSUME NEW j \in Jobs, AppendHistory(j) PROVE LayersInv'
  <2> DEFINE row == RowOf(job[j])
             d == [job[j] EXCEPT !.todo = Tail(@)]
  <2>1. job[j] \in Calls /\ job[j].todo # <<>> /\ CallHolds(job[j], history, tick)
        /\ Timely(job[j]) /\ Absent <= job[j].captured /\ job[j].captured <= tick
    BY <1>5, <1>t DEF AppendHistory, Calling, LayersInv, CallHolds
  <2>2. row \in Captures /\ RowHolds(row, tick)
    BY <1>t, <2>1, RowOfIs DEF RowHolds, Captures
  <2>3. tick' = tick /\ begun' \in Nat /\ history' = Appended(row) /\ table' = table
    BY <1>5, <1>t DEF AppendHistory
  <2>4. history \subseteq history' /\ \A r \in history' \ history : r = row
    BY <2>3 DEF Appended
  <2>5. CASE Accepted(row)
    <3>1. \E h \in history' : [h EXCEPT !.inserted = 0] = CallRow(job[j])
      BY <2>1, <2>3, <2>5, AppendedIs
    <3>2. d \in Calls /\ CallHolds(d, history', tick)
      BY <2>1, <3>1, CallGoesOn
    <3>3. job' = [job EXCEPT ![j] = d]
      BY <1>5, <2>5 DEF AppendHistory, Goes
    <3> HIDE DEF d, row
    <3> QED BY <2>2, <2>3, <2>4, <3>2, <3>3, LayersInvAfter
  <2>6. CASE ~ Accepted(row)
    <3>1. job' = [job EXCEPT ![j] = NoJob]
      BY <1>5, <2>6 DEF AppendHistory
    <3> HIDE DEF row
    <3> QED BY <1>n, <2>2, <2>3, <2>4, <3>1, LayersInvAfter
  <2> QED BY <2>5, <2>6
<1>6. ASSUME NEW j \in Jobs, Upsert(j) PROVE LayersInv'
  <2> DEFINE row == RowOf(job[j])
  <2>1. job[j] \in Calls /\ CallHolds(job[j], history, tick)
        /\ Timely(job[j]) /\ Absent <= job[j].captured /\ job[j].captured <= tick
        /\ \E h \in history : [h EXCEPT !.inserted = 0] = CallRow(job[j])
    BY <1>6, <1>t DEF Upsert, Calling, LayersInv, CallHolds
  <2>2. row \in Captures /\ RowHolds(row, tick) /\ \E h \in history : SamePayload(h, row)
    <3>1. row \in Captures /\ row.captured = job[j].captured /\ row.inserted = tick /\ Timely(row)
          /\ [row EXCEPT !.inserted = 0] = CallRow(job[j])
      BY <1>t, <2>1, RowOfIs
    <3> HIDE DEF row
    <3>2. \E h \in history : SamePayload(h, row)
      BY <2>1, <3>1, Zenon DEF SamePayload
    <3> QED BY <1>t, <2>1, <3>1, <3>2 DEF RowHolds
  <2>3. tick' = tick /\ begun' \in Nat /\ history' = history /\ table' = Replaced(row)
        /\ job' = [job EXCEPT ![j] = NoJob]
    BY <1>6, <1>t DEF Upsert
  <2>4. \A r \in table' \ table : r = row
    BY <2>3 DEF Replaced
  <2> HIDE DEF row
  <2> QED BY <1>n, <2>2, <2>3, <2>4, LayersInvAfter
<1>7. ASSUME NEW j \in Jobs, Store(j) PROVE LayersInv'
  <2> DEFINE row == RowOf(job[j])
  <2>1. job[j] \in Calls /\ CallHolds(job[j], history, tick)
        /\ Timely(job[j]) /\ Absent <= job[j].captured /\ job[j].captured <= tick
    BY <1>7, <1>t DEF LayersInv, CallHolds
  <2>2. row \in Captures /\ RowHolds(row, tick) /\ [row EXCEPT !.inserted = 0] = CallRow(job[j])
    BY <1>t, <2>1, RowOfIs DEF RowHolds, Captures
  <2>3. tick' = tick /\ begun' \in Nat /\ job' = [job EXCEPT ![j] = NoJob]
    BY <1>7, <1>t DEF Store
  <2>4. CASE Accepted(row)
    <3>1. history' = Appended(row) /\ table' = Replaced(row)
      BY <1>7, <2>4 DEF Store
    <3>2. history \subseteq history' /\ \A r \in history' \ history : r = row
      BY <3>1 DEF Appended
    <3>3. \A r \in table' \ table : r = row
      BY <3>1 DEF Replaced
    <3>4. \E h \in history' : SamePayload(h, row)
      BY <2>1, <2>2, <2>4, <3>1, AppendedIs DEF SamePayload
    <3> HIDE DEF row
    <3> QED BY <1>n, <2>2, <2>3, <3>2, <3>3, <3>4, LayersInvAfter
  <2>5. CASE ~ Accepted(row)
    <3>1. history' = history /\ table' = table
      BY <1>7, <2>5 DEF Store
    <3> QED BY <1>n, <2>3, <3>1, LayersInvAfter
  <2> QED BY <2>4, <2>5
<1>8. ASSUME NEW j \in Jobs, FailCapture(j) PROVE LayersInv'
  <2>1. tick' = tick /\ begun' \in Nat /\ job' = [job EXCEPT ![j] = NoJob]
        /\ history' = history /\ table' = table
    BY <1>8, <1>t DEF FailCapture
  <2> QED BY <1>n, <2>1, LayersInvAfter
<1>9. ASSUME Tick PROVE LayersInv'
  <2>1. tick' = tick + 1 /\ tick' \in Int /\ tick \in Int /\ tick <= tick'
        /\ table' = table /\ history' = history /\ job' = job /\ begun' = begun
    BY <1>9, <1>t DEF Tick
  <2>2. LayersTypeOK'
    BY <1>t, <2>1
  <2>3. \A j \in Jobs : CallHolds(job[j], history, tick')
    <3> SUFFICES ASSUME NEW j \in Jobs PROVE CallHolds(job[j], history, tick')
      OBVIOUS
    <3>1. job[j].captured \in Int /\ CallHolds(job[j], history, tick)
      BY <1>t DEF LayersInv, Calls
    <3> QED BY <2>1, <3>1, CallHoldsLater
  <2>4. \A r \in table \cup history : RowHolds(r, tick')
    BY <1>t, <2>1, RowHoldsLater DEF LayersInv
  <2>5. NoCaptureIsLost'
    BY <2>1 DEF LayersInv, NoCaptureIsLost
  <2> QED BY <2>1, <2>2, <2>3, <2>4, <2>5 DEF LayersInv
<1>10. CASE UNCHANGED layerVars
  <2>1. table' = table /\ history' = history /\ job' = job /\ begun' = begun /\ tick' = tick
    BY <1>10 DEF layerVars
  <2>2. LayersTypeOK' /\ NoCaptureIsLost'
    BY <1>t, <2>1 DEF LayersInv, NoCaptureIsLost
  <2> QED BY <2>1, <2>2 DEF LayersInv
<1> QED BY <1>1, <1>2, <1>3, <1>4, <1>5, <1>6, <1>7, <1>8, <1>9, <1>10 DEF CaptureNext

\* The history only grows, by rows inserted now; the clock does not go back.
LEMMA HistoryGrows ==
    ASSUME LayersInv, [CaptureNext \/ Tick]_layerVars
    PROVE  /\ history \subseteq history' /\ \A r \in history' \ history : r.inserted = tick
           /\ tick <= tick' /\ tick' \in Nat
<1> USE DEF LayersTypeOK
<1>t. tick \in Nat
  BY DEF LayersInv
<1>1. ASSUME NEW j \in Jobs, AppendHistory(j) \/ Store(j)
      PROVE  history' \in {history, history \cup {RowOf(job[j])}} /\ tick' = tick
  BY <1>1 DEF AppendHistory, Store, Appended
<1>2. \A j \in Jobs : RowOf(job[j]).inserted = tick
  BY DEF RowOf
<1>3. ASSUME NEW j \in Jobs, NEW l \in Layers,
             BeginCapture(j, l) \/ ReadLayer(j, l) \/ ReadClock(j) \/ AskProviders(j) \/ Upsert(j)
                \/ FailCapture(j)
      PROVE  history' = history /\ tick' = tick
  BY <1>3 DEF BeginCapture, ReadLayer, ReadClock, AskProviders, Upsert, FailCapture
<1>4. Tick => history' = history /\ tick' = tick + 1
  BY DEF Tick
<1>5. (UNCHANGED layerVars) => history' = history /\ tick' = tick
  BY DEF layerVars
<1>6. ASSUME NEW j \in Jobs, ReadClock(j) \/ AskProviders(j) \/ Upsert(j) \/ FailCapture(j)
      PROVE  history' = history /\ tick' = tick
  BY <1>6 DEF ReadClock, AskProviders, Upsert, FailCapture
<1> QED BY <1>t, <1>1, <1>2, <1>3, <1>4, <1>5, <1>6 DEF CaptureNext

------------------------------------------------------------------------------
(* The freeze: the type invariant and the inductive invariant.              *)

Crosses == {<<>>} \cup {<<r>> : r \in Captures}
FreezeRows ==
    [opened : Nat, at : Int, cross : Crosses,
     status : {"MISSING", "FUTURE_REJECTED", "FRESH", "STALE"}]
FreezeCalls ==
    [version : Versions \cup {"none"}, pc : {"idle", "start", "select", "load", "insert"},
     at : Int, start : Int, todo : SUBSET Nat, cross : Crosses]

FreezeTypeOK ==
    /\ opened \subseteq Nat
    /\ frozen \in [Versions -> SUBSET FreezeRows]
    /\ freezer \in [Freezers -> FreezeCalls]

\* The capture found for a signal opened at time by a call that began at at:
\* not of the signal's future and, in version 3, the newest of what the
\* history held when the call began.
Fits(cross, version, time, at, rows) ==
    /\ cross # <<>> => cross[1].captured <= time
    /\ version = "v3" =>
          /\ cross # <<>> /\ cross[1] \in rows /\ cross[1].layer = "cross_v2"
          /\ \A h \in rows :
                (h.layer = "cross_v2" /\ h.captured <= time /\ h.inserted < at)
                    => h.captured <= cross[1].captured

FreezerHolds(c, rows, now) ==
    /\ c.at <= now
    /\ (c.pc \in {"select", "load", "insert"} /\ c.version = "v3" /\ c.start # Absent) =>
          \E h \in rows : h.layer = "cross_v2" /\ h.captured = c.start
    /\ c.pc \in {"load", "insert"} => c.todo # {} /\ c.start # Absent /\ \A t \in c.todo : c.start <= t
    /\ c.pc = "insert" => Fits(c.cross, c.version, Min(c.todo), c.at, rows)

FrozenHolds(row, version, rows, now) ==
    /\ row.at <= now /\ row.status = CrossStatus(row.cross, row.opened)
    /\ Fits(row.cross, version, row.opened, row.at, rows)

FreezeInv ==
    /\ FreezeTypeOK
    /\ \A f \in Freezers : FreezerHolds(freezer[f], history, tick)
    /\ \A v \in Versions : \A row \in frozen[v] : FrozenHolds(row, v, history, tick)

ContextInv == LayersInv /\ FreezeInv

\* The best capture stays the best when later ones are added.
LEMMA FitsLater ==
    ASSUME NEW cross \in Crosses, NEW version, NEW time \in Int, NEW at \in Int, NEW rows, NEW more,
           rows \subseteq more, \A r \in more : r.inserted \in Int,
           \A r \in more \ rows : at <= r.inserted, Fits(cross, version, time, at, rows)
    PROVE  Fits(cross, version, time, at, more)
BY DEF Fits

\* A freeze call that is over, or has just begun.
LEMMA NoFreezeHolds ==
    ASSUME NEW rows, NEW now \in Nat
    PROVE  NoFreeze \in FreezeCalls /\ FreezerHolds(NoFreeze, rows, now)
BY DEF NoFreeze, FreezeCalls, Crosses, Absent, FreezerHolds

\* The freeze begins in its invariant.
LEMMA FreezeInitial == LayersInv /\ FreezeInit => FreezeInv
<1> SUFFICES ASSUME LayersInv, FreezeInit PROVE FreezeInv
  OBVIOUS
<1>1. NoFreeze \in FreezeCalls /\ FreezerHolds(NoFreeze, history, tick)
  BY NoFreezeHolds DEF LayersInv, LayersTypeOK
<1> QED BY <1>1 DEF FreezeInit, FreezeInv, FreezeTypeOK

\* A step of the layers leaves the freeze as it is.
LEMMA FreezeInvLater ==
    ASSUME LayersInv, LayersInv', FreezeInv, UNCHANGED freezeVars, [CaptureNext \/ Tick]_layerVars
    PROVE  FreezeInv'
<1>1. /\ history \subseteq history' /\ \A r \in history' \ history : r.inserted = tick
      /\ tick <= tick' /\ tick' \in Nat /\ tick \in Nat
  BY HistoryGrows DEF LayersInv, LayersTypeOK
<1>2. \A r \in history' : r.inserted \in Int
  BY DEF LayersInv, LayersTypeOK, Captures
<1>3. FreezeTypeOK' /\ frozen' = frozen /\ freezer' = freezer /\ FreezeTypeOK
  BY DEF FreezeInv, FreezeTypeOK, freezeVars
<1>4. ASSUME NEW f \in Freezers PROVE FreezerHolds(freezer[f], history', tick')
  <2> DEFINE c == freezer[f]
  <2>1. c \in FreezeCalls /\ FreezerHolds(c, history, tick)
    BY <1>3 DEF FreezeInv, FreezeTypeOK
  <2> HIDE DEF c
  <2>2. c.at \in Int /\ c.cross \in Crosses /\ c.todo \in SUBSET Nat
        /\ c.at <= tick /\ \A r \in history' \ history : c.at <= r.inserted
    BY <1>1, <2>1 DEF FreezerHolds, FreezeCalls
  <2>3. ASSUME c.pc = "insert" PROVE Fits(c.cross, c.version, Min(c.todo), c.at, history')
    <3>1. Min(c.todo) \in Int
      <4>1. c.todo \in SUBSET Int /\ c.todo # {} /\ \A x \in c.todo : 0 <= x
        BY <2>1, <2>2, <2>3 DEF FreezerHolds
      <4> QED BY <4>1, MinOf
    <3>2. Fits(c.cross, c.version, Min(c.todo), c.at, history)
      BY <2>1, <2>3 DEF FreezerHolds
    <3> QED BY <1>1, <1>2, <2>2, <3>1, <3>2, FitsLater
  <2>4. c.at <= tick'
    BY <1>1, <2>2
  <2>5. (c.pc \in {"select", "load", "insert"} /\ c.version = "v3" /\ c.start # Absent) =>
            \E h \in history' : h.layer = "cross_v2" /\ h.captured = c.start
    BY <1>1, <2>1 DEF FreezerHolds
  <2>6. c.pc \in {"load", "insert"} =>
            c.todo # {} /\ c.start # Absent /\ \A t \in c.todo : c.start <= t
    BY <2>1 DEF FreezerHolds
  <2>7. FreezerHolds(c, history', tick')
    BY <2>3, <2>4, <2>5, <2>6 DEF FreezerHolds
  <2> QED BY <2>7 DEF c
<1>5. ASSUME NEW v \in Versions, NEW row \in frozen[v] PROVE FrozenHolds(row, v, history', tick')
  <2>1. row \in FreezeRows /\ FrozenHolds(row, v, history, tick)
    BY <1>3 DEF FreezeInv, FreezeTypeOK
  <2>2. row.at \in Int /\ row.cross \in Crosses /\ row.opened \in Int
        /\ row.at <= tick /\ \A r \in history' \ history : row.at <= r.inserted
    BY <1>1, <2>1 DEF FrozenHolds, FreezeRows
  <2>3. Fits(row.cross, v, row.opened, row.at, history')
    BY <1>1, <1>2, <2>1, <2>2, FitsLater DEF FrozenHolds
  <2> QED BY <1>1, <2>1, <2>2, <2>3 DEF FrozenHolds
<1> QED BY <1>3, <1>4, <1>5 DEF FreezeInv

\* A step of freeze call f.
LEMMA FreezeInvAfter ==
    ASSUME FreezeInv, NEW f \in Freezers, NEW c, freezer' = [freezer EXCEPT ![f] = c],
           c \in FreezeCalls, FreezerHolds(c, history, tick), UNCHANGED <<layerVars, opened>>,
           \A v \in Versions : \A row \in frozen'[v] \ frozen[v] :
              row \in FreezeRows /\ FrozenHolds(row, v, history, tick),
           DOMAIN frozen' = Versions, \E g : frozen' = [v \in Versions |-> g[v]]
    PROVE  FreezeInv'
<1>1. tick' = tick /\ history' = history /\ opened' = opened /\ FreezeTypeOK
  BY DEF layerVars, FreezeInv
<1>2. freezer' \in [Freezers -> FreezeCalls]
  BY <1>1 DEF FreezeTypeOK
<1>3. frozen' \in [Versions -> SUBSET FreezeRows]
  <2>1. \A v \in Versions : frozen'[v] \subseteq FreezeRows
    BY <1>1 DEF FreezeTypeOK
  <2> QED BY <2>1
<1>4. ASSUME NEW k \in Freezers PROVE FreezerHolds(freezer'[k], history, tick)
  BY <1>1 DEF FreezeInv, FreezeTypeOK
<1>5. ASSUME NEW v \in Versions, NEW row \in frozen'[v] PROVE FrozenHolds(row, v, history, tick)
  BY DEF FreezeInv
<1> QED BY <1>1, <1>2, <1>3, <1>4, <1>5 DEF FreezeInv, FreezeTypeOK

\* Every step of a freeze keeps its invariant.
LEMMA FreezeStep == LayersInv /\ FreezeInv /\ FreezeNext => FreezeInv'
<1> SUFFICES ASSUME LayersInv, FreezeInv, FreezeNext PROVE FreezeInv'
  OBVIOUS
<1>t. /\ tick \in Nat /\ FreezeTypeOK /\ \A r \in history : r.inserted \in Nat
      /\ \A r \in history \cup table : r \in Captures /\ Absent <= r.captured /\ r.captured \in Int
  BY DEF LayersInv, LayersTypeOK, FreezeInv, Captures, RowHolds
<1>n. NoFreeze \in FreezeCalls /\ FreezerHolds(NoFreeze, history, tick)
  BY <1>t, NoFreezeHolds
<1>f. DOMAIN frozen = Versions /\ \E g : frozen = [v \in Versions |-> g[v]]
  <2>1. frozen = [v \in Versions |-> frozen[v]] /\ DOMAIN frozen = Versions
    BY <1>t DEF FreezeTypeOK
  <2> QED BY <2>1
<1>1. ASSUME NEW t \in 0 .. LastTick, OpenSignal(t) PROVE FreezeInv'
  <2>1. opened' \subseteq Nat /\ frozen' = frozen /\ freezer' = freezer
        /\ history' = history /\ tick' = tick
    BY <1>1, <1>t DEF OpenSignal, FreezeTypeOK, layerVars
  <2> QED BY <1>t, <2>1 DEF FreezeInv, FreezeTypeOK
<1>2. ASSUME NEW f \in Freezers, NEW v \in Versions, BeginFreeze(f, v) PROVE FreezeInv'
  <2> DEFINE c == [NoFreeze EXCEPT !.version = v, !.pc = "start", !.at = tick]
  <2>1. c \in FreezeCalls /\ c.pc = "start" /\ c.at = tick
    <3>1. NoFreeze \in FreezeCalls /\ tick \in Int
      BY <1>t, <1>n
    <3> QED BY <3>1 DEF FreezeCalls
  <2>2. FreezerHolds(c, history, tick)
    BY <1>t, <2>1 DEF FreezerHolds
  <2>3. freezer' = [freezer EXCEPT ![f] = c] /\ frozen' = frozen /\ UNCHANGED <<layerVars, opened>>
    BY <1>2 DEF BeginFreeze
  <2> HIDE DEF c
  <2> QED BY <1>f, <2>1, <2>2, <2>3, FreezeInvAfter
<1>3. ASSUME NEW f \in Freezers, ReadStart(f) PROVE FreezeInv'
  <2> DEFINE call == freezer[f]
             start == StartAt(call.version)
             c == [call EXCEPT !.start = start, !.pc = "select"]
  <2>1. call \in FreezeCalls /\ FreezerHolds(call, history, tick) /\ call.pc = "start"
    BY <1>3, <1>t DEF ReadStart, FreezeInv, FreezeTypeOK
  <2>2. start \in Int /\ ((call.version = "v3" /\ start # Absent) =>
            \E h \in history : h.layer = "cross_v2" /\ h.captured = start)
    <3> DEFINE times == {r.captured : r \in Stored(call.version)}
    <3>1. \A r \in Stored(call.version) : r \in history \cup table
      BY DEF Stored, TableOf
    <3>2. times \in SUBSET Int /\ Absent \in Int /\ \A x \in times : Absent <= x /\ x \in Int
      BY <1>t, <3>1 DEF Absent
    <3> HIDE DEF times
    <3>3. times # {} => Min(times) \in times
      BY <3>2, MinOf
    <3>4. start = IF call.version = "v1" THEN 0 ELSE IF times = {} THEN Absent ELSE Min(times)
      BY DEF StartAt, times
    <3>5. (call.version = "v3" /\ start # Absent) => start \in times
      BY <3>3, <3>4
    <3>6. (call.version = "v3" /\ start # Absent) =>
              \E h \in Stored("v3") : h.captured = start
      BY <3>5 DEF times
    <3>7. start \in Int
      <4> HIDE DEF start
      <4>1. start = 0 \/ start = Absent \/ start \in times
        BY <3>3, <3>4
      <4>2. 0 \in Int /\ Absent \in Int /\ \A x \in times : x \in Int
        BY <3>2
      <4> QED BY <4>1, <4>2, Zenon
    <3>8. Stored("v3") = {h \in history : h.layer = "cross_v2"}
      BY DEF Stored
    <3> HIDE DEF start
    <3> QED BY <3>6, <3>7, <3>8
  <2> HIDE DEF start
  <2>3. c \in FreezeCalls /\ c.pc = "select" /\ c.at = call.at /\ c.version = call.version
        /\ c.start = start
    BY <2>1, <2>2 DEF FreezeCalls
  <2>4. FreezerHolds(c, history, tick)
    BY <2>1, <2>2, <2>3 DEF FreezerHolds
  <2>5. freezer' = [freezer EXCEPT ![f] = c] /\ frozen' = frozen /\ UNCHANGED <<layerVars, opened>>
    BY <1>3, <1>t DEF ReadStart, start, FreezeTypeOK
  <2> HIDE DEF c
  <2> QED BY <1>f, <2>3, <2>4, <2>5, FreezeInvAfter
<1>4. ASSUME NEW f \in Freezers, Select(f) PROVE FreezeInv'
  <2> DEFINE call == freezer[f]
             batch == Batch(call)
             c == [call EXCEPT !.pc = "load", !.todo = batch]
  <2>1. call \in FreezeCalls /\ FreezerHolds(call, history, tick) /\ call.pc = "select"
    BY <1>4, <1>t DEF Select, FreezeInv, FreezeTypeOK
  <2>2. batch \in SUBSET Nat /\ \A t \in batch : call.start # Absent /\ call.start <= t
    BY <1>t DEF Batch, Unfrozen, FreezeTypeOK
  <2> HIDE DEF batch
  <2>3. CASE batch = {}
    <3>1. freezer' = [freezer EXCEPT ![f] = NoFreeze] /\ frozen' = frozen
          /\ UNCHANGED <<layerVars, opened>>
      BY <1>4, <2>3 DEF Select, batch
    <3> QED BY <1>f, <1>n, <3>1, FreezeInvAfter
  <2>4. CASE batch # {}
    <3>1. c \in FreezeCalls /\ c.pc = "load" /\ c.at = call.at /\ c.version = call.version
          /\ c.start = call.start /\ c.todo = batch
      BY <2>1, <2>2 DEF FreezeCalls
    <3>2. FreezerHolds(c, history, tick)
      BY <2>1, <2>2, <2>4, <3>1 DEF FreezerHolds
    <3>3. freezer' = [freezer EXCEPT ![f] = c] /\ frozen' = frozen
          /\ UNCHANGED <<layerVars, opened>>
      BY <1>4, <2>4 DEF Select, batch
    <3> HIDE DEF c
    <3> QED BY <1>f, <3>1, <3>2, <3>3, FreezeInvAfter
  <2> QED BY <2>3, <2>4
<1>5. ASSUME NEW f \in Freezers, Load(f) PROVE FreezeInv'
  <2> DEFINE call == freezer[f]
             time == Min(call.todo)
             rows == Lookup(call.version, time)
             cross == IF rows = {} THEN <<>> ELSE <<Newest(rows)>>
             c == [call EXCEPT !.pc = "insert", !.cross = cross]
  <2>1. call \in FreezeCalls /\ FreezerHolds(call, history, tick) /\ call.pc = "load"
    BY <1>5, <1>t DEF Load, FreezeInv, FreezeTypeOK
  <2>2. call.todo \in SUBSET Int /\ call.todo # {} /\ \A x \in call.todo : 0 <= x
    BY <2>1 DEF FreezerHolds, FreezeCalls
  <2>3. time \in call.todo /\ time \in Int
    BY <2>2, MinOf
  <2> HIDE DEF time
  <2>4. \A r \in rows : r \in Captures /\ r.captured \in Int /\ r.captured <= time
    BY <1>t DEF Lookup, Stored, TableOf
  <2>5. rows # {} => Newest(rows) \in rows /\ \A r \in rows : r.captured <= Newest(rows).captured
    <3> HIDE DEF rows
    <3> QED BY <2>3, <2>4, NewestIs
  <2>6. call.version = "v3" => rows = {h \in history : h.layer = "cross_v2" /\ h.captured <= time}
    BY DEF Lookup, Stored
  <2>7. call.version = "v3" => rows # {}
    <3>1. call.start # Absent /\ call.start <= time
      BY <2>1, <2>3 DEF FreezerHolds
    <3>2. call.version = "v3" => \E h \in history : h.layer = "cross_v2" /\ h.captured = call.start
      BY <2>1, <3>1 DEF FreezerHolds
    <3> QED BY <2>6, <3>1, <3>2
  <2> HIDE DEF rows
  <2>8. cross \in Crosses /\ (cross # <<>> <=> rows # {})
        /\ (rows # {} => cross[1] = Newest(rows))
    BY <2>4, <2>5 DEF Crosses
  <2> HIDE DEF cross
  <2>9. Fits(cross, call.version, time, call.at, history)
    BY <2>4, <2>5, <2>6, <2>7, <2>8 DEF Fits
  <2>10. c \in FreezeCalls /\ c.pc = "insert" /\ c.at = call.at /\ c.version = call.version
         /\ c.start = call.start /\ c.todo = call.todo /\ c.cross = cross
    BY <2>1, <2>8 DEF FreezeCalls
  <2>11. FreezerHolds(c, history, tick)
    BY <2>1, <2>9, <2>10 DEF FreezerHolds, time
  <2>12. freezer' = [freezer EXCEPT ![f] = c] /\ frozen' = frozen /\ UNCHANGED <<layerVars, opened>>
    BY <1>5, <1>t DEF Load, cross, rows, time, FreezeTypeOK
  <2> HIDE DEF c
  <2> QED BY <1>f, <2>10, <2>11, <2>12, FreezeInvAfter
<1>6. ASSUME NEW f \in Freezers, InsertFreeze(f) PROVE FreezeInv'
  <2> DEFINE call == freezer[f]
             time == Min(call.todo)
             rest == call.todo \ {time}
             row == FreezeRow(call, time)
             c == [call EXCEPT !.pc = "load", !.todo = rest, !.cross = <<>>]
             new == IF rest = {} THEN NoFreeze ELSE c
  <2>1. call \in FreezeCalls /\ FreezerHolds(call, history, tick) /\ call.pc = "insert"
    BY <1>6, <1>t DEF InsertFreeze, FreezeInv, FreezeTypeOK
  <2>2. call.todo \in SUBSET Int /\ call.todo # {} /\ \A x \in call.todo : 0 <= x
    BY <2>1 DEF FreezerHolds, FreezeCalls
  <2>3. time \in call.todo /\ time \in Nat
    <3>1. call.todo \in SUBSET Nat
      BY <2>1 DEF FreezeCalls
    <3> QED BY <2>2, <3>1, MinOf
  <2>4. Fits(call.cross, call.version, time, call.at, history) /\ call.at <= tick
    BY <2>1 DEF FreezerHolds
  <2> HIDE DEF time
  <2>5. row \in FreezeRows /\ row.at = call.at /\ row.cross = call.cross /\ row.opened = time
        /\ row.status = CrossStatus(row.cross, row.opened)
    <3>1. CrossStatus(call.cross, time) \in {"MISSING", "FUTURE_REJECTED", "FRESH", "STALE"}
      <4>1. call.cross = <<>> \/ \E r \in Captures : call.cross = <<r>>
        BY <2>1 DEF FreezeCalls, Crosses
      <4>2. call.cross # <<>> => call.cross[1].captured \in Int
        BY <4>1 DEF Captures
      <4> HIDE DEF call
      <4> QED BY <2>3, <4>2 DEF CrossStatus
    <3> QED BY <2>1, <2>3, <3>1 DEF FreezeRow, FreezeRows, FreezeCalls
  <2> HIDE DEF row
  <2>6. FrozenHolds(row, call.version, history, tick)
    BY <2>4, <2>5 DEF FrozenHolds
  <2>7. c \in FreezeCalls /\ c.pc = "load" /\ c.at = call.at /\ c.version = call.version
        /\ c.start = call.start /\ c.todo = rest
    BY <2>1 DEF FreezeCalls, Crosses
  <2>8. rest # {} => FreezerHolds(c, history, tick)
    BY <2>1, <2>7 DEF FreezerHolds
  <2>9. new \in FreezeCalls /\ FreezerHolds(new, history, tick)
    BY <1>n, <2>7, <2>8
  <2>10. freezer' = [freezer EXCEPT ![f] = new] /\ UNCHANGED <<layerVars, opened>>
         /\ frozen' = [frozen EXCEPT ![call.version] =
                IF \E r \in @ : r.opened = time THEN @ ELSE @ \cup {row}]
    BY <1>6 DEF InsertFreeze, time, row
  <2> HIDE DEF new
  <2>11. DOMAIN frozen' = Versions /\ \E g : frozen' = [v \in Versions |-> g[v]]
    <3>1. frozen' = [v \in Versions |-> frozen'[v]] /\ DOMAIN frozen' = Versions
      BY <1>f, <2>10
    <3> QED BY <3>1
  <2>12. ASSUME NEW v \in Versions, NEW r \in frozen'[v] \ frozen[v]
         PROVE  r \in FreezeRows /\ FrozenHolds(r, v, history, tick)
    <3>1. r = row /\ v = call.version
      BY <1>f, <2>10
    <3> QED BY <2>5, <2>6, <3>1
  <2> QED BY <2>9, <2>10, <2>11, <2>12, FreezeInvAfter
<1>7. ASSUME NEW f \in Freezers, FailFreeze(f) PROVE FreezeInv'
  <2>1. freezer' = [freezer EXCEPT ![f] = NoFreeze] /\ frozen' = frozen
        /\ UNCHANGED <<layerVars, opened>>
    BY <1>7 DEF FailFreeze
  <2> QED BY <1>f, <1>n, <2>1, FreezeInvAfter
<1> QED BY <1>1, <1>2, <1>3, <1>4, <1>5, <1>6, <1>7 DEF FreezeNext

------------------------------------------------------------------------------
(* Theorems.                                                                *)

\* The inductive invariant of the captures and the freeze.
THEOREM ContextInvariant == ContextSpec => []ContextInv
<1>1. ContextInit => ContextInv
  BY LayersInitial, FreezeInitial DEF ContextInit, ContextInv
<1>2. ContextInv /\ [ContextNext]_contextVars => ContextInv'
  <2> SUFFICES ASSUME ContextInv, [ContextNext]_contextVars PROVE ContextInv'
    OBVIOUS
  <2>1. CASE (CaptureNext \/ Tick) /\ UNCHANGED freezeVars
    BY <2>1, LayersStep, FreezeInvLater DEF ContextInv
  <2>2. CASE FreezeNext
    <3>1. UNCHANGED layerVars
      BY <2>2 DEF FreezeNext, OpenSignal, BeginFreeze, ReadStart, Select, Load, InsertFreeze, FailFreeze
    <3> QED BY <2>2, <3>1, LayersStep, FreezeStep DEF ContextInv
  <2>3. CASE UNCHANGED contextVars
    BY <2>3, LayersStep, FreezeInvLater DEF ContextInv, contextVars
  <2> QED BY <2>1, <2>2, <2>3 DEF ContextNext
<1> QED BY <1>1, <1>2, PTL DEF ContextSpec

\* Nothing a table held is lost, no snapshot holds a layer captured after its
\* own clock, and no frozen context a snapshot captured after its signal,
\* for any endpoints, calls and signals and wherever a call fails.
THEOREM ContextIsSoundHolds == ContextSpec => []ContextIsSound
<1>1. ContextInv => ContextIsSound
  <2> SUFFICES ASSUME ContextInv PROVE ContextIsTimely /\ NoCaptureIsLost
    BY DEF ContextIsSound
  <2>1. \A h \in history : h.layer \in Cross => \A p \in h.parts : p.captured <= h.captured
    BY DEF ContextInv, LayersInv, RowHolds, Timely
  <2>2. \A v \in Versions : \A row \in frozen[v] :
            row.cross # <<>> => row.cross[1].captured <= row.opened
    BY DEF ContextInv, FreezeInv, FrozenHolds, Fits
  <2> QED BY <2>1, <2>2 DEF ContextInv, LayersInv, ContextIsTimely
<1> QED BY <1>1, ContextInvariant, PTL

\* The version 3 cohort is complete and no row misses a better capture.
THEOREM CohortIsCompleteHolds == ContextSpec => []CohortIsComplete
<1>1. ContextInv => CohortIsComplete
  <2> SUFFICES ASSUME ContextInv, NEW row \in frozen["v3"]
               PROVE  /\ row.cross # <<>> /\ StartAt("v3") <= row.opened
                      /\ \A h \in history :
                            (h.layer = "cross_v2" /\ h.captured <= row.opened /\ h.inserted < row.at) =>
                               /\ h.captured <= row.cross[1].captured
                               /\ row.opened - h.captured <= CrossMaxAge => row.status = "FRESH"
    BY DEF CohortIsComplete
  <2>1. /\ row \in FreezeRows /\ Fits(row.cross, "v3", row.opened, row.at, history)
        /\ row.status = CrossStatus(row.cross, row.opened)
    BY DEF ContextInv, FreezeInv, FreezeTypeOK, FrozenHolds, Versions
  <2> DEFINE cross == row.cross[1]
  <2>2. /\ row.cross # <<>> /\ cross \in history /\ cross.layer = "cross_v2"
        /\ cross.captured <= row.opened
        /\ \A h \in history :
              (h.layer = "cross_v2" /\ h.captured <= row.opened /\ h.inserted < row.at)
                  => h.captured <= cross.captured
    BY <2>1 DEF Fits
  <2>3. row.opened \in Int /\ \A h \in history : h.captured \in Int /\ Absent <= h.captured
    BY <2>1 DEF FreezeRows, ContextInv, LayersInv, LayersTypeOK, Captures, RowHolds
  <2>4. StartAt("v3") <= row.opened
    <3> DEFINE times == {r.captured : r \in Stored("v3")}
    <3>1. Stored("v3") = {h \in history : h.layer = "cross_v2"}
      BY DEF Stored
    <3>2. /\ times \in SUBSET Int /\ times # {} /\ Absent \in Int /\ cross.captured \in times
          /\ \A x \in times : Absent <= x /\ x \in Int
      BY <2>2, <2>3, <3>1 DEF Absent
    <3> HIDE DEF times
    <3>3. Min(times) \in Int /\ Min(times) <= cross.captured
      BY <3>2, MinOf
    <3>4. StartAt("v3") = IF times = {} THEN Absent ELSE Min(times)
      BY DEF StartAt, times
    <3> QED BY <2>2, <2>3, <3>2, <3>3, <3>4
  <2>5. ASSUME NEW h \in history, h.captured <= cross.captured,
               row.opened - h.captured <= CrossMaxAge
        PROVE  row.status = "FRESH"
    <3>1. row.opened - cross.captured <= CrossMaxAge /\ ~ (cross.captured > row.opened)
      BY <2>2, <2>3, <2>5, ContextAssumption
    <3> QED BY <2>1, <2>2, <3>1 DEF CrossStatus
  <2> QED BY <2>2, <2>4, <2>5
<1> QED BY <1>1, ContextInvariant, PTL
------------------------------------------------------------------------------
(* The forward sidecar                                                      *)

\* The rows of parents and the runs of the workers.
Statuses == {"none", "PENDING", "CLEARED", "INVALIDATED_BOUNDARY", "INVALIDATED_STRUCTURE"}
ParentRows == [captured : Nat, status : Statuses, resolved : Nat, upTo : Nat,
               whole : BOOLEAN, torn : BOOLEAN]
RunRecords ==
    [pc : {"off", "collect", "stamp", "persist"}, tracked : SUBSET Symbols, analysed : SUBSET Symbols,
     bars : Nat, last : Bars \cup {FirstBar}, captured : Nat]

\* Every second tick has closed a bar.
BarsAreClosed ==
    /\ barTape \in Seq(Bars \cup {FirstBar}) /\ 0 < Len(barTape) /\ barNow \in Nat /\ barNow <= Closes(LastBar)
    /\ Closes(Len(barTape)) <= barNow /\ barNow <= Closes(Len(barTape)) + 1

\* A run has analysed closed bars, and its clock is read after them.
RunSound(run) ==
    /\ run.pc \in {"stamp", "persist"} => 0 < run.bars /\ run.bars <= Len(barTape)
    /\ run.pc = "persist" => run.captured <= barNow /\ Closes(run.bars) <= run.captured

\* The bars that would end a parent, and what its row says of them.
EndsOf(e, row) ==
    {i \in DOMAIN barTape : Closes(i) > row.captured /\ Verdict(e, barTape[i]) # "PENDING"}
EndedBy(e, row, b) ==
    /\ Closes(b) > row.captured /\ row.resolved = Closes(b)
    /\ row.whole => \A i \in EndsOf(e, row) : b <= i
    /\ ~ row.torn => b \in EndsOf(e, row) /\ row.status = Verdict(e, barTape[b])
RowSound(e, row, start) ==
    row.status # "none" =>
        /\ start <= Closes(e.bar) /\ Closes(e.bar) <= row.captured /\ row.captured <= barNow
        /\ row.upTo <= Len(barTape)
        /\ row.status = "PENDING" /\ row.whole => \A i \in EndsOf(e, row) : i > row.upTo
        /\ row.status # "PENDING" => \E b \in DOMAIN barTape : EndedBy(e, row, b)
ClearSound(e, row, c) ==
    /\ row.status = "CLEARED" /\ c.bar \in DOMAIN barTape /\ Closes(c.bar) = row.resolved
    /\ c.bars <= Cardinality({i \in DOMAIN barTape : Closes(i) > row.captured /\ i <= c.bar})
ClearsSound(e, row, list) ==
    /\ row.status = "CLEARED" => \E c \in list : c.event = e
    /\ \A c \in list : c.event = e => ClearSound(e, row, c)
    /\ \A c, d \in list : c.event = e /\ d.event = e => c = d

\* What the bars a run has read say of a pending parent.
LEMMA ObservedRow ==
    ASSUME BarsAreClosed, NEW e \in BarrierEvents, NEW row \in ParentRows, NEW start \in Nat,
           RowSound(e, row, start), row.status = "PENDING",
           NEW run \in RunRecords, 0 < run.bars, run.bars <= Len(barTape)
    PROVE  LET new == Observed(e, row, run)
           IN  /\ new \in ParentRows /\ RowSound(e, new, start) /\ new.captured = row.captured
               /\ new.status # "none"
               /\ new.status = "CLEARED" => ClearSound(e, new, ClearRow(e, row, run))
<1> DEFINE n == run.bars
           sure == Sure(run)
           new == Observed(e, row, run)
           whole == row.whole /\ GoesOn(row, n)
           ends == Ends(e, row, run)
<1>1. /\ row.captured \in Nat /\ row.upTo \in Nat /\ row.whole \in BOOLEAN /\ e.bar \in Nat /\ n \in Nat
      /\ DOMAIN barTape = 1..Len(barTape) /\ Len(barTape) \in Nat
  BY BarrierAssumption DEF ParentRows, RunRecords, BarsAreClosed
<1>2. whole \in BOOLEAN
  OBVIOUS
<1>3. /\ start <= Closes(e.bar) /\ Closes(e.bar) <= row.captured /\ row.captured <= barNow
      /\ row.upTo <= Len(barTape)
      /\ row.whole => \A i \in EndsOf(e, row) : i > row.upTo
  BY DEF RowSound
<1>a. /\ sure \in Nat /\ sure <= n /\ n <= sure + 1 /\ n <= Len(barTape)
      /\ \A i \in 1..sure : Reading(run, i) = barTape[i]
  BY <1>1 DEF Sure, Torn, Reading
<1> HIDE DEF sure
<1>4. \A i \in ends : i \in 1..n /\ Closes(i) > row.captured /\ Verdict(e, Reading(run, i)) # "PENDING"
  BY <1>1 DEF Ends, Future, Seen
<1>b. \A i \in ends : i <= sure => i \in EndsOf(e, row) /\ Reading(run, i) = barTape[i]
  BY <1>1, <1>4, <1>a DEF EndsOf
<1>5. ASSUME whole, NEW i \in EndsOf(e, row), i <= sure PROVE i \in ends
  <2>1. i \in 1..sure /\ i \in 1..n /\ Closes(i) > row.captured /\ Verdict(e, barTape[i]) # "PENDING"
    BY <1>1, <1>5, <1>a DEF EndsOf
  <2>2. i > row.upTo
    BY <1>3, <1>5
  <2>3. i \in Seen(n)
    BY <1>5, <2>1, <2>2 DEF GoesOn
  <2> QED BY <1>a, <2>1, <2>3 DEF Ends, Future
<1> HIDE DEF whole, ends, n
<1>6. CASE ends = {}
  <2> DEFINE next == [row EXCEPT !.upTo = sure, !.whole = whole]
  <2>1. new = next
    BY <1>6 DEF Observed, ends, whole, sure, n
  <2>2. /\ next \in ParentRows /\ next.captured = row.captured /\ next.status = "PENDING"
        /\ next.upTo = sure /\ next.whole = whole
    BY <1>2, <1>a DEF ParentRows
  <2> HIDE DEF next
  <2>3. EndsOf(e, next) = EndsOf(e, row)
    BY <2>2 DEF EndsOf
  <2>4. next.whole => \A i \in EndsOf(e, next) : i > next.upTo
    <3>1. \A i \in EndsOf(e, row) : i \in Nat
      BY <1>1 DEF EndsOf
    <3> QED BY <1>5, <1>6, <1>a, <2>2, <2>3, <3>1
  <2>5. RowSound(e, next, start)
    BY <1>1, <1>3, <1>a, <2>2, <2>4 DEF RowSound
  <2> HIDE DEF new
  <2>6. new \in ParentRows /\ RowSound(e, new, start) /\ new.captured = row.captured /\ new.status = "PENDING"
    BY <2>1, <2>2, <2>5
  <2> QED BY <2>6 DEF new
<1>7. CASE ends # {}
  <2> DEFINE b == Min(ends)
             verdict == Verdict(e, Reading(run, b))
             torn == b > sure
             next == [row EXCEPT !.status = verdict, !.resolved = Closes(b),
                                 !.upTo = sure, !.whole = whole, !.torn = torn]
  <2>1. new = next
    BY <1>7 DEF Observed, ends, whole, sure, n
  <2>2. ends \in SUBSET Int /\ \A i \in ends : 1 <= i /\ i \in Nat /\ i <= n
    BY <1>1, <1>4
  <2>3. b \in ends /\ \A i \in ends : b <= i
    BY <1>7, <2>2, MinOf
  <2>4. /\ ClearRow(e, row, run).bar = b
        /\ ClearRow(e, row, run).bars = Cardinality({i \in Future(e, row, n) : i <= b})
    BY DEF ClearRow, ends, n
  <2> HIDE DEF b
  <2>5. verdict \in Statuses \ {"none", "PENDING"}
    <3>1. verdict # "PENDING"
      BY <1>4, <2>3
    <3>2. verdict \in Statuses \ {"none"}
      BY DEF Verdict, Statuses
    <3> QED BY <3>1, <3>2
  <2>6. Closes(b) \in Nat /\ torn \in BOOLEAN
    BY <2>2, <2>3 DEF Closes
  <2>a. ~ torn => b \in EndsOf(e, row) /\ verdict = Verdict(e, barTape[b])
    BY <1>b, <1>a, <2>2, <2>3
  <2> HIDE DEF verdict, torn
  <2>7. /\ next \in ParentRows /\ next.captured = row.captured /\ next.status = verdict
        /\ next.resolved = Closes(b) /\ next.upTo = sure /\ next.whole = whole /\ next.torn = torn
    BY <1>2, <1>a, <2>5, <2>6 DEF ParentRows
  <2> HIDE DEF next
  <2>8. EndsOf(e, next) = EndsOf(e, row)
    BY <2>7 DEF EndsOf
  <2>9. whole => \A i \in EndsOf(e, next) : b <= i
    <3>1. \A i \in EndsOf(e, row) : i \in Nat
      BY <1>1 DEF EndsOf
    <3>2. b \in Nat /\ b <= n
      BY <2>2, <2>3
    <3> QED BY <1>1, <1>5, <1>a, <2>3, <2>8, <3>1, <3>2
  <2>10. EndedBy(e, next, b) /\ b \in DOMAIN barTape
    <3>1. Closes(b) > row.captured /\ b \in DOMAIN barTape
      BY <1>1, <1>4, <1>a, <2>2, <2>3
    <3> QED BY <2>7, <2>8, <2>9, <2>a, <3>1 DEF EndedBy
  <2>11. verdict # "PENDING" /\ verdict # "none"
    BY <2>5
  <2>12. RowSound(e, next, start)
    BY <1>1, <1>3, <1>a, <2>7, <2>10, <2>11 DEF RowSound
  <2>13. ASSUME next.status = "CLEARED" PROVE ClearSound(e, next, ClearRow(e, row, run))
    <3> DEFINE few == {i \in Future(e, row, n) : i <= b}
               all == {i \in DOMAIN barTape : Closes(i) > row.captured /\ i <= b}
    <3>1. few \subseteq all
      BY <1>1, <1>a DEF Future, Seen
    <3>2. IsFiniteSet(all)
      <4>1. IsFiniteSet(1..Len(barTape)) /\ all \subseteq 1..Len(barTape)
        BY <1>1, FS_Interval
      <4> QED BY <4>1, FS_Subset
    <3>3. Cardinality(few) <= Cardinality(all)
      BY <3>1, <3>2, FS_Subset
    <3> QED BY <2>4, <2>7, <2>10, <2>13, <3>3 DEF ClearSound
  <2> HIDE DEF new
  <2>14. /\ new \in ParentRows /\ RowSound(e, new, start) /\ new.captured = row.captured /\ new.status # "none"
         /\ new.status = "CLEARED" => ClearSound(e, new, ClearRow(e, row, run))
    BY <2>1, <2>7, <2>11, <2>12, <2>13
  <2> QED BY <2>14 DEF new
<1> QED BY <1>6, <1>7
\* A row says of a longer tape what it said, if the new bar is later.
LEMMA RowStands ==
    ASSUME BarsAreClosed, NEW bar, NEW e \in BarrierEvents, NEW row \in ParentRows, NEW start,
           RowSound(e, row, start), barNow' \in {barNow, barNow + 1},
           barTape' \in {barTape, Append(barTape, bar)}
    PROVE  /\ RowSound(e, row, start)'
           /\ \A c : ClearSound(e, row, c) => ClearSound(e, row, c)'
<1> DEFINE size == Len(barTape)
<1>1. /\ row.captured \in Nat /\ row.upTo \in Nat /\ row.whole \in BOOLEAN /\ size \in Nat /\ barNow \in Nat
      /\ DOMAIN barTape = 1..size
  BY DEF ParentRows, BarsAreClosed
<1>2. /\ 1..size \subseteq DOMAIN barTape' /\ DOMAIN barTape' = 1..Len(barTape')
      /\ Len(barTape') \in {size, size + 1} /\ \A i \in 1..size : barTape'[i] = barTape[i]
  BY <1>1 DEF BarsAreClosed
<1>a. barNow <= barNow' /\ barNow' \in Nat
  BY <1>1
<1>b. \A i \in DOMAIN barTape' : i \in 1..size \/ i = size + 1
  <2> DEFINE m == Len(barTape')
  <2>1. m \in {size, size + 1} /\ DOMAIN barTape' = 1..m
    BY <1>2
  <2> HIDE DEF m
  <2> QED BY <1>1, <2>1
<1>c. size <= Len(barTape') /\ Len(barTape') \in Nat
  <2> DEFINE m == Len(barTape')
  <2>1. m \in {size, size + 1}
    BY <1>2
  <2> HIDE DEF m
  <2>2. size <= m /\ m \in Nat
    BY <1>1, <2>1
  <2> QED BY <2>2 DEF m
<1>3. EndsOf(e, row) \subseteq EndsOf(e, row)' /\ \A i \in EndsOf(e, row)' : i \in EndsOf(e, row) \/ i = size + 1
  BY <1>1, <1>2, <1>b DEF EndsOf, Closes
<1>4. CASE row.status = "none"
  BY <1>4 DEF RowSound, ClearSound
<1>5. CASE row.status # "none"
  <2>1. /\ start <= Closes(e.bar) /\ Closes(e.bar) <= row.captured /\ row.captured <= barNow
        /\ row.upTo <= size
        /\ row.status = "PENDING" /\ row.whole => \A i \in EndsOf(e, row) : i > row.upTo
        /\ row.status # "PENDING" => \E b \in DOMAIN barTape : EndedBy(e, row, b)
    BY <1>5 DEF RowSound
  <2>2. row.captured <= barNow' /\ row.upTo <= Len(barTape')
    BY <1>1, <1>a, <1>c, <2>1
  <2>3. row.status = "PENDING" /\ row.whole => \A i \in EndsOf(e, row)' : i > row.upTo
    BY <1>1, <1>3, <2>1
  <2>4. ASSUME NEW b \in DOMAIN barTape, EndedBy(e, row, b) PROVE EndedBy(e, row, b)'
    <3>1. Closes(b) > row.captured /\ row.resolved = Closes(b) /\ b \in 1..size
      BY <1>1, <2>4 DEF EndedBy
    <3>2. ~ row.torn => b \in EndsOf(e, row)' /\ row.status = Verdict(e, barTape'[b])
      BY <1>2, <1>3, <2>4, <3>1 DEF EndedBy
    <3>3. row.whole => \A i \in EndsOf(e, row)' : b <= i
      <4>1. b <= size + 1
        BY <1>1, <3>1
      <4> QED BY <1>3, <2>4, <4>1 DEF EndedBy
    <3> QED BY <3>1, <3>2, <3>3 DEF EndedBy, Closes, Verdict, BoundaryHeld, OpposingStructure, BarrierCleared
  <2>5. row.status # "PENDING" => \E b \in DOMAIN barTape' : EndedBy(e, row, b)'
    BY <1>1, <1>2, <2>1, <2>4
  <2>6. RowSound(e, row, start)'
    BY <1>5, <2>1, <2>2, <2>3, <2>5 DEF RowSound, Closes
  <2>7. ASSUME NEW c, ClearSound(e, row, c) PROVE ClearSound(e, row, c)'
    <3>1. row.status = "CLEARED" /\ c.bar \in 1..size /\ Closes(c.bar) = row.resolved
          /\ c.bars <= Cardinality({i \in DOMAIN barTape : Closes(i) > row.captured /\ i <= c.bar})
      BY <1>1, <2>7 DEF ClearSound
    <3>2. {i \in DOMAIN barTape' : Closes(i) > row.captured /\ i <= c.bar}
              = {i \in DOMAIN barTape : Closes(i) > row.captured /\ i <= c.bar}
      <4>1. \A i \in DOMAIN barTape' : i <= c.bar => i \in 1..size
        BY <1>1, <1>b, <3>1
      <4> QED BY <1>1, <1>2, <4>1
    <3> QED BY <1>2, <3>1, <3>2 DEF ClearSound, Closes
  <2> QED BY <2>6, <2>7
<1> QED BY <1>4, <1>5

\* What a batch of new parents makes of the rows.
LEMMA FrozenRows ==
    ASSUME BarsAreClosed, parents \in [BarrierEvents -> ParentRows], NEW start \in Nat,
           \A e \in BarrierEvents : RowSound(e, parents[e], start),
           NEW run \in RunRecords, run.pc = "persist", RunSound(run), NEW candidates,
           NEW e \in BarrierEvents
    PROVE  LET new == Frozen(run, candidates, start)[e]
           IN  /\ new \in ParentRows /\ RowSound(e, new, start)
               /\ new = parents[e] \/ (parents[e].status = "none" /\ new.status = "PENDING")
<1> DEFINE new == Frozen(run, candidates, start)[e]
           next == [NoParent EXCEPT !.captured = run.captured, !.status = "PENDING", !.upTo = run.bars]
<1>1. run.captured \in Nat /\ run.bars \in Nat /\ run.captured <= barNow /\ Closes(run.bars) <= run.captured
      /\ run.bars <= Len(barTape) /\ e.bar \in Nat
  BY BarrierAssumption DEF RunRecords, RunSound
<1>2. CASE new = parents[e]
  BY <1>2
<1>3. CASE new # parents[e]
  <2>1. /\ new = next /\ start <= Closes(e.bar) /\ Closes(e.bar) <= run.captured /\ parents[e] = NoParent
    BY <1>3 DEF Frozen, Admitted
  <2>2. Never \in Nat
    BY BarrierAssumption DEF Never, Closes
  <2>3. /\ next \in ParentRows /\ next.captured = run.captured /\ next.status = "PENDING" /\ next.upTo = run.bars
    BY <1>1, <2>2 DEF NoParent, ParentRows, Statuses
  <2> HIDE DEF next
  <2>4. \A i \in EndsOf(e, next) : i > next.upTo
    <3>1. \A i \in EndsOf(e, next) : Closes(i) > run.captured /\ i \in Nat
      BY <2>3 DEF EndsOf, BarsAreClosed
    <3> QED BY <1>1, <2>3, <3>1 DEF Closes
  <2>5. RowSound(e, next, start)
    BY <1>1, <2>1, <2>3, <2>4 DEF RowSound
  <2>6. parents[e].status = "none"
    BY <2>1 DEF NoParent
  <2> HIDE DEF new
  <2>7. new \in ParentRows /\ RowSound(e, new, start) /\ parents[e].status = "none" /\ new.status = "PENDING"
    BY <2>1, <2>3, <2>5, <2>6
  <2> QED BY <2>7 DEF new
<1> QED BY <1>2, <1>3

\* A table of sound rows is one that version 2 accepts.
LEMMA SoundIsAccepted ==
    ASSUME BarsAreClosed, NEW list \in [BarrierEvents -> ParentRows], NEW start,
           \A e \in BarrierEvents : RowSound(e, list[e], start)
    PROVE  Contract2(list)
<1> SUFFICES ASSUME NEW e \in Eligible(list)
    PROVE  list[e].captured > Activation /\ list[e].resolved > Activation /\ list[e].resolved >= list[e].captured
  BY DEF Contract2
<1>1. e \in BarrierEvents /\ list[e].status # "none" /\ list[e].status # "PENDING" /\ list[e].captured > Activation
  BY DEF Eligible, Terminal
<1>2. PICK b \in DOMAIN barTape : EndedBy(e, list[e], b)
  BY <1>1 DEF RowSound
<1>3. list[e].resolved = Closes(b) /\ Closes(b) > list[e].captured
  BY <1>2 DEF EndedBy
<1>4. list[e].resolved \in Nat /\ list[e].captured \in Nat
  <2>1. list[e] \in ParentRows
    BY <1>1
  <2> QED BY <2>1 DEF ParentRows
<1> QED BY <1>1, <1>3, <1>4, BarrierAssumption
\* What a run makes of the rows, and of the clears.
LEMMA ResolvedRows ==
    ASSUME BarsAreClosed, parents \in [BarrierEvents -> ParentRows], NEW start \in Nat,
           \A e \in BarrierEvents : RowSound(e, parents[e], start) /\ ClearsSound(e, parents[e], clears),
           NEW run \in RunRecords, run.pc = "persist", RunSound(run), NEW candidates,
           NEW e \in BarrierEvents
    PROVE  LET batch == Frozen(run, candidates, start)
               new == Resolved(batch, run)[e]
           IN  /\ new \in ParentRows /\ RowSound(e, new, start)
               /\ ClearsSound(e, new, clears \cup Cleared(batch, run))
<1> DEFINE batch == Frozen(run, candidates, start)
           row == batch[e]
           new == Resolved(batch, run)[e]
           added == Cleared(batch, run)
           own == ClearRow(e, row, run)
<1>1. /\ row \in ParentRows /\ RowSound(e, row, start)
      /\ row = parents[e] \/ (parents[e].status = "none" /\ row.status = "PENDING")
  BY FrozenRows
<1>2. 0 < run.bars /\ run.bars <= Len(barTape)
  BY DEF RunRecords, RunSound
<1>3. new = IF e \in Pending(batch, run) THEN Observed(e, row, run) ELSE row
  BY DEF Resolved
<1>4. \A c \in added : c.event = e => c = own /\ e \in Pending(batch, run) /\ new.status = "CLEARED"
  <2> SUFFICES ASSUME NEW c \in added, c.event = e
      PROVE  c = own /\ e \in Pending(batch, run) /\ new.status = "CLEARED"
    OBVIOUS
  <2>1. PICK f \in Pending(batch, run) :
            Resolved(batch, run)[f].status = "CLEARED" /\ c = ClearRow(f, batch[f], run)
    BY DEF Cleared
  <2>2. c.event = f
    BY <2>1 DEF ClearRow
  <2> QED BY <2>1, <2>2
<1>5. e \in Pending(batch, run) /\ new.status = "CLEARED" => own \in added /\ own.event = e
  BY DEF Cleared, ClearRow
<1>6. e \in Pending(batch, run) => row.status = "PENDING"
  BY DEF Pending
<1> HIDE DEF batch, added, own
<1>7. ClearsSound(e, parents[e], clears)
  OBVIOUS
<1>8. parents[e].status # "CLEARED" => \A c \in clears : c.event # e
  BY <1>7 DEF ClearsSound, ClearSound
<1>9. CASE e \in Pending(batch, run)
  <2> DEFINE next == Observed(e, row, run)
  <2>1. new = next
    BY <1>3, <1>9
  <2>2. /\ next \in ParentRows /\ RowSound(e, next, start)
        /\ next.status = "CLEARED" => ClearSound(e, next, own)
    BY <1>1, <1>2, <1>6, <1>9, ObservedRow DEF own
  <2> HIDE DEF next, new
  <2>3. \A c \in clears : c.event # e
    BY <1>1, <1>6, <1>8, <1>9
  <2>4. ClearsSound(e, new, clears \cup added)
    <3>1. new.status = "CLEARED" => \E c \in clears \cup added : c.event = e
      BY <1>5, <1>9
    <3>2. \A c \in clears \cup added : c.event = e => c = own /\ new.status = "CLEARED"
      BY <1>4, <2>3
    <3>3. new.status = "CLEARED" => ClearSound(e, new, own)
      BY <2>1, <2>2
    <3> QED BY <3>1, <3>2, <3>3 DEF ClearsSound
  <2> QED BY <2>1, <2>2, <2>4 DEF batch, added, new
<1>10. CASE e \notin Pending(batch, run)
  <2>1. new = row
    BY <1>3, <1>10
  <2>2. \A c \in added : c.event # e
    BY <1>4, <1>10
  <2> HIDE DEF new, row
  <2>3. ASSUME row = parents[e] PROVE ClearsSound(e, new, clears \cup added)
    BY <1>7, <2>1, <2>2, <2>3 DEF ClearsSound
  <2>4. ASSUME parents[e].status = "none" /\ row.status = "PENDING"
        PROVE  ClearsSound(e, new, clears \cup added)
    <3>1. \A c \in clears : c.event # e
      BY <1>8, <2>4
    <3> QED BY <2>1, <2>2, <2>4, <3>1 DEF ClearsSound
  <2>5. ClearsSound(e, new, clears \cup added)
    BY <1>1, <2>3, <2>4
  <2> QED BY <1>1, <2>1, <2>5 DEF batch, added, new
<1> QED BY <1>9, <1>10

\* The rows of the funnel, and what a run under way will add to them.
SnapshotsSound ==
    \A s \in snapshots :
        /\ s.sweep \in Sweeps /\ s.sweep.bar > 0 /\ s.at \in Nat /\ s.bars \in Nat
        /\ s.at <= barNow /\ s.bars <= Len(barTape) /\ Closes(s.bars) <= s.at
        /\ funnelStart <= Closes(s.sweep.bar - 1) /\ Closes(s.sweep.bar - 1) <= s.at
SnapshotsAgree ==
    \A s, t \in snapshots : s.sweep = t.sweep /\ s.at <= t.at => s.bars <= t.bars /\ (s.at = t.at => s = t)
RunIsLater ==
    LET run == worker["sidecar"]
    IN  /\ run.pc \in {"stamp", "persist"} => \A s \in snapshots : s.bars <= run.bars
        /\ run.pc = "persist" => \A s \in snapshots : s.at <= run.captured

ParentsInv ==
    /\ parents \in [BarrierEvents -> ParentRows] /\ cohortStart \in Nat
    /\ \A e \in BarrierEvents : RowSound(e, parents[e], cohortStart) /\ ClearsSound(e, parents[e], clears)
RunsInv == worker \in [Workers -> RunRecords] /\ \A w \in Workers : RunSound(worker[w])
StatusIsCurrent ==
    /\ published.funnel = LatestRows(snapshots)
    /\ \A s \in snapshots : \E t \in LatestRows(snapshots) : t.sweep = s.sweep
FunnelInv == funnelStart \in Nat /\ SnapshotsSound /\ SnapshotsAgree /\ RunIsLater /\ StatusIsCurrent
SidecarInv == BarsAreClosed /\ ParentsInv /\ RunsInv /\ FunnelInv

\* Nothing that is stored is later than the tape.
LEMMA NeverIsLater ==
    ASSUME SidecarInv
    PROVE  /\ Never \in Nat /\ barNow < Never
           /\ funnelStart = Never => snapshots = {}
           /\ cohortStart = Never => \A e \in BarrierEvents : parents[e].status = "none"
<1>1. Never \in Nat /\ barNow \in Nat /\ barNow < Never
  BY BarrierAssumption DEF SidecarInv, BarsAreClosed, Never, Closes
<1>2. ASSUME funnelStart = Never, NEW s \in snapshots PROVE FALSE
  <2>1. s.sweep.bar \in Nat /\ s.sweep.bar > 0
    BY SidecarAssumption DEF SidecarInv, FunnelInv, SnapshotsSound
  <2>2. s.at \in Nat /\ s.at <= barNow /\ Never <= Closes(s.sweep.bar - 1) /\ Closes(s.sweep.bar - 1) <= s.at
    BY <1>2 DEF SidecarInv, FunnelInv, SnapshotsSound
  <2>3. Closes(s.sweep.bar - 1) \in Nat
    BY <2>1 DEF Closes
  <2> QED BY <1>1, <2>2, <2>3
<1>3. ASSUME cohortStart = Never, NEW e \in BarrierEvents, parents[e].status # "none" PROVE FALSE
  <2>1. Never <= Closes(e.bar) /\ Closes(e.bar) <= parents[e].captured /\ parents[e].captured <= barNow
    BY <1>3 DEF SidecarInv, ParentsInv, RowSound
  <2>2. Closes(e.bar) \in Nat /\ parents[e].captured \in Nat
    <3>1. parents[e] \in ParentRows
      BY DEF SidecarInv, ParentsInv
    <3> QED BY <3>1, BarrierAssumption DEF Closes, ParentRows
  <2> QED BY <1>1, <2>1, <2>2
<1> QED BY <1>1, <1>2, <1>3
\* A bar may close while the workers are under way.
LEMMA BarTickStep ==
    ASSUME SidecarInv, NEW bar \in Bars, BarTick(bar), UNCHANGED <<funnelStart, snapshots, published, worker>>
    PROVE  SidecarInv'
<1> DEFINE size == Len(barTape)
<1>1. /\ barTape \in Seq(Bars \cup {FirstBar}) /\ size \in Nat /\ 0 < size /\ barNow \in Nat
      /\ 2 * size <= barNow /\ barNow <= 2 * size + 1 /\ barNow < Closes(LastBar) /\ Closes(LastBar) \in Nat
  BY BarrierAssumption DEF SidecarInv, BarsAreClosed, BarTick, Closes
<1>2. /\ barNow' = barNow + 1 /\ barTape' = IF (barNow + 1) % 2 = 0 THEN Append(barTape, bar) ELSE barTape
      /\ UNCHANGED <<cohortStart, parents, clears>>
  BY DEF BarTick
<1>3. BarsAreClosed'
  <2>1. CASE (barNow + 1) % 2 = 0
    <3>1. barNow = 2 * size + 1
      BY <1>1, <2>1
    <3>2. barTape' \in Seq(Bars \cup {FirstBar}) /\ Len(barTape') = size + 1
      BY <1>1, <1>2, <2>1
    <3> QED BY <1>1, <1>2, <3>1, <3>2 DEF BarsAreClosed, Closes
  <2>2. CASE (barNow + 1) % 2 # 0
    <3>1. barNow = 2 * size
      BY <1>1, <2>2
    <3>2. barTape' = barTape
      BY <1>2, <2>2
    <3> QED BY <1>1, <1>2, <3>1, <3>2 DEF BarsAreClosed, Closes
  <2> QED BY <2>1, <2>2
<1>4. barNow' \in {barNow, barNow + 1} /\ barTape' \in {barTape, Append(barTape, bar)}
  BY <1>2
<1>5. /\ BarsAreClosed /\ parents \in [BarrierEvents -> ParentRows]
      /\ \A e \in BarrierEvents : RowSound(e, parents[e], cohortStart) /\ ClearsSound(e, parents[e], clears)
  BY DEF SidecarInv, ParentsInv
<1>6. ASSUME NEW e \in BarrierEvents
      PROVE  RowSound(e, parents[e], cohortStart)' /\ ClearsSound(e, parents[e], clears)'
  <2>1. /\ RowSound(e, parents[e], cohortStart)'
        /\ \A c : ClearSound(e, parents[e], c) => ClearSound(e, parents[e], c)'
    <3> DEFINE row == parents[e]
               start == cohortStart
    <3>1. row \in ParentRows /\ RowSound(e, row, start) /\ row' = row /\ start' = start
      BY <1>2, <1>5
    <3> HIDE DEF row, start
    <3>2. /\ \A r \in ParentRows : \A s : RowSound(e, r, s) => RowSound(e, r, s)'
          /\ \A r \in ParentRows : \A s, c : RowSound(e, r, s) /\ ClearSound(e, r, c) => ClearSound(e, r, c)'
      BY <1>4, <1>5, RowStands
    <3>3. RowSound(e, row, start)' /\ \A c : ClearSound(e, row, c) => ClearSound(e, row, c)'
      BY <3>1, <3>2
    <3> QED BY <3>3 DEF row, start
  <2> QED BY <1>2, <1>5, <2>1 DEF ClearsSound
<1>7. ParentsInv'
  BY <1>2, <1>6 DEF SidecarInv, ParentsInv
<1>8. barNow <= barNow' /\ size <= Len(barTape')
  <2>1. barNow <= barNow' /\ size <= size + 1 /\ size <= size
    BY <1>1, <1>2
  <2>2. Len(Append(barTape, bar)) = size + 1
    BY <1>1
  <2> QED BY <1>4, <2>1, <2>2
<1>9. barNow' \in Nat /\ Len(barTape') \in Nat
  BY <1>3 DEF BarsAreClosed
<1>10. RunsInv'
  <2>1. ASSUME NEW w \in Workers PROVE RunSound(worker[w])'
    <3>1. worker[w] \in RunRecords /\ RunSound(worker[w]) /\ worker' = worker
      BY DEF SidecarInv, RunsInv
    <3>2. worker[w].bars \in Nat /\ worker[w].captured \in Nat
      BY <3>1 DEF RunRecords
    <3> QED BY <1>1, <1>8, <1>9, <3>1, <3>2 DEF RunSound, Closes
  <2> QED BY <2>1 DEF SidecarInv, RunsInv
<1>11. FunnelInv'
  <2>1. SnapshotsSound'
    BY <1>1, <1>8, <1>9 DEF SidecarInv, FunnelInv, SnapshotsSound, Closes
  <2> QED BY <2>1 DEF SidecarInv, FunnelInv, SnapshotsAgree, RunIsLater, StatusIsCurrent
<1> QED BY <1>3, <1>7, <1>10, <1>11 DEF SidecarInv

\* A worker goes on without storing anything but the start of the study.
LEMMA RunStep ==
    ASSUME SidecarInv, UNCHANGED <<barTape, barNow, parents, clears, snapshots, published, funnelStart>>,
           cohortStart' \in Nat, cohortStart = Never \/ cohortStart' = cohortStart,
           NEW w \in Workers, NEW run \in RunRecords, worker' = [worker EXCEPT ![w] = run], RunSound(run),
           w = "sidecar" =>
               /\ run.pc \in {"stamp", "persist"} => \A s \in snapshots : s.bars <= run.bars
               /\ run.pc = "persist" => \A s \in snapshots : s.at <= run.captured
    PROVE  SidecarInv'
<1>1. BarsAreClosed'
  BY DEF SidecarInv, BarsAreClosed
<1>2. /\ \A e, row, start : RowSound(e, row, start) => RowSound(e, row, start)'
      /\ \A e, row, list : ClearsSound(e, row, list) => ClearsSound(e, row, list)'
  <2>1. barTape' = barTape /\ barNow' = barNow
    OBVIOUS
  <2>2. \A e, row : EndsOf(e, row)' = EndsOf(e, row)
    BY <2>1 DEF EndsOf
  <2>3. \A e, row, b : EndedBy(e, row, b)' <=> EndedBy(e, row, b)
    BY <2>1, <2>2 DEF EndedBy
  <2>4. \A e, row, c : ClearSound(e, row, c)' <=> ClearSound(e, row, c)
    BY <2>1 DEF ClearSound
  <2> QED BY <2>1, <2>2, <2>3, <2>4 DEF RowSound, ClearsSound
<1>3. ParentsInv'
  <2>1. ASSUME NEW e \in BarrierEvents PROVE RowSound(e, parents[e], cohortStart')
    BY NeverIsLater DEF SidecarInv, ParentsInv, RowSound
  <2>2. \A e \in BarrierEvents : RowSound(e, parents[e], cohortStart)'
    BY <1>2, <2>1
  <2>3. \A e \in BarrierEvents : ClearsSound(e, parents[e], clears)'
    BY <1>2 DEF SidecarInv, ParentsInv
  <2> QED BY <2>2, <2>3 DEF SidecarInv, ParentsInv
<1>4. RunsInv'
  <2>1. worker \in [Workers -> RunRecords] /\ \A v \in Workers : RunSound(worker[v])
    BY DEF SidecarInv, RunsInv
  <2>2. worker' \in [Workers -> RunRecords] /\ \A v \in Workers : worker'[v] = IF v = w THEN run ELSE worker[v]
    BY <2>1
  <2>3. \A r : RunSound(r) => RunSound(r)'
    BY DEF RunSound
  <2>4. \A v \in Workers : RunSound(worker'[v])
    BY <2>1, <2>2
  <2> QED BY <2>2, <2>3, <2>4 DEF RunsInv
<1>5. FunnelInv'
  <2>1. RunIsLater'
    <3>1. worker'["sidecar"] = IF w = "sidecar" THEN run ELSE worker["sidecar"]
      BY SidecarAssumption DEF SidecarInv, RunsInv
    <3> QED BY <3>1 DEF SidecarInv, FunnelInv, RunIsLater
  <2> QED BY <2>1 DEF SidecarInv, FunnelInv, SnapshotsSound, SnapshotsAgree, StatusIsCurrent
<1> QED BY <1>1, <1>3, <1>4, <1>5 DEF SidecarInv
\* The steps of a worker up to its transaction.
LEMMA WorkerSteps ==
    ASSUME SidecarInv,
           \/ Track \/ StartParents \/ ReadGate
           \/ \E w \in Workers :
                  \/ \E deep, failed \in SUBSET Symbols, last \in Bars \cup {FirstBar} :
                         Collect(w, deep, failed, last)
                  \/ Stamp(w) \/ Die(w)
    PROVE  SidecarInv'
<1>1. /\ BarsAreClosed /\ worker \in [Workers -> RunRecords] /\ \A w \in Workers : RunSound(worker[w])
      /\ cohortStart \in Nat /\ barNow \in Nat /\ "sidecar" \in Workers /\ "parents" \in Workers
  BY SidecarAssumption DEF SidecarInv, RunsInv, ParentsInv, BarsAreClosed
<1>2. /\ \A s \in snapshots : s.bars <= Len(barTape) /\ s.at <= barNow
      /\ worker["sidecar"].pc \in {"stamp", "persist"} => \A s \in snapshots : s.bars <= worker["sidecar"].bars
      /\ Len(barTape) \in Nat
  BY DEF SidecarInv, FunnelInv, SnapshotsSound, RunIsLater, BarsAreClosed
<1>3. Never \in Nat /\ Off \in RunRecords /\ Off.pc = "off"
  BY NeverIsLater DEF Off, RunRecords
<1>4. ASSUME Track PROVE SidecarInv'
  <2> DEFINE followed == {e.symbol : e \in {f \in FrozenParents : parents[f].status = "PENDING"}}
             run == [Off EXCEPT !.pc = "collect", !.tracked = followed]
  <2>1. followed \in SUBSET Symbols
    BY DEF FrozenParents, Symbols
  <2>2. worker' = [worker EXCEPT !["sidecar"] = run]
    BY <1>4 DEF Track
  <2> HIDE DEF followed
  <2>3. run \in RunRecords /\ run.pc = "collect"
    BY <1>3, <2>1 DEF RunRecords, Off
  <2> HIDE DEF run
  <2>4. RunSound(run)
    BY <2>3 DEF RunSound
  <2>5. /\ UNCHANGED <<barTape, barNow, parents, clears, snapshots, published, funnelStart>>
        /\ cohortStart' \in Nat /\ (cohortStart = Never \/ cohortStart' = cohortStart)
    BY <1>1, <1>4 DEF Track
  <2> QED BY <1>1, <2>2, <2>3, <2>4, <2>5, RunStep
<1>5. ASSUME StartParents PROVE SidecarInv'
  <2> DEFINE run == [Off EXCEPT !.pc = "collect"]
  <2>1. worker' = [worker EXCEPT !["parents"] = run]
    BY <1>5 DEF StartParents
  <2>2. run \in RunRecords /\ run.pc = "collect"
    BY <1>3 DEF RunRecords
  <2> HIDE DEF run
  <2>3. RunSound(run)
    BY <2>2 DEF RunSound
  <2>4. UNCHANGED <<barTape, barNow, parents, clears, snapshots, published, funnelStart, cohortStart>>
    BY <1>5 DEF StartParents, studyVars
  <2> QED BY <1>1, <2>1, <2>2, <2>3, <2>4, RunStep
<1>6. ASSUME NEW w \in Workers, NEW deep \in SUBSET Symbols, NEW failed \in SUBSET Symbols,
             NEW last \in Bars \cup {FirstBar}, Collect(w, deep, failed, last)
      PROVE  SidecarInv'
  <2> DEFINE found == (deep \cup worker[w].tracked) \ failed
             run == [worker[w] EXCEPT !.pc = "stamp", !.tracked = {}, !.bars = Len(barTape), !.last = last,
                                    !.analysed = found]
  <2>1. worker' = [worker EXCEPT ![w] = run]
    BY <1>1, <1>6 DEF Collect
  <2>2. worker[w] \in RunRecords
    BY <1>1
  <2>3. found \in SUBSET Symbols
    BY <2>2 DEF RunRecords
  <2> HIDE DEF found
  <2>4. run \in RunRecords /\ run.pc = "stamp" /\ run.bars = Len(barTape)
    BY <1>2, <2>2, <2>3 DEF RunRecords
  <2> HIDE DEF run
  <2>5. RunSound(run)
    BY <1>1, <1>2, <2>4 DEF RunSound, BarsAreClosed
  <2>6. UNCHANGED <<barTape, barNow, parents, clears, snapshots, published, funnelStart, cohortStart>>
    BY <1>6 DEF Collect, studyVars
  <2> QED BY <1>1, <1>2, <2>1, <2>4, <2>5, <2>6, RunStep
<1>7. ASSUME NEW w \in Workers, Stamp(w) PROVE SidecarInv'
  <2> DEFINE run == [worker[w] EXCEPT !.pc = "persist", !.captured = barNow]
  <2>1. worker' = [worker EXCEPT ![w] = run] /\ worker[w].pc = "stamp"
    BY <1>1, <1>7 DEF Stamp
  <2>2. worker[w] \in RunRecords
    BY <1>1
  <2>3. run \in RunRecords /\ run.pc = "persist" /\ run.captured = barNow /\ run.bars = worker[w].bars
    BY <1>1, <2>2 DEF RunRecords
  <2> HIDE DEF run
  <2>4. RunSound(run)
    <3>1. 0 < worker[w].bars /\ worker[w].bars <= Len(barTape) /\ worker[w].bars \in Nat /\ Closes(Len(barTape)) <= barNow
      BY <1>1, <2>1, <2>2 DEF RunSound, RunRecords, BarsAreClosed
    <3> QED BY <1>1, <1>2, <2>3, <3>1 DEF RunSound, Closes
  <2>5. UNCHANGED <<barTape, barNow, parents, clears, snapshots, published, funnelStart, cohortStart>>
    BY <1>7 DEF Stamp, studyVars
  <2> QED BY <1>1, <1>2, <2>1, <2>3, <2>4, <2>5, RunStep
<1>8. ASSUME NEW w \in Workers, Die(w) PROVE SidecarInv'
  <2>1. worker' = [worker EXCEPT ![w] = Off]
    BY <1>8 DEF Die
  <2>2. RunSound(Off)
    BY <1>3 DEF RunSound
  <2>3. UNCHANGED <<barTape, barNow, parents, clears, snapshots, published, funnelStart, cohortStart>>
    BY <1>8 DEF Die, studyVars
  <2> QED BY <1>1, <1>3, <2>1, <2>2, <2>3, RunStep
<1>9. ASSUME ReadGate PROVE SidecarInv'
  <2>1. worker' = [worker EXCEPT !["sidecar"] = worker["sidecar"]]
    BY <1>1, <1>9 DEF ReadGate
  <2>2. UNCHANGED <<barTape, barNow, parents, clears, snapshots, published, funnelStart, cohortStart>>
    BY <1>9 DEF ReadGate, studyVars
  <2>3. worker["sidecar"] \in RunRecords /\ RunSound(worker["sidecar"])
    BY <1>1
  <2>4. RunIsLater
    BY DEF SidecarInv, FunnelInv
  <2> QED BY <1>1, <2>1, <2>2, <2>3, <2>4, RunStep DEF RunIsLater
<1> QED BY <1>4, <1>5, <1>6, <1>7, <1>8, <1>9

\* What is said of the rows does not depend on the tables.
LEMMA RowsStand ==
    ASSUME UNCHANGED <<barTape, barNow>>
    PROVE  /\ \A e, row, start : RowSound(e, row, start) => RowSound(e, row, start)'
           /\ \A e, row, list : ClearsSound(e, row, list) => ClearsSound(e, row, list)'
           /\ \A run : RunSound(run) => RunSound(run)'
           /\ BarsAreClosed => BarsAreClosed'
<1>1. barTape' = barTape /\ barNow' = barNow
  OBVIOUS
<1>2. \A e, row : EndsOf(e, row)' = EndsOf(e, row)
  BY <1>1 DEF EndsOf
<1>3. \A e, row, b : EndedBy(e, row, b)' <=> EndedBy(e, row, b)
  BY <1>1, <1>2 DEF EndedBy
<1>4. \A e, row, c : ClearSound(e, row, c)' <=> ClearSound(e, row, c)
  BY <1>1 DEF ClearSound
<1> QED BY <1>1, <1>2, <1>3, <1>4 DEF RowSound, ClearsSound, RunSound, BarsAreClosed

\* The transaction of the parent worker.
LEMMA PersistParentsStep ==
    ASSUME SidecarInv, NEW candidates, PersistParents(candidates)
    PROVE  SidecarInv'
<1> DEFINE run == worker["parents"]
           start == IF cohortStart = Never THEN run.captured ELSE cohortStart
<1>1. /\ run.pc = "persist" /\ cohortStart' = start /\ parents' = Frozen(run, candidates, start)
      /\ worker' = [worker EXCEPT !["parents"] = Off]
      /\ UNCHANGED <<barTape, barNow, clears, funnelStart, snapshots, published>>
  BY DEF PersistParents
<1>2. /\ BarsAreClosed /\ worker \in [Workers -> RunRecords] /\ \A w \in Workers : RunSound(worker[w])
      /\ cohortStart \in Nat /\ "parents" \in Workers /\ "sidecar" \in Workers
      /\ parents \in [BarrierEvents -> ParentRows]
      /\ \A e \in BarrierEvents : RowSound(e, parents[e], cohortStart) /\ ClearsSound(e, parents[e], clears)
  BY SidecarAssumption DEF SidecarInv, RunsInv, ParentsInv
<1>3. run \in RunRecords /\ RunSound(run) /\ run.captured \in Nat
  <2>1. run \in RunRecords /\ RunSound(run)
    BY <1>2
  <2> QED BY <2>1 DEF RunRecords
<1>4. start \in Nat /\ \A e \in BarrierEvents : RowSound(e, parents[e], start)
  BY <1>2, <1>3, NeverIsLater DEF RowSound
<1> HIDE DEF run, start
<1>5. ASSUME NEW e \in BarrierEvents
      PROVE  /\ parents'[e] \in ParentRows /\ RowSound(e, parents'[e], start)
             /\ ClearsSound(e, parents'[e], clears)
  <2> DEFINE new == Frozen(run, candidates, start)[e]
  <2>1. parents'[e] = new
    BY <1>1
  <2>2. /\ new \in ParentRows /\ RowSound(e, new, start)
        /\ new = parents[e] \/ (parents[e].status = "none" /\ new.status = "PENDING")
    BY <1>1, <1>2, <1>3, <1>4, FrozenRows
  <2> HIDE DEF new
  <2>3. ASSUME parents[e].status = "none", new.status = "PENDING" PROVE ClearsSound(e, new, clears)
    <3>1. \A c \in clears : c.event # e
      BY <1>2, <2>3 DEF ClearsSound, ClearSound
    <3> QED BY <2>3, <3>1 DEF ClearsSound
  <2>4. ClearsSound(e, new, clears)
    BY <1>2, <2>2, <2>3
  <2> QED BY <2>1, <2>2, <2>4
<1>6. BarsAreClosed'
  BY <1>1, <1>2, RowsStand
<1>7. \A e \in BarrierEvents : RowSound(e, parents[e], cohortStart)' /\ ClearsSound(e, parents[e], clears)'
  BY <1>1, <1>5, RowsStand
<1>8. ParentsInv'
  <2>1. parents' \in [BarrierEvents -> ParentRows]
    <3>1. DOMAIN parents' = BarrierEvents /\ parents' = [e \in BarrierEvents |-> parents'[e]]
      BY <1>1 DEF Frozen
    <3> QED BY <1>5, <3>1
  <2> QED BY <1>1, <1>4, <1>7, <2>1 DEF ParentsInv
<1>9. RunsInv' /\ worker'["sidecar"] = worker["sidecar"]
  <2>1. Off \in RunRecords /\ Off.pc = "off"
    BY NeverIsLater DEF Off, RunRecords
  <2>2. RunSound(Off)
    BY <2>1 DEF RunSound
  <2>3. \A w \in Workers : worker'[w] \in RunRecords /\ RunSound(worker'[w])
    BY <1>1, <1>2, <2>1, <2>2
  <2>4. worker' \in [Workers -> RunRecords] /\ worker'["sidecar"] = worker["sidecar"]
    BY <1>1, <1>2, <2>1
  <2>5. \A w \in Workers : RunSound(worker[w])'
    BY <1>1, <2>3, RowsStand
  <2> QED BY <2>4, <2>5 DEF RunsInv
<1>10. FunnelInv'
  BY <1>1, <1>9 DEF SidecarInv, FunnelInv, SnapshotsSound, SnapshotsAgree, RunIsLater, StatusIsCurrent
<1> QED BY <1>6, <1>8, <1>9, <1>10 DEF SidecarInv
\* The sidecar's transaction leaves the funnel without hindsight.
LEMMA FunnelStep ==
    ASSUME SidecarInv, NEW start, NEW list, worker["sidecar"].pc = "persist",
           start = IF funnelStart = Never THEN worker["sidecar"].captured ELSE funnelStart,
           \A s \in list :
               /\ s.sweep \in Recent(worker["sidecar"], start)
               /\ s.at = worker["sidecar"].captured /\ s.bars = worker["sidecar"].bars
               /\ \A old \in snapshots : ~ (old.sweep = s.sweep /\ old.at = s.at),
           \A s, t \in list : s.sweep = t.sweep => s = t,
           UNCHANGED <<barTape, barNow>>, funnelStart' = start, snapshots' = snapshots \cup list
    PROVE  /\ funnelStart' \in Nat /\ SnapshotsSound' /\ SnapshotsAgree'
           /\ \A s \in snapshots' : \E t \in LatestRows(snapshots') : t.sweep = s.sweep
<1> DEFINE run == worker["sidecar"]
<1>1. /\ run.captured \in Nat /\ run.bars \in Nat /\ run.bars <= Len(barTape) /\ run.captured <= barNow
      /\ Closes(run.bars) <= run.captured
      /\ \A s \in snapshots : s.bars <= run.bars /\ s.at <= run.captured
  <2>1. run \in RunRecords /\ RunSound(run)
    BY SidecarAssumption DEF SidecarInv, RunsInv
  <2> QED BY <2>1 DEF RunRecords, RunSound, SidecarInv, FunnelInv, RunIsLater
<1>2. \A s \in list : /\ s.sweep \in Sweeps /\ s.sweep.bar > 0 /\ start <= Closes(s.sweep.bar - 1)
                      /\ Closes(s.sweep.bar - 1) <= run.captured
                      /\ s.at = run.captured /\ s.bars = run.bars
                      /\ \A old \in snapshots : ~ (old.sweep = s.sweep /\ old.at = s.at)
  BY DEF Recent
<1> HIDE DEF run
<1>3. start \in Nat /\ (snapshots = {} \/ start = funnelStart)
  BY <1>1, NeverIsLater DEF SidecarInv, FunnelInv, run
<1>4. \A s \in snapshots :
          /\ s.sweep \in Sweeps /\ s.sweep.bar > 0 /\ s.at \in Nat /\ s.bars \in Nat
          /\ s.at <= barNow /\ s.bars <= Len(barTape) /\ Closes(s.bars) <= s.at
          /\ funnelStart <= Closes(s.sweep.bar - 1) /\ Closes(s.sweep.bar - 1) <= s.at
  BY DEF SidecarInv, FunnelInv, SnapshotsSound
<1>5. \A s \in snapshots \cup list :
          /\ s.sweep \in Sweeps /\ s.sweep.bar > 0 /\ s.at \in Nat /\ s.bars \in Nat
          /\ s.at <= barNow /\ s.bars <= Len(barTape) /\ Closes(s.bars) <= s.at
          /\ start <= Closes(s.sweep.bar - 1) /\ Closes(s.sweep.bar - 1) <= s.at
  BY <1>1, <1>2, <1>3, <1>4
<1>6. SnapshotsSound'
  <2>1. snapshots' = snapshots \cup list /\ funnelStart' = start /\ barNow' = barNow /\ barTape' = barTape
    OBVIOUS
  <2> QED BY <1>5, <2>1 DEF SnapshotsSound
<1>7. ASSUME NEW s \in snapshots \cup list, NEW t \in snapshots \cup list, s.sweep = t.sweep, s.at <= t.at
      PROVE  s.bars <= t.bars /\ (s.at = t.at => s = t)
  <2>1. CASE s \in snapshots /\ t \in snapshots
    BY <1>7, <2>1 DEF SidecarInv, FunnelInv, SnapshotsAgree
  <2>2. CASE s \in snapshots /\ t \in list
    <3>1. s.bars <= t.bars
      BY <1>1, <1>2, <2>2
    <3>2. s.at # t.at
      BY <1>2, <1>7, <2>2
    <3> QED BY <3>1, <3>2
  <2>3. CASE s \in list /\ t \in snapshots
    <3>1. s.at = t.at
      BY <1>1, <1>2, <1>4, <1>7, <2>3
    <3>2. FALSE
      BY <1>2, <1>7, <2>3, <3>1
    <3> QED BY <3>2
  <2>4. CASE s \in list /\ t \in list
    BY <1>1, <1>2, <1>7, <2>4
  <2> QED BY <2>1, <2>2, <2>3, <2>4
<1>8. SnapshotsAgree'
  BY <1>7 DEF SnapshotsAgree
<1>9. \A s \in list : s \in LatestRows(snapshots')
  <2>1. \A s \in list, t \in snapshots \cup list : t.at <= s.at
    BY <1>1, <1>2
  <2> QED BY <2>1 DEF LatestRows
<1>10. ASSUME NEW s \in snapshots'
       PROVE  \E t \in LatestRows(snapshots') : t.sweep = s.sweep
  <2>1. CASE \E t \in list : t.sweep = s.sweep
    BY <1>9, <2>1
  <2>2. CASE \A t \in list : t.sweep # s.sweep
    <3>1. s \in snapshots
      BY <2>2
    <3>2. PICK t \in LatestRows(snapshots) : t.sweep = s.sweep
      BY <3>1 DEF SidecarInv, FunnelInv, StatusIsCurrent
    <3>3. t \in LatestRows(snapshots')
      BY <2>2, <3>2 DEF LatestRows
    <3> QED BY <3>2, <3>3
  <2> QED BY <2>1, <2>2
<1> QED BY <1>3, <1>6, <1>8, <1>10

\* The transaction of the sidecar.
LEMMA PersistStudiesStep ==
    ASSUME SidecarInv, NEW candidates, NEW passing, NEW borrowable, NEW live,
           PersistStudies(candidates, passing, borrowable, live)
    PROVE  SidecarInv'
<1> DEFINE run == worker["sidecar"]
           start == FunnelStart(run)
           batch == Frozen(run, candidates, cohortStart)
           list == NewRows({Snapshot(s, run, passing, borrowable, live) : s \in Recent(run, start)})
<1>1. /\ run.pc = "persist" /\ funnelStart' = start /\ snapshots' = snapshots \cup list
      /\ parents' = Resolved(batch, run) /\ clears' = clears \cup Cleared(batch, run)
      /\ worker' = [worker EXCEPT !["sidecar"] = Off] /\ UNCHANGED <<barTape, barNow, cohortStart>>
      /\ published'.funnel = LatestRows(snapshots')
  BY DEF PersistStudies, PersistFunnel, Status
<1>2. /\ BarsAreClosed /\ worker \in [Workers -> RunRecords] /\ \A w \in Workers : RunSound(worker[w])
      /\ cohortStart \in Nat /\ "sidecar" \in Workers
      /\ parents \in [BarrierEvents -> ParentRows]
      /\ \A e \in BarrierEvents : RowSound(e, parents[e], cohortStart) /\ ClearsSound(e, parents[e], clears)
  BY SidecarAssumption DEF SidecarInv, RunsInv, ParentsInv
<1>3. run \in RunRecords /\ RunSound(run)
  BY <1>2
<1>4. \A e \in BarrierEvents :
          /\ parents'[e] \in ParentRows /\ RowSound(e, parents'[e], cohortStart)
          /\ ClearsSound(e, parents'[e], clears')
  BY <1>1, <1>2, <1>3, ResolvedRows
<1>5. ParentsInv'
  <2>1. parents' \in [BarrierEvents -> ParentRows]
    <3>1. DOMAIN parents' = BarrierEvents /\ parents' = [e \in BarrierEvents |-> parents'[e]]
      BY <1>1 DEF Resolved
    <3> QED BY <1>4, <3>1
  <2>2. \A e \in BarrierEvents : RowSound(e, parents[e], cohortStart)' /\ ClearsSound(e, parents[e], clears)'
    BY <1>1, <1>4, RowsStand
  <2> QED BY <1>1, <1>2, <2>1, <2>2 DEF ParentsInv
<1>6. RunsInv' /\ worker'["sidecar"] = Off
  <2>1. Off \in RunRecords /\ Off.pc = "off"
    BY NeverIsLater DEF Off, RunRecords
  <2>2. RunSound(Off)
    BY <2>1 DEF RunSound
  <2>3. \A w \in Workers : worker'[w] \in RunRecords /\ RunSound(worker'[w])
    BY <1>1, <1>2, <2>1, <2>2
  <2>4. worker' \in [Workers -> RunRecords] /\ worker'["sidecar"] = Off
    BY <1>1, <1>2, <2>1
  <2>5. \A w \in Workers : RunSound(worker[w])'
    BY <1>1, <2>3, RowsStand
  <2> QED BY <2>4, <2>5 DEF RunsInv
<1>7. \A s \in list : /\ s.sweep \in Recent(run, start) /\ s.at = run.captured /\ s.bars = run.bars
                      /\ \A old \in snapshots : ~ (old.sweep = s.sweep /\ old.at = s.at)
  BY DEF Snapshot, NewRows
<1>8. \A s, t \in list : s.sweep = t.sweep => s = t
  BY DEF Snapshot, NewRows
<1> HIDE DEF start, list
<1>9. /\ funnelStart' \in Nat /\ SnapshotsSound' /\ SnapshotsAgree'
      /\ \A s \in snapshots' : \E t \in LatestRows(snapshots') : t.sweep = s.sweep
  <2>1. start = IF funnelStart = Never THEN run.captured ELSE funnelStart
    BY DEF start, FunnelStart
  <2> QED BY <1>1, <1>7, <1>8, <2>1, FunnelStep
<1>10. RunIsLater'
  BY <1>6 DEF RunIsLater, Off
<1>11. StatusIsCurrent'
  BY <1>1, <1>9 DEF StatusIsCurrent
<1> QED BY <1>1, <1>2, <1>5, <1>6, <1>9, <1>10, <1>11, RowsStand DEF SidecarInv, FunnelInv
\* Nothing is stored at the start.
LEMMA SidecarStarts == SidecarInit => SidecarInv
<1> SUFFICES ASSUME SidecarInit PROVE SidecarInv
  OBVIOUS
<1>1. /\ barTape = <<FirstBar>> /\ barNow = Closes(1) /\ cohortStart = Never /\ funnelStart = Never
      /\ parents = [e \in BarrierEvents |-> NoParent] /\ clears = {} /\ snapshots = {}
      /\ worker = [w \in Workers |-> Off] /\ published = NoStatus
  BY DEF SidecarInit, StudyInit
<1>2. Never \in Nat /\ Closes(1) = 2 /\ 2 <= Closes(LastBar)
  BY BarrierAssumption DEF Never, Closes
<1>3. BarsAreClosed
  <2>1. barTape \in Seq(Bars \cup {FirstBar}) /\ Len(barTape) = 1
    BY <1>1
  <2> QED BY <1>1, <1>2, <2>1 DEF BarsAreClosed, Closes
<1>4. NoParent \in ParentRows /\ NoParent.status = "none"
  BY <1>2 DEF NoParent, ParentRows, Statuses
<1>5. ParentsInv
  <2>1. ASSUME NEW e \in BarrierEvents
        PROVE  RowSound(e, parents[e], cohortStart) /\ ClearsSound(e, parents[e], clears)
    <3>1. parents[e].status = "none" /\ clears = {}
      BY <1>1, <1>4
    <3> QED BY <3>1 DEF RowSound, ClearsSound
  <2>2. parents \in [BarrierEvents -> ParentRows]
    BY <1>1, <1>4
  <2> QED BY <1>1, <1>2, <2>1, <2>2 DEF ParentsInv
<1>6. Off \in RunRecords /\ Off.pc = "off"
  BY <1>2 DEF Off, RunRecords
<1>7. RunsInv
  <2>1. \A w \in Workers : worker[w] = Off
    BY <1>1
  <2>2. worker \in [Workers -> RunRecords]
    BY <1>1, <1>6
  <2> QED BY <1>6, <2>1, <2>2 DEF RunsInv, RunSound
<1>8. FunnelInv
  <2>1. StatusIsCurrent
    BY <1>1 DEF StatusIsCurrent, NoStatus, LatestRows
  <2> QED BY <1>1, <1>2, <2>1 DEF FunnelInv, SnapshotsSound, SnapshotsAgree, RunIsLater
<1> QED BY <1>3, <1>5, <1>7, <1>8 DEF SidecarInv

\* A parent ends with the first bar that ends it, and has its one clear row.
LEMMA ParentsEnd == SidecarInv => ParentsEndOnce
<1> SUFFICES ASSUME SidecarInv PROVE ParentsEndOnce
  OBVIOUS
<1>1. ASSUME NEW e \in FrozenParents
      PROVE  LET row == parents[e]
                 later == {i \in DOMAIN barTape : Closes(i) > row.captured}
                 ends == {i \in later : Verdict(e, barTape[i]) # "PENDING"}
                 mine == {c \in clears : c.event = e}
             IN /\ cohortStart <= Closes(e.bar) /\ Closes(e.bar) <= row.captured
                /\ mine = {} <=> row.status # "CLEARED"
                /\ row.status # "PENDING" => row.captured < row.resolved /\ row.resolved <= barNow
                /\ row.whole /\ row.status # "PENDING" => \A i \in ends : row.resolved <= Closes(i)
                /\ row.whole /\ row.status # "PENDING" /\ ~ row.torn =>
                       /\ row.resolved = Closes(Min(ends))
                       /\ row.status = Verdict(e, barTape[Min(ends)])
                /\ row.whole /\ row.status = "PENDING" => \A i \in ends : i > row.upTo
                /\ \A c \in mine : /\ Cardinality(mine) = 1 /\ Closes(c.bar) = row.resolved
                                   /\ c.bars <= Cardinality({i \in later : i <= c.bar})
  <2> DEFINE row == parents[e]
             later == {i \in DOMAIN barTape : Closes(i) > row.captured}
             ends == {i \in later : Verdict(e, barTape[i]) # "PENDING"}
             mine == {c \in clears : c.event = e}
  <2>1. e \in BarrierEvents /\ row.status # "none" /\ RowSound(e, row, cohortStart) /\ ClearsSound(e, row, clears)
    BY <1>1 DEF FrozenParents, SidecarInv, ParentsInv
  <2>2. ends = EndsOf(e, row)
    BY DEF EndsOf
  <2>3. \A c \in mine : {i \in later : i <= c.bar} =
                            {i \in DOMAIN barTape : Closes(i) > row.captured /\ i <= c.bar}
    OBVIOUS
  <2>4. \A c : c \in mine <=> c \in clears /\ c.event = e
    OBVIOUS
  <2> HIDE DEF row, mine, ends, later
  <2>5. /\ cohortStart <= Closes(e.bar) /\ Closes(e.bar) <= row.captured
        /\ row.status = "PENDING" /\ row.whole => \A i \in ends : i > row.upTo
        /\ row.status # "PENDING" => \E b \in DOMAIN barTape : EndedBy(e, row, b)
    BY <2>1, <2>2 DEF RowSound
  <2>6. mine = {} <=> row.status # "CLEARED"
    BY <2>1, <2>4 DEF ClearsSound, ClearSound
  <2>a. row.status # "PENDING" => row.captured < row.resolved /\ row.resolved <= barNow
    <3> SUFFICES ASSUME row.status # "PENDING" PROVE row.captured < row.resolved /\ row.resolved <= barNow
      OBVIOUS
    <3>1. PICK b \in DOMAIN barTape : EndedBy(e, row, b)
      BY <2>5
    <3>2. b \in 1..Len(barTape) /\ Closes(Len(barTape)) <= barNow /\ Len(barTape) \in Nat /\ barNow \in Nat
      BY DEF SidecarInv, BarsAreClosed
    <3> QED BY <3>1, <3>2 DEF EndedBy, Closes
  <2>b. ASSUME row.whole, row.status # "PENDING", NEW i \in ends PROVE row.resolved <= Closes(i)
    <3>1. PICK b \in DOMAIN barTape : EndedBy(e, row, b)
      BY <2>5, <2>b
    <3>2. row.resolved = Closes(b) /\ b <= i /\ b \in Nat /\ i \in Nat
      BY <2>2, <2>b, <3>1 DEF EndedBy, EndsOf, SidecarInv, BarsAreClosed
    <3> QED BY <3>2 DEF Closes
  <2>7. ASSUME row.whole, row.status # "PENDING", ~ row.torn
        PROVE  row.resolved = Closes(Min(ends)) /\ row.status = Verdict(e, barTape[Min(ends)])
    <3>1. PICK b \in DOMAIN barTape : EndedBy(e, row, b)
      BY <2>5, <2>7
    <3>2. b \in ends /\ row.resolved = Closes(b) /\ row.status = Verdict(e, barTape[b]) /\ \A i \in ends : b <= i
      BY <2>2, <2>7, <3>1 DEF EndedBy
    <3>3. ends \in SUBSET Int /\ b \in Int
      BY <2>2, <3>2 DEF EndsOf, SidecarInv, BarsAreClosed
    <3>4. Min(ends) \in ends /\ \A i \in ends : Min(ends) <= i
      BY <3>2, <3>3, MinOf
    <3> DEFINE m == Min(ends)
    <3> HIDE DEF m
    <3>5. m \in ends /\ m <= b
      BY <3>2, <3>4 DEF m
    <3>6. m = b
      BY <3>2, <3>3, <3>5
    <3> QED BY <3>2, <3>6 DEF m
  <2>8. ASSUME NEW c \in mine
        PROVE  /\ Cardinality(mine) = 1 /\ Closes(c.bar) = row.resolved
               /\ c.bars <= Cardinality({i \in later : i <= c.bar})
    <3>1. mine = {c}
      BY <2>1, <2>4 DEF ClearsSound
    <3>2. Cardinality(mine) = 1
      BY <3>1, FS_Singleton
    <3>3. ClearSound(e, row, c)
      BY <2>1, <2>4 DEF ClearsSound
    <3> QED BY <2>3, <3>2, <3>3 DEF ClearSound
  <2> QED BY <2>5, <2>6, <2>7, <2>8, <2>a, <2>b DEF row, mine, ends, later
<1>2. Development(parents) \cap Validation(parents) = {}
  BY DEF Development, Validation
<1>3. \A e \in Development2(parents) : parents[e].captured > Activation
  BY DEF Development2, FirstOf, OfSide, Eligible
<1> QED BY <1>1, <1>2, <1>3 DEF ParentsEndOnce

\* No run of the sidecar is refused by version 2.
LEMMA RunsAreAccepted == SidecarInv => NoRunIsRefused
<1> SUFFICES ASSUME SidecarInv, worker["sidecar"].pc = "persist"
    PROVE  LET run == worker["sidecar"]
           IN  Contract2(Resolved(Frozen(run, Candidates(run), cohortStart), run))
  BY DEF NoRunIsRefused
<1> DEFINE run == worker["sidecar"]
           batch == Frozen(run, Candidates(run), cohortStart)
           list == Resolved(batch, run)
<1>1. run \in RunRecords /\ RunSound(run) /\ run.pc = "persist"
  BY SidecarAssumption DEF SidecarInv, RunsInv
<1> HIDE DEF run
<1>2. \A e \in BarrierEvents : list[e] \in ParentRows /\ RowSound(e, list[e], cohortStart)
  BY <1>1, ResolvedRows DEF SidecarInv, ParentsInv
<1>3. list \in [BarrierEvents -> ParentRows]
  <2>1. list = [e \in BarrierEvents |-> list[e]]
    BY DEF Resolved
  <2> HIDE DEF list
  <2> QED BY <1>2, <2>1
<1> HIDE DEF list
<1>4. Contract2(list)
  BY <1>2, <1>3, SoundIsAccepted DEF SidecarInv
<1> QED BY <1>4 DEF run, batch, list

\* The funnel has no hindsight, and its status counts each sweep once.
LEMMA FunnelHolds == SidecarInv => FunnelHasNoHindsight
<1> SUFFICES ASSUME SidecarInv PROVE FunnelHasNoHindsight
  OBVIOUS
<1>1. /\ SnapshotsSound /\ SnapshotsAgree /\ published.funnel = LatestRows(snapshots)
      /\ \A s \in snapshots : \E t \in LatestRows(snapshots) : t.sweep = s.sweep
  BY DEF SidecarInv, FunnelInv, StatusIsCurrent
<1>2. ASSUME NEW s \in snapshots
      PROVE  \E t \in published.funnel :
                 /\ t \in snapshots /\ t.sweep = s.sweep /\ s.bars <= t.bars
                 /\ \A u \in published.funnel : u.sweep = s.sweep => u = t
  <2>1. PICK t \in LatestRows(snapshots) : t.sweep = s.sweep
    BY <1>1
  <2>2. t \in snapshots /\ s.at <= t.at /\ s.bars <= t.bars
    BY <1>1, <2>1 DEF LatestRows, SnapshotsAgree
  <2>3. ASSUME NEW u \in LatestRows(snapshots), u.sweep = s.sweep PROVE u = t
    <3>1. u \in snapshots /\ u.at <= t.at /\ t.at <= u.at /\ u.at \in Nat /\ t.at \in Nat
      BY <1>1, <2>1, <2>2, <2>3 DEF LatestRows, SnapshotsSound
    <3> QED BY <1>1, <2>1, <2>2, <2>3, <3>1 DEF SnapshotsAgree
  <2> QED BY <1>1, <2>1, <2>2, <2>3
<1> QED BY <1>1, <1>2 DEF SnapshotsSound, SnapshotsAgree, FunnelHasNoHindsight

\* The rows of the sidecar are the ones the bars and the preregistration call
\* for, whatever dies or runs beside it.
THEOREM StudyIsSoundHolds == SidecarSpec => []StudyIsSound
<1>1. SidecarInv /\ [SidecarNext]_sidecarVars => SidecarInv'
  <2> SUFFICES ASSUME SidecarInv, [SidecarNext]_sidecarVars PROVE SidecarInv'
    OBVIOUS
  <2>1. ASSUME NEW bar \in Bars, BarTick(bar), UNCHANGED <<funnelStart, snapshots, published, worker>> PROVE SidecarInv'
    BY <2>1, BarTickStep
  <2>2. CASE \/ Track \/ StartParents \/ ReadGate
             \/ \E w \in Workers :
                    \/ \E deep, failed \in SUBSET Symbols, last \in Bars \cup {FirstBar} :
                           Collect(w, deep, failed, last)
                    \/ Stamp(w) \/ Die(w)
    BY <2>2, WorkerSteps
  <2>3. CASE \E candidates : PersistParents(candidates)
    BY <2>3, PersistParentsStep
  <2>4. CASE \E candidates, passing, borrowable, live : PersistStudies(candidates, passing, borrowable, live)
    BY <2>4, PersistStudiesStep
  <2>5. CASE UNCHANGED sidecarVars
    <3>1. worker' = [worker EXCEPT !["sidecar"] = worker["sidecar"]]
      BY <2>5, SidecarAssumption DEF sidecarVars, SidecarInv, RunsInv
    <3>2. UNCHANGED <<barTape, barNow, parents, clears, snapshots, published, funnelStart, cohortStart>>
      BY <2>5 DEF sidecarVars, studyVars
    <3>3. /\ worker["sidecar"] \in RunRecords /\ RunSound(worker["sidecar"]) /\ cohortStart \in Nat /\ RunIsLater
          /\ "sidecar" \in Workers
      BY SidecarAssumption DEF SidecarInv, RunsInv, ParentsInv, FunnelInv
    <3> QED BY <3>1, <3>2, <3>3, RunStep DEF RunIsLater
  <2> QED BY <2>1, <2>2, <2>3, <2>4, <2>5 DEF SidecarNext
<1>2. SidecarInv => StudyIsSound
  BY ParentsEnd, RunsAreAccepted, FunnelHolds DEF StudyIsSound
<1> QED BY <1>1, <1>2, SidecarStarts, PTL DEF SidecarSpec
------------------------------------------------------------------------------
(***************************************************************************)
(* Pullback, for any tape and any windows.                                 *)
(***************************************************************************)

\* A step of the walk over the impulses.
CandidateStep(f, r, i) ==
    IF i = 0 THEN {}
    ELSE IF Impulse(r, i) /\ \A c \in f[i - 1] : i - c >= Cooldown
         THEN f[i - 1] \cup {i} ELSE f[i - 1]

\* The steps define a function, since each rests on the one before.
LEMMA CandidatesExist ==
    ASSUME NEW r
    PROVE  \E f : f = [i \in 0..LastSlot |-> CandidateStep(f, r, i)]
<1>0. LastSlot \in Nat /\ Cooldown \in Nat \ {0}
  BY PullbackAssumption
<1> USE <1>0
<1> DEFINE Upto(n) == \E f : f = [i \in 0..n |-> CandidateStep(f, r, i)]
           Missing == {n \in Nat : n <= LastSlot /\ ~ Upto(n)}
<1>1. Upto(0)
  <2> DEFINE f == [i \in 0..0 |-> {}]
  <2>1. f = [i \in 0..0 |-> CandidateStep(f, r, i)]
    BY DEF CandidateStep
  <2> QED BY <2>1
<1>2. ASSUME NEW n \in 1..LastSlot, Upto(n - 1)
      PROVE  Upto(n)
  <2>1. PICK f : f = [i \in 0..n - 1 |-> CandidateStep(f, r, i)]
    BY <1>2
  <2> DEFINE g == [i \in 0..n |-> IF i = n THEN CandidateStep(f, r, n) ELSE f[i]]
  <2>2. ASSUME NEW i \in 0..n
        PROVE  g[i] = CandidateStep(g, r, i)
    <3>1. i # 0 => g[i - 1] = f[i - 1]
      OBVIOUS
    <3>2. CandidateStep(g, r, i) = CandidateStep(f, r, i)
      BY <3>1 DEF CandidateStep
    <3>3. i # n => i \in 0..n - 1 /\ f[i] = CandidateStep(f, r, i)
      BY <2>1
    <3> QED BY <3>2, <3>3
  <2> HIDE DEF g
  <2>3. g = [i \in 0..n |-> g[i]]
    BY DEF g
  <2>4. g = [i \in 0..n |-> CandidateStep(g, r, i)]
    BY <2>2, <2>3
  <2> QED BY <2>4
<1> HIDE DEF Upto
<1>3. Missing = {}
  <2> SUFFICES ASSUME Missing # {} PROVE FALSE
    OBVIOUS
  <2>1. PICK n \in Missing : \A k \in Missing : n <= k
    BY LeastNatural
  <2>2. n \in 1..LastSlot /\ n - 1 \in Nat /\ ~ (n <= n - 1) /\ n - 1 <= LastSlot
    BY <1>1
  <2>3. Upto(n - 1)
    BY <2>1, <2>2
  <2> QED BY <1>2, <2>2, <2>3
<1>4. Upto(LastSlot)
  BY <1>3
<1> QED BY <1>4 DEF Upto

\* The candidates are impulses, and every impulse is one or has one within the
\* cooldown before it.
LEMMA CandidatesCover ==
    ASSUME NEW r
    PROVE  /\ \A c \in ImpulseCandidates(r) : c \in 1..LastSlot /\ Impulse(r, c)
           /\ \A i \in 1..LastSlot : Impulse(r, i) =>
                  \E c \in ImpulseCandidates(r) : i - c \in 0..Cooldown - 1
<1>0. LastSlot \in Nat /\ Cooldown \in Nat \ {0}
  BY PullbackAssumption
<1> USE <1>0
<1> DEFINE f == CHOOSE g : g = [i \in 0..LastSlot |-> CandidateStep(g, r, i)]
<1>1. f = [i \in 0..LastSlot |-> CandidateStep(f, r, i)]
  BY CandidatesExist
<1>2. ImpulseCandidates(r) = f[LastSlot]
  BY Zenon DEF ImpulseCandidates, CandidateStep
<1> HIDE DEF f
<1>3. \A i \in 0..LastSlot : f[i] = CandidateStep(f, r, i)
  BY <1>1
<1> DEFINE Fine(n) ==
               /\ \A c \in f[n] : c \in 1..n /\ Impulse(r, c)
               /\ \A i \in 1..n : Impulse(r, i) => \E c \in f[n] : i - c \in 0..Cooldown - 1
           Wrong == {n \in Nat : n <= LastSlot /\ ~ Fine(n)}
<1>4. Fine(0)
  <2>1. f[0] = CandidateStep(f, r, 0)
    BY <1>3
  <2>2. CandidateStep(f, r, 0) = {}
    BY DEF CandidateStep
  <2> QED BY <2>1, <2>2
<1>5. ASSUME NEW n \in 1..LastSlot, Fine(n - 1)
      PROVE  Fine(n)
  <2>1. f[n] = CandidateStep(f, r, n) /\ n - 1 \in Nat /\ n # 0
    BY <1>3
  <2>2. /\ \A c \in f[n - 1] : c \in 1..n - 1 /\ Impulse(r, c)
        /\ \A i \in 1..n - 1 : Impulse(r, i) => \E c \in f[n - 1] : i - c \in 0..Cooldown - 1
    BY <1>5
  <2>3. \A c \in f[n] : c \in 1..n /\ Impulse(r, c)
    BY <2>1, <2>2 DEF CandidateStep
  <2>4. f[n - 1] \subseteq f[n]
    BY <2>1 DEF CandidateStep
  <2>5. ASSUME NEW i \in 1..n, Impulse(r, i)
        PROVE  \E c \in f[n] : i - c \in 0..Cooldown - 1
    <3>1. CASE i # n
      <4>1. i \in 1..n - 1
        BY <3>1
      <4> QED BY <4>1, <2>2, <2>4, <2>5
    <3>2. CASE i = n /\ \A c \in f[n - 1] : n - c >= Cooldown
      <4>1. n \in f[n] /\ n - n \in 0..Cooldown - 1
        BY <2>1, <2>5, <3>2 DEF CandidateStep
      <4> QED BY <4>1, <3>2
    <3>3. CASE i = n /\ ~ \A c \in f[n - 1] : n - c >= Cooldown
      <4>1. PICK c \in f[n - 1] : ~ (n - c >= Cooldown)
        BY <3>3
      <4>2. c \in 1..n - 1
        BY <2>2
      <4> QED BY <4>1, <4>2, <2>4, <3>3
    <3> QED BY <3>1, <3>2, <3>3
  <2> QED BY <2>3, <2>5
<1> HIDE DEF Fine
<1>6. Wrong = {}
  <2> SUFFICES ASSUME Wrong # {} PROVE FALSE
    OBVIOUS
  <2>1. PICK n \in Wrong : \A k \in Wrong : n <= k
    BY LeastNatural
  <2>2. n \in 1..LastSlot /\ n - 1 \in Nat /\ ~ (n <= n - 1) /\ n - 1 <= LastSlot
    BY <1>4
  <2>3. Fine(n - 1)
    BY <2>1, <2>2
  <2> QED BY <1>5, <2>2, <2>3
<1>7. Fine(LastSlot)
  BY <1>6
<1> QED BY <1>2, <1>7 DEF Fine

\* A step of the walk over the events.
EventStep(f, r, i) ==
    IF i = 0 THEN {}
    ELSE IF /\ i \in ImpulseCandidates(r) /\ Reaccelerations(r, i) # {}
            /\ \A e \in f[i - 1] : i + 1 - e.trigger >= Cooldown
            /\ \A e \in f[i - 1] : PullbackEvent(r, i).trigger - e.trigger >= Cooldown
         THEN f[i - 1] \cup {PullbackEvent(r, i)} ELSE f[i - 1]

\* The steps define a function, since each rests on the one before.
LEMMA EventsExist ==
    ASSUME NEW r
    PROVE  \E f : f = [i \in 0..LastSlot |-> EventStep(f, r, i)]
<1>0. LastSlot \in Nat /\ Cooldown \in Nat \ {0}
  BY PullbackAssumption
<1> USE <1>0
<1> DEFINE Upto(n) == \E f : f = [i \in 0..n |-> EventStep(f, r, i)]
           Missing == {n \in Nat : n <= LastSlot /\ ~ Upto(n)}
<1>1. Upto(0)
  <2> DEFINE f == [i \in 0..0 |-> {}]
  <2>1. f = [i \in 0..0 |-> EventStep(f, r, i)]
    BY DEF EventStep
  <2> QED BY <2>1
<1>2. ASSUME NEW n \in 1..LastSlot, Upto(n - 1)
      PROVE  Upto(n)
  <2>1. PICK f : f = [i \in 0..n - 1 |-> EventStep(f, r, i)]
    BY <1>2
  <2> DEFINE g == [i \in 0..n |-> IF i = n THEN EventStep(f, r, n) ELSE f[i]]
  <2>2. ASSUME NEW i \in 0..n
        PROVE  g[i] = EventStep(g, r, i)
    <3>1. i # 0 => g[i - 1] = f[i - 1]
      OBVIOUS
    <3>2. EventStep(g, r, i) = EventStep(f, r, i)
      <4> HIDE DEF g
      <4> QED BY <3>1 DEF EventStep
    <3>3. i # n => i \in 0..n - 1 /\ f[i] = EventStep(f, r, i)
      BY <2>1
    <3> QED BY <3>2, <3>3
  <2> HIDE DEF g
  <2>3. g = [i \in 0..n |-> g[i]]
    BY DEF g
  <2>4. g = [i \in 0..n |-> EventStep(g, r, i)]
    BY <2>2, <2>3
  <2> QED BY <2>4
<1> HIDE DEF Upto
<1>3. Missing = {}
  <2> SUFFICES ASSUME Missing # {} PROVE FALSE
    OBVIOUS
  <2>1. PICK n \in Missing : \A k \in Missing : n <= k
    BY LeastNatural
  <2>2. n \in 1..LastSlot /\ n - 1 \in Nat /\ ~ (n <= n - 1) /\ n - 1 <= LastSlot
    BY <1>1
  <2>3. Upto(n - 1)
    BY <2>1, <2>2
  <2> QED BY <1>2, <2>2, <2>3
<1>4. Upto(LastSlot)
  BY <1>3
<1> QED BY <1>4 DEF Upto

\* An event is that of a candidate with a reacceleration.
LEMMA EventsAre ==
    ASSUME NEW r, NEW e \in Events(r)
    PROVE  \E c \in ImpulseCandidates(r) : Reaccelerations(r, c) # {} /\ e = PullbackEvent(r, c)
<1>0. LastSlot \in Nat /\ Cooldown \in Nat \ {0}
  BY PullbackAssumption
<1> USE <1>0
<1> DEFINE f == CHOOSE g : g = [i \in 0..LastSlot |-> EventStep(g, r, i)]
           IsEvent(x) == \E c \in ImpulseCandidates(r) :
                             Reaccelerations(r, c) # {} /\ x = PullbackEvent(r, c)
           Wrong == {n \in Nat : n <= LastSlot /\ ~ \A x \in f[n] : IsEvent(x)}
<1>1. f = [i \in 0..LastSlot |-> EventStep(f, r, i)]
  BY EventsExist
<1>2. Events(r) = f[LastSlot]
  BY Zenon DEF Events, EventStep
<1> HIDE DEF f
<1>3. \A i \in 0..LastSlot : f[i] = EventStep(f, r, i)
  BY <1>1
<1>4. \A x \in f[0] : IsEvent(x)
  <2>1. f[0] = EventStep(f, r, 0)
    BY <1>3
  <2>2. EventStep(f, r, 0) = {}
    BY DEF EventStep
  <2> QED BY <2>1, <2>2
<1>5. ASSUME NEW n \in 1..LastSlot, \A x \in f[n - 1] : IsEvent(x)
      PROVE  \A x \in f[n] : IsEvent(x)
  <2>1. f[n] = EventStep(f, r, n) /\ n # 0
    BY <1>3
  <2>2. \A x \in f[n] :
            \/ x \in f[n - 1]
            \/ /\ x = PullbackEvent(r, n) /\ n \in ImpulseCandidates(r)
               /\ Reaccelerations(r, n) # {}
    BY <2>1 DEF EventStep
  <2> QED BY <1>5, <2>2
<1> HIDE DEF IsEvent
<1>6. Wrong = {}
  <2> SUFFICES ASSUME Wrong # {} PROVE FALSE
    OBVIOUS
  <2>1. PICK n \in Wrong : \A k \in Wrong : n <= k
    BY LeastNatural
  <2>2. n \in 1..LastSlot /\ n - 1 \in Nat /\ ~ (n <= n - 1) /\ n - 1 <= LastSlot
    BY <1>4
  <2>3. \A x \in f[n - 1] : IsEvent(x)
    BY <2>1, <2>2
  <2> QED BY <1>5, <2>2, <2>3
<1>7. \A x \in f[LastSlot] : IsEvent(x)
  BY <1>6
<1> QED BY <1>2, <1>7 DEF IsEvent
\* What is known of a comparator and of an event.
MomentumStands(x) == x.class = "MOMENTUM_ONLY" /\ x.impulse \in Nat /\ x.trigger = x.impulse + 1
EventStands(x) ==
    /\ x.class = "CONTROLLED_PULLBACK" /\ x.impulse \in Int /\ x.trigger \in Int
    /\ \A j \in x.impulse..(x.trigger - 1) : Holds(x.saw, x.impulse, j)
    /\ \E j \in (x.impulse + 1)..(x.trigger - 2) :
           100 * Given(x.saw, x.impulse, j) >= MinRetrace * Leg(x.saw, x.impulse)

\* A cycle's comparators are pending or stored, and its events are events of
\* the rows it loaded.
IsEventOf(r, x) ==
    \E c \in ImpulseCandidates(r) : Reaccelerations(r, c) # {} /\ x = PullbackEvent(r, c)
Represented(r, c, pending, rows) ==
    Momentum(r, c) \in pending \/ \E y \in rows : SameKey(Momentum(r, c), y)
CycleSound(k, rows) ==
    /\ k = [rows |-> k.rows, pending |-> k.pending]
    /\ \A i \in DOMAIN k.rows : i \in 1..LastSlot /\ k.rows[i] \in Shapes
    /\ \A x \in k.pending : MomentumStands(x) \/ IsEventOf(k.rows, x)
    /\ \A c \in ImpulseCandidates(k.rows) : Represented(k.rows, c, k.pending, rows)

PullbackInv ==
    /\ tape \in Seq(Shapes \cup {NoRow}) /\ Len(tape) <= LastSlot
    /\ \A x \in records : MomentumStands(x) \/ EventStands(x)
    /\ ComparatorIsStored
    /\ DOMAIN cycle = Tasks
    /\ \A t \in Tasks : CycleSound(cycle[t], records)

\* The rows of a window are rows of the tape.
LEMMA RowsAre ==
    ASSUME tape \in Seq(Shapes \cup {NoRow}), NEW from \in Nat \ {0}
    PROVE  \A i \in DOMAIN LoadedRows(from, Len(tape)) :
               i \in 1..Len(tape) /\ LoadedRows(from, Len(tape))[i] \in Shapes
<1> DEFINE r == LoadedRows(from, Len(tape))
           S == {n \in from..Len(tape) : tape[n] # NoRow}
<1>1. r = [i \in S |-> tape[i]]
  BY DEF LoadedRows
<1> HIDE DEF r
<1>2. DOMAIN r = S /\ \A i \in S : r[i] = tape[i]
  BY <1>1
<1>3. \A i \in S : i \in 1..Len(tape) /\ tape[i] \in Shapes
  OBVIOUS
<1> QED BY <1>2, <1>3 DEF r

\* An impulse moves, and its leg is positive.
LEMMA LegIs ==
    ASSUME NEW r, NEW c, Impulse(r, c), \A i \in DOMAIN r : r[i].mid \in Nat
    PROVE  /\ c \in DOMAIN r /\ c - ImpulseLength \in DOMAIN r
           /\ Leg(r, c) \in Nat \ {0} /\ Direction(r, c) \in {"long", "short"}
           /\ Toward(Direction(r, c)) \in {1, -1}
           /\ MaxRetrace * Leg(r, c) \in Nat
<1>1. c \in DOMAIN r /\ c - ImpulseLength \in DOMAIN r
  BY DEF Impulse
<1>2. r[c].mid \in Nat /\ r[c - ImpulseLength].mid \in Nat /\ MinMove \in Nat \ {0}
  BY <1>1, PullbackAssumption
<1>3. Displacement(r, c) \in Int /\ (Displacement(r, c) >= MinMove \/ -Displacement(r, c) >= MinMove)
  BY <1>2 DEF Displacement, Impulse
<1>4. CASE Displacement(r, c) > 0
  <2>1. Direction(r, c) = "long" /\ Toward(Direction(r, c)) = 1
    BY <1>4 DEF Direction, Toward
  <2>2. Leg(r, c) = Displacement(r, c)
    BY <2>1, <1>3 DEF Leg
  <2>3. Leg(r, c) \in Nat \ {0}
    BY <2>2, <1>3, <1>4
  <2>4. MaxRetrace * Leg(r, c) \in Nat
    BY <2>3, PullbackAssumption
  <2> QED BY <1>1, <2>1, <2>3, <2>4
<1>5. CASE ~ (Displacement(r, c) > 0)
  <2>1. Direction(r, c) = "short" /\ Toward(Direction(r, c)) = -1
    BY <1>5 DEF Direction, Toward
  <2>2. Leg(r, c) = -Displacement(r, c)
    BY <2>1, <1>3 DEF Leg
  <2>3. Leg(r, c) \in Nat \ {0}
    BY <2>2, <1>2, <1>3, <1>5
  <2>4. MaxRetrace * Leg(r, c) \in Nat
    BY <2>3, PullbackAssumption
  <2> QED BY <1>1, <2>1, <2>3, <2>4
<1> QED BY <1>4, <1>5

\* The event of a candidate stands in the rows it was found in.
LEMMA EventIsIntact ==
    ASSUME NEW r, \A i \in DOMAIN r : r[i] \in Shapes, NEW x, IsEventOf(r, x)
    PROVE  EventStands(x)
<1>1. PICK c \in ImpulseCandidates(r) : Reaccelerations(r, c) # {} /\ x = PullbackEvent(r, c)
  BY DEF IsEventOf
<1>3. c \in Nat \ {0} /\ Impulse(r, c)
  BY <1>1, CandidatesCover
<1>4. \A i \in DOMAIN r : r[i].mid \in Nat
  BY PullbackAssumption
<1>5. /\ c \in DOMAIN r /\ c - ImpulseLength \in DOMAIN r
      /\ Leg(r, c) \in Nat \ {0} /\ Toward(Direction(r, c)) \in {1, -1} /\ MaxRetrace * Leg(r, c) \in Nat
  BY <1>3, <1>4, LegIs
<1> DEFINE P == Pullbacks(r, c)
           p == Min(P)
           R == Reaccelerations(r, c)
           j == Min(R)
<1>6. P # {} /\ P \in SUBSET Int /\ \A k \in P : c + 1 <= k
  <2>1. P # {}
    BY <1>1 DEF Reaccelerations
  <2>2. c \in Int /\ PullbackSearch \in Nat
    BY <1>3, PullbackAssumption
  <2>3. P \subseteq (c + 1)..(c + PullbackSearch)
    BY DEF Pullbacks
  <2> HIDE DEF P
  <2> QED BY <2>1, <2>2, <2>3
<1>7. p \in P /\ p \in Int /\ c + 1 <= p
  <2>1. c + 1 \in Int
    BY <1>3
  <2> HIDE DEF P
  <2> QED BY <1>6, <2>1, MinOf
<1>8. Controlled(r, c, p)
  BY <1>7 DEF Pullbacks
<1>9. R = {k \in (p + 1)..(p + ReaccelSearch) : Reaccelerates(r, c, p, k)}
  BY <1>6 DEF Reaccelerations
<1> HIDE DEF P, p, R
<1>10. R \in SUBSET Int /\ R # {} /\ \A k \in R : p + 1 <= k
  BY <1>1, <1>7, <1>9, PullbackAssumption DEF R
<1>11. j \in R /\ j \in Int /\ p + 1 <= j
  <2>1. p + 1 \in Int
    BY <1>7
  <2> QED BY <1>10, <2>1, MinOf
<1>12. Reaccelerates(r, c, p, j)
  BY <1>9, <1>11
<1>13. x.class = "CONTROLLED_PULLBACK" /\ x.impulse = c /\ x.trigger = j + 1 /\ x.saw = r
  BY <1>1 DEF PullbackEvent, R
<1> HIDE DEF j
<1>14. ASSUME NEW k \in c..j PROVE Holds(r, c, k)
  <2>1. CASE k = c
    <3>1. Given(r, c, c) = 0
      <4>1. r[c].mid \in Nat
        BY <1>4, <1>5
      <4> QED BY <4>1, <1>5 DEF Given
    <3> QED BY <2>1, <3>1, <1>5 DEF Holds
  <2>2. CASE k \in c + 1..p
    BY <2>2, <1>8 DEF Controlled
  <2>3. CASE k \in p + 1..j
    BY <2>3, <1>12 DEF Reaccelerates
  <2> QED BY <2>1, <2>2, <2>3, <1>3, <1>7, <1>11
<1>15. x.impulse \in Int /\ x.trigger \in Int /\ x.trigger - 1 = j /\ x.trigger - 2 = j - 1
  BY <1>13, <1>3, <1>11
<1>16. \A k \in x.impulse..(x.trigger - 1) : Holds(r, x.impulse, k)
  BY <1>13, <1>14, <1>15
<1>17. p \in (c + 1)..(j - 1) /\ 100 * Given(r, c, p) >= MinRetrace * Leg(r, c)
  BY <1>3, <1>7, <1>8, <1>11 DEF Controlled
<1>18. \E k \in (x.impulse + 1)..(x.trigger - 2) : 100 * Given(r, x.impulse, k) >= MinRetrace * Leg(r, x.impulse)
  BY <1>13, <1>15, <1>17
<1> QED BY <1>13, <1>15, <1>16, <1>18 DEF EventStands

\* The begin of a window is a place of the tape.
LEMMA WindowStarts == ASSUME NEW now \in Nat PROVE WindowStart(now) \in Nat \ {0}
<1> DEFINE x == ForwardStart - ImpulseLength - BaseLength
           y == now - Lookback
           high == IF x >= y THEN IF x >= 1 THEN x ELSE 1 ELSE IF y >= 1 THEN y ELSE 1
           S == {x, y, 1}
<1>1. x \in Int /\ y \in Int
  BY PullbackAssumption
<1> HIDE DEF x, y
<1>2. S \in SUBSET Int /\ S # {} /\ high \in Int /\ \A z \in S : z <= high
  BY <1>1
<1> HIDE DEF high
<1>3. 1 \in S
  OBVIOUS
<1> HIDE DEF S
<1>4. Max(S) \in S /\ \A z \in S : Max(S) >= z
  BY <1>2, MaxOf
<1>5. Max(S) \in Int /\ Max(S) >= 1
  BY <1>2, <1>3, <1>4
<1>6. WindowStart(now) = Max(S)
  BY DEF WindowStart, S, x, y
<1> QED BY <1>5, <1>6

\* Nothing is loaded of no window.
LEMMA NoCycleSound == ASSUME NEW rows PROVE CycleSound(NoCycle, rows)
<1> DEFINE r == NoCycle.rows
<1>1. /\ NoCycle.pending = {} /\ NoCycle = [rows |-> r, pending |-> NoCycle.pending]
      /\ DOMAIN r = {}
  BY DEF NoCycle
<1>2. ImpulseCandidates(r) = {}
  <2> HIDE DEF r
  <2> QED BY <1>1, CandidatesCover DEF Impulse
<1> QED BY <1>1, <1>2 DEF CycleSound

\* A cycle stays sound when the table grows.
LEMMA CycleStays ==
    ASSUME NEW k, NEW rows, NEW more, rows \subseteq more, CycleSound(k, rows)
    PROVE  CycleSound(k, more)
BY DEF CycleSound, Represented

\* Every step of recorder and tasks keeps the invariant of the sample.
LEMMA PullbackStep == PullbackInv /\ [PullbackNext]_pullbackVars => PullbackInv'
<1> SUFFICES ASSUME PullbackInv, [PullbackNext]_pullbackVars PROVE PullbackInv'
  OBVIOUS
<1>m. /\ tape \in Seq(Shapes \cup {NoRow}) /\ Len(tape) \in Nat /\ Len(tape) <= LastSlot
      /\ \A x \in records : MomentumStands(x) \/ EventStands(x)
      /\ ComparatorIsStored /\ DOMAIN cycle = Tasks
      /\ \A t \in Tasks : CycleSound(cycle[t], records)
      /\ LastSlot \in Nat
  BY PullbackAssumption DEF PullbackInv
<1>1. ASSUME Record \/ Rewrite PROVE PullbackInv'
  <2>1. records' = records /\ cycle' = cycle
    BY <1>1 DEF Record, Rewrite
  <2>2. tape' \in Seq(Shapes \cup {NoRow}) /\ Len(tape') <= LastSlot
    <3>1. CASE Record
      <4>1. PICK b \in Shapes \cup {NoRow} : tape' = Append(tape, b) /\ Len(tape) < LastSlot
        BY <3>1 DEF Record
      <4> QED BY <1>m, <4>1
    <3>2. CASE Rewrite
      <4>1. PICK i \in 1..Len(tape), b \in Shapes : tape' = [tape EXCEPT ![i] = b]
        BY <3>2 DEF Rewrite
      <4> QED BY <1>m, <4>1
    <3> QED BY <1>1, <3>1, <3>2
  <2>3. ComparatorIsStored'
    BY <1>m, <2>1 DEF ComparatorIsStored, StoredOf
  <2> QED BY <1>m, <2>1, <2>2, <2>3 DEF PullbackInv
<1>2. ASSUME NEW s \in Tasks, NEW k, tape' = tape, records' = records,
             cycle' = [cycle EXCEPT ![s] = k], CycleSound(k, records)
      PROVE  PullbackInv'
  <2>1. DOMAIN cycle' = Tasks /\ \A t \in Tasks : cycle'[t] = IF t = s THEN k ELSE cycle[t]
    BY <1>2, <1>m
  <2>2. \A t \in Tasks : CycleSound(cycle'[t], records)
    BY <1>2, <1>m, <2>1
  <2>3. ComparatorIsStored'
    BY <1>m, <1>2 DEF ComparatorIsStored, StoredOf
  <2> QED BY <1>2, <1>m, <2>1, <2>2, <2>3 DEF PullbackInv
<1>3. ASSUME NEW s \in Tasks, LoadWindow(s) PROVE PullbackInv'
  <2> DEFINE from == WindowStart(Len(tape) + 1)
             r == LoadedRows(from, Len(tape))
             pending == {Momentum(r, c) : c \in ImpulseCandidates(r)} \cup Events(r)
             k == [rows |-> r, pending |-> pending]
  <2>1. from \in Nat \ {0}
    BY <1>m, WindowStarts
  <2>2. tape' = tape /\ records' = records
        /\ (cycle' = [cycle EXCEPT ![s] = NoCycle] \/ cycle' = [cycle EXCEPT ![s] = k])
    BY <1>3 DEF LoadWindow
  <2>3. CycleSound(NoCycle, records)
    BY NoCycleSound
  <2> HIDE DEF from
  <2>a. \A i \in DOMAIN r : i \in 1..LastSlot /\ r[i] \in Shapes
    <3>1. \A i \in DOMAIN r : i \in 1..Len(tape) /\ r[i] \in Shapes
      BY <1>m, <2>1, RowsAre
    <3> HIDE DEF r
    <3> QED BY <1>m, <3>1
  <2> HIDE DEF r
  <2>4. k.rows = r /\ k.pending = pending /\ k = [rows |-> k.rows, pending |-> k.pending]
    OBVIOUS
  <2>5. \A x \in pending : MomentumStands(x) \/ IsEventOf(r, x)
    <3>1. \A x \in Events(r) : IsEventOf(r, x)
      BY EventsAre DEF IsEventOf
    <3>2. \A c \in ImpulseCandidates(r) : MomentumStands(Momentum(r, c))
      BY CandidatesCover DEF MomentumStands, Momentum
    <3> QED BY <3>1, <3>2
  <2>6. \A c \in ImpulseCandidates(r) : Represented(r, c, pending, records)
    BY DEF Represented
  <2> HIDE DEF pending, k
  <2>7. CycleSound(k, records)
    BY <2>4, <2>5, <2>6, <2>a DEF CycleSound
  <2> QED BY <1>2, <2>2, <2>3, <2>7
<1>4. ASSUME NEW s \in Tasks, Abandon(s) PROVE PullbackInv'
  <2>1. CycleSound(NoCycle, records)
    BY NoCycleSound
  <2> QED BY <1>2, <1>4, <2>1 DEF Abandon
<1>5. ASSUME NEW s \in Tasks, InsertNext(s) PROVE PullbackInv'
  <2>1. PICK x \in cycle[s].pending :
            /\ \A y \in cycle[s].pending : Precedes(x, y)
            /\ records' = IF \E y \in records : SameKey(x, y) THEN records ELSE records \cup {x}
            /\ cycle' = [cycle EXCEPT ![s].pending = @ \ {x}]
            /\ tape' = tape
    BY <1>5 DEF InsertNext
  <2> DEFINE old == cycle[s]
             r == old.rows
             k == [old EXCEPT !.pending = @ \ {x}]
  <2>2. CycleSound(old, records)
    BY <1>m
  <2>3. records \subseteq records' /\ records' \subseteq records \cup {x}
        /\ \E y \in records' : SameKey(x, y)
    BY <2>1 DEF SameKey
  <2>4. MomentumStands(x) \/ IsEventOf(r, x)
    BY <2>1, <2>2 DEF CycleSound
  <2>5. IsEventOf(r, x) => EventStands(x)
    BY <2>2, EventIsIntact DEF CycleSound
  <2>6. ASSUME IsEventOf(r, x)
        PROVE  \E y \in records : y.class = "MOMENTUM_ONLY" /\ y.impulse = x.impulse /\ y.side = x.side
    <3>1. PICK c \in ImpulseCandidates(r) : x = PullbackEvent(r, c)
      BY <2>6 DEF IsEventOf
    <3>2. x.class = "CONTROLLED_PULLBACK" /\ x.impulse = c /\ x.side = Direction(r, c)
      BY <3>1 DEF PullbackEvent
    <3>3. c \in Nat
      BY CandidatesCover
    <3>4. Momentum(r, c) \notin old.pending
      <4>1. Momentum(r, c).class = "MOMENTUM_ONLY"
        BY DEF Momentum
      <4> QED BY <4>1, <2>1, <3>2 DEF Precedes
    <3>5. PICK y \in records : SameKey(Momentum(r, c), y)
      BY <2>2, <3>4 DEF CycleSound, Represented
    <3>6. y.class = "MOMENTUM_ONLY" /\ y.side = Direction(r, c) /\ y.trigger = c + 1
      BY <3>5 DEF SameKey, Momentum
    <3>7. y.trigger = y.impulse + 1 /\ y.impulse \in Nat
      BY <1>m, <3>6 DEF MomentumStands, EventStands
    <3> QED BY <3>2, <3>3, <3>6, <3>7
  <2>7. ComparatorIsStored'
    <3> SUFFICES ASSUME NEW e \in records', e.class = "CONTROLLED_PULLBACK"
                 PROVE  \E y \in records' : y.class = "MOMENTUM_ONLY" /\ y.impulse = e.impulse /\ y.side = e.side
      BY DEF ComparatorIsStored, StoredOf
    <3>1. CASE e \in records
      <4>1. \E y \in records : y.class = "MOMENTUM_ONLY" /\ y.impulse = e.impulse /\ y.side = e.side
        BY <1>m, <3>1 DEF ComparatorIsStored, StoredOf
      <4> QED BY <4>1, <2>3
    <3>2. CASE e = x
      <4>1. IsEventOf(r, x)
        BY <2>4, <3>2 DEF MomentumStands
      <4> QED BY <4>1, <2>3, <2>6, <3>2
    <3> QED BY <2>3, <3>1, <3>2
  <2>8. \A y \in records' : MomentumStands(y) \/ EventStands(y)
    BY <1>m, <2>3, <2>4, <2>5
  <2>10. ASSUME NEW t \in Tasks PROVE CycleSound(cycle'[t], records')
    <3>1. CASE t # s
      <4>1. cycle'[t] = cycle[t] /\ CycleSound(cycle[t], records)
        BY <2>1, <3>1, <1>m
      <4> QED BY <4>1, <2>3, CycleStays
    <3>2. CASE t = s
      <4>1. /\ cycle'[t] = k /\ k.rows = old.rows /\ k.pending = old.pending \ {x}
            /\ k = [rows |-> k.rows, pending |-> k.pending]
        <5>1. old = [rows |-> old.rows, pending |-> old.pending]
          BY <2>2 DEF CycleSound
        <5>2. cycle'[t] = k
          BY <2>1, <3>2, <1>m
        <5>3. ASSUME NEW o, o = [rows |-> o.rows, pending |-> o.pending]
              PROVE  LET kk == [o EXCEPT !.pending = @ \ {x}]
                     IN  /\ kk.rows = o.rows /\ kk.pending = o.pending \ {x}
                         /\ kk = [rows |-> kk.rows, pending |-> kk.pending]
          <6>1. \E f, g : o = [rows |-> f, pending |-> g]
            BY <5>3
          <6> QED BY <6>1
        <5> HIDE DEF old
        <5> QED BY <5>1, <5>2, <5>3
      <4>2. ASSUME NEW c \in ImpulseCandidates(r) PROVE Represented(r, c, k.pending, records')
        <5>1. Represented(r, c, old.pending, records)
          BY <2>2 DEF CycleSound
        <5>2. CASE Momentum(r, c) = x
          BY <5>2, <2>3 DEF Represented
        <5>3. CASE Momentum(r, c) # x
          BY <5>1, <5>3, <4>1, <2>3 DEF Represented
        <5> QED BY <5>2, <5>3
      <4> HIDE DEF k
      <4> QED BY <4>1, <4>2, <2>2 DEF CycleSound
    <3> QED BY <3>1, <3>2
  <2>11. DOMAIN cycle' = Tasks
    BY <1>m, <2>1
  <2> QED BY <1>m, <2>1, <2>7, <2>8, <2>10, <2>11 DEF PullbackInv
<1>6. ASSUME UNCHANGED pullbackVars PROVE PullbackInv'
  <2>1. tape' = tape /\ records' = records /\ cycle' = cycle
    BY <1>6 DEF pullbackVars
  <2>2. ComparatorIsStored'
    BY <1>m, <2>1 DEF ComparatorIsStored, StoredOf
  <2> QED BY <1>m, <2>1, <2>2 DEF PullbackInv
<1> QED BY <1>1, <1>3, <1>4, <1>5, <1>6 DEF PullbackNext

\* The sample of a state that satisfies the invariant is sound.
LEMMA SampleIsSound == PullbackInv => PullbackSampleIsSound
<1> SUFFICES ASSUME PullbackInv PROVE PullbackSampleIsSound
  OBVIOUS
<1>1. ComparatorIsStored
  BY DEF PullbackInv
<1>2. SequenceIsIntact
  <2> SUFFICES ASSUME NEW e \in records, e.class = "CONTROLLED_PULLBACK"
               PROVE  EventStands(e)
    BY DEF SequenceIsIntact, StoredOf, EventStands
  <2> QED BY DEF PullbackInv, MomentumStands
<1>3. ImpulsesAreRepresented
  <2> SUFFICES ASSUME NEW t \in Tasks, cycle[t].pending = {},
                      NEW i \in DOMAIN cycle[t].rows, Impulse(cycle[t].rows, i)
               PROVE  \E y \in records : y.class = "MOMENTUM_ONLY" /\ i + 1 - y.trigger \in 0..(Cooldown - 1)
    BY DEF ImpulsesAreRepresented, StoredOf
  <2> DEFINE r == cycle[t].rows
  <2>1. /\ \A n \in DOMAIN r : n \in 1..LastSlot
        /\ \A c \in ImpulseCandidates(r) : Represented(r, c, cycle[t].pending, records)
    BY DEF PullbackInv, CycleSound
  <2>3. i \in 1..LastSlot /\ LastSlot \in Nat
    BY <2>1, PullbackAssumption
  <2>4. PICK c \in ImpulseCandidates(r) : i - c \in 0..Cooldown - 1
    BY <2>3, CandidatesCover
  <2>5. c \in Nat
    BY CandidatesCover
  <2>6. PICK y \in records : SameKey(Momentum(r, c), y)
    BY <2>1 DEF Represented
  <2>7. y.class = "MOMENTUM_ONLY" /\ y.trigger = c + 1
    BY <2>6 DEF SameKey, Momentum
  <2>8. i + 1 - y.trigger = i - c
    BY <2>3, <2>5, <2>7
  <2> QED BY <2>4, <2>7, <2>8
<1> QED BY <1>1, <1>2, <1>3 DEF PullbackSampleIsSound

\* The sample of the pullback study, however the tasks overlap and whenever they
\* stop, and whatever rows are replaced meanwhile: no event without its
\* comparator, no event that saw a gap or a broken leg, and no impulse of a
\* finished cycle that is left out.
THEOREM PullbackSampleIsSoundHolds == PullbackSpec => []PullbackSampleIsSound
<1>1. PullbackInit => PullbackInv
  <2> SUFFICES ASSUME PullbackInit PROVE PullbackInv
    OBVIOUS
  <2>1. tape = <<>> /\ records = {} /\ cycle = [t \in Tasks |-> NoCycle]
    BY DEF PullbackInit
  <2>2. tape \in Seq(Shapes \cup {NoRow}) /\ Len(tape) = 0
    BY <2>1
  <2>3. \A t \in Tasks : CycleSound(cycle[t], records)
    BY <2>1, NoCycleSound
  <2>4. ComparatorIsStored
    BY <2>1 DEF ComparatorIsStored, StoredOf
  <2> QED BY <2>1, <2>2, <2>3, <2>4, PullbackAssumption DEF PullbackInv
<1> QED BY <1>1, PullbackStep, SampleIsSound, PTL DEF PullbackSpec
=============================================================================
