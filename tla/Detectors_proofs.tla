-------------------------- MODULE Detectors_proofs --------------------------
(***************************************************************************)
(* Proofs about the detectors of the day trades, about what their          *)
(* candidates are told, and about the statistics of their studies.         *)
(***************************************************************************)
EXTENDS Breakout, Sweep, DayDecision, Statistics, Extrema, FiniteSetTheorems, SequenceTheorems, TLAPS

-----------------------------------------------------------------------------
(***************************************************************************)
(* Breakout: whatever the window, the lookback and the history, a windowed *)
(* scan reports the ongoing breakout exactly while its origin can be seen, *)
(* and never reports one that does not go on.                              *)
(***************************************************************************)

\* A bar closes at or below its high, and both are numbers.
LEMMA BarFields ==
    ASSUME NEW b \in Bar
    PROVE  b.close \in Int /\ b.high \in Int /\ b.close <= b.high
BY PricesAssumption DEF Bar

\* Every state is well typed, for any prices, lookback and window.
THEOREM BreakoutTyping == Spec => []TypeOK
<1>1. Init => TypeOK
  BY BoundsAssumption DEF Init, TypeOK, Nums
<1>2. TypeOK /\ [Next]_vars => TypeOK'
  <2> SUFFICES ASSUME TypeOK, [Next]_vars
               PROVE  TypeOK'
    OBVIOUS
  <2> USE BoundsAssumption DEF TypeOK, Nums
  <2>1. CASE Tick
    <3>1. clock' = clock + 1 /\ clock' \in Nums
      BY <2>1 DEF Tick
    <3>2. bars' \in [1..clock' -> Bar]
      <4>1. PICK b \in Bar : bars' = [n \in 1..clock + 1 |-> IF n = clock + 1 THEN b ELSE bars[n]]
        BY <2>1 DEF Tick
      <4>2. \A n \in 1..clock + 1 : (IF n = clock + 1 THEN b ELSE bars[n]) \in Bar
        <5> TAKE n \in 1..clock + 1
        <5>1. CASE n = clock + 1
          BY <5>1
        <5>2. CASE n # clock + 1
          <6>1. n \in 1..clock
            BY <5>2
          <6> QED BY <6>1, <5>2
        <5> QED BY <5>1, <5>2
      <4> QED BY <3>1, <4>1, <4>2
    <3>3. origins' \subseteq 1..clock'
      BY <2>1, <3>1 DEF Tick
    <3> QED BY <2>1, <3>1, <3>2, <3>3 DEF Tick
  <2>2. CASE Fetch
    BY <2>2 DEF Fetch
  <2>3. CASE Scan
    BY <2>3 DEF Scan
  <2>4. CASE Return
    BY <2>4 DEF Return
  <2>5. CASE UNCHANGED vars
    BY <2>5 DEF vars
  <2> QED BY <2>1, <2>2, <2>3, <2>4, <2>5 DEF Next
<1> QED BY <1>1, <1>2, PTL DEF Spec

-----------------------------------------------------------------------------
(* Facts about a fixed history *)

\* Bars that hold a crossing up to m hold it up to every earlier bar.
LEMMA HoldPrefix ==
    ASSUME NEW b, NEW o \in Int, NEW m \in Int, NEW n \in Int,
           n <= m, Holding(b, o, m)
    PROVE  Holding(b, o, n)
BY DEF Holding

\* What a history says of its first k bars does not depend on later bars.
LEMMA Frame ==
    ASSUME NEW k \in Nat, NEW b, NEW c, \A m \in 1..k : c[m] = b[m],
           NEW o \in Lookback + 1 .. k, NEW n \in Int, n <= k
    PROVE  /\ Crosses(c, o) <=> Crosses(b, o)
           /\ Holding(c, o, n) <=> Holding(b, o, n)
<1>1. \A m \in Prior(o) : m \in 1..k
  BY BoundsAssumption DEF Prior
<1>2. \A p : Above(c, o, p) <=> Above(b, o, p)
  BY <1>1 DEF Above
<1>3. c[o] = b[o] /\ c[o - 1] = b[o - 1]
  BY BoundsAssumption
<1>4. \A m \in o + 1 .. n : c[m] = b[m]
  BY BoundsAssumption
<1> QED BY <1>2, <1>3, <1>4 DEF Crosses, Holding

\* A crossing q inside an ongoing breakout o crosses a higher range.
LEMMA Dominance ==
    ASSUME NEW k \in Nat, NEW b \in [1..k -> Bar],
           NEW o \in Lookback + 1 .. k, NEW q \in o + 1 .. k,
           Crosses(b, o), Crosses(b, q), Holding(b, o, q - 1),
           NEW p \in Int, Above(b, q, p)
    PROVE  Above(b, o, p)
<1>1. Above(b, o, b[q - 1].close)
  <2>1. CASE q - 1 = o
    BY <2>1 DEF Crosses
  <2>2. CASE q - 1 # o
    <3>1. q - 1 \in o + 1 .. q - 1
      BY <2>2, BoundsAssumption
    <3> QED BY <3>1 DEF Holding
  <2> QED BY <2>1, <2>2
<1>2. PICK m \in Prior(q) : ~ (b[q - 1].close > b[m].high)
  BY DEF Crosses, Above
<1>3. m \in 1..k /\ q - 1 \in 1..k
  BY BoundsAssumption DEF Prior
<1>4. p > b[m].high
  BY <1>2 DEF Above
<1>5. b[m].high \in Int /\ b[q - 1].close \in Int
  BY <1>3, BarFields
<1>6. \A j \in Prior(o) : b[j].high \in Int
  BY BarFields, BoundsAssumption DEF Prior
<1> QED BY <1>1, <1>2, <1>4, <1>5, <1>6 DEF Above

\* So an ongoing breakout goes on as long as a later crossing in it is held.
LEMMA HoldThrough ==
    ASSUME NEW k \in Nat, NEW b \in [1..k -> Bar],
           NEW o \in Lookback + 1 .. k, NEW q \in o + 1 .. k, NEW n \in q .. k,
           Crosses(b, o), Crosses(b, q), Holding(b, o, q), Holding(b, q, n)
    PROVE  Holding(b, o, n)
<1> SUFFICES ASSUME NEW m \in o + 1 .. n
             PROVE  Above(b, o, b[m].close)
  BY DEF Holding
<1>1. CASE m <= q
  BY <1>1 DEF Holding
<1>2. CASE m > q
  <2>1. Above(b, q, b[m].close)
    BY <1>2 DEF Holding
  <2>2. b[m].close \in Int
    BY BarFields, BoundsAssumption
  <2>3. Holding(b, o, q - 1)
    BY HoldPrefix
  <2> QED BY <2>1, <2>2, <2>3, Dominance
<1> QED BY <1>1, <1>2

-----------------------------------------------------------------------------
(* What a scan that may begin at bar f knows after bar n *)

\* a is the first crossing since f that is still held: it was no continuation
\* of a crossing the scan could see, and it is held.
Owns(b, f, a) == \A q \in f .. a - 1 : Crosses(b, q) => ~ Holding(b, q, a)

Scanned(b, f, n, a) ==
    /\ a # 0 => a \in f .. n /\ Crosses(b, a) /\ Holding(b, a, n) /\ Owns(b, f, a)
    /\ \A q \in f .. n : Crosses(b, q) /\ Holding(b, q, n) => a # 0 /\ a <= q

\* A crossing that is the first one held in a window is so in a window that begins later.
LEMMA OwnsLater ==
    ASSUME NEW b, NEW g \in Int, NEW h \in Int, g <= h, NEW a \in Int,
           Owns(b, g + Lookback, a)
    PROVE  Owns(b, h + Lookback, a)
<1>1. \A q \in h + Lookback .. a - 1 : q \in g + Lookback .. a - 1
  BY BoundsAssumption
<1> QED BY <1>1 DEF Owns

\* The body of the loop.
Advance(b, n, a) ==
    IF a # 0 /\ Above(b, a, b[n].close) THEN a
    ELSE IF Crosses(b, n) THEN n ELSE 0

\* One more bar: what the scan returns for n - 1 bars, advanced by bar n, is what it returns for n.
LEMMA ScanStep ==
    ASSUME NEW k \in Nat, NEW b \in [1..k -> Bar],
           NEW f \in Int, f > Lookback, NEW n \in f .. k, NEW a \in Int,
           Scanned(b, f, n - 1, a)
    PROVE  Scanned(b, f, n, Advance(b, n, a))
<1> USE BoundsAssumption
<1>0. \A q \in Int : Holding(b, q, n) => Holding(b, q, n - 1)
  BY HoldPrefix
<1>1. \A q \in f .. n - 1 : Holding(b, q, n) => Above(b, q, b[n].close)
  BY DEF Holding
<1>2. CASE a # 0 /\ Above(b, a, b[n].close)
  <2>1. Advance(b, n, a) = a
    BY <1>2 DEF Advance
  <2>2. a \in f .. n - 1 /\ Crosses(b, a) /\ Holding(b, a, n - 1) /\ Owns(b, f, a)
    BY <1>2 DEF Scanned
  <2>3. Holding(b, a, n)
    BY <1>2, <2>2 DEF Holding
  <2>4. ASSUME NEW q \in f .. n, Crosses(b, q), Holding(b, q, n)
        PROVE  a <= q
    <3>1. CASE q = n
      BY <3>1, <2>2
    <3>2. CASE q # n
      BY <3>2, <2>4, <1>0 DEF Scanned
    <3> QED BY <3>1, <3>2
  <2> QED BY <2>1, <2>2, <2>3, <2>4, <1>2 DEF Scanned
<1>3. CASE ~ (a # 0 /\ Above(b, a, b[n].close))
  <2>1. ASSUME NEW q \in f .. n - 1, Crosses(b, q)
        PROVE  ~ Holding(b, q, n)
    <3> SUFFICES ASSUME Holding(b, q, n)
                 PROVE  FALSE
      OBVIOUS
    <3>1. Holding(b, q, n - 1)
      BY <1>0
    <3>2. a # 0 /\ a <= q
      BY <2>1, <3>1 DEF Scanned
    <3>3. a \in f .. n - 1 /\ Crosses(b, a) /\ Holding(b, a, n - 1)
      BY <3>2 DEF Scanned
    <3>4. CASE a = q
      BY <3>4, <3>2, <1>1, <1>3
    <3>5. CASE a # q
      <4>1. Holding(b, a, q - 1)
        BY <3>3, HoldPrefix
      <4>2. Above(b, q, b[n].close) /\ b[n].close \in Int
        BY <1>1, BarFields
      <4>3. Above(b, a, b[n].close)
        BY <4>1, <4>2, <3>2, <3>3, <3>5, <2>1, Dominance
      <4> QED BY <4>3, <3>2, <1>3
    <3> QED BY <3>4, <3>5
  <2>2. CASE Crosses(b, n)
    <3>1. Advance(b, n, a) = n
      BY <1>3, <2>2 DEF Advance
    <3>2. Holding(b, n, n)
      BY DEF Holding
    <3>3. Owns(b, f, n)
      BY <2>1 DEF Owns
    <3>4. \A q \in f .. n : Crosses(b, q) /\ Holding(b, q, n) => n <= q
      BY <2>1
    <3>5. n # 0 /\ n \in f .. n
      OBVIOUS
    <3> QED BY <3>1, <3>2, <3>3, <3>4, <3>5, <2>2 DEF Scanned
  <2>3. CASE ~ Crosses(b, n)
    <3>1. Advance(b, n, a) = 0
      BY <1>3, <2>3 DEF Advance
    <3>2. \A q \in f .. n : ~ (Crosses(b, q) /\ Holding(b, q, n))
      BY <2>1, <2>3
    <3> QED BY <3>1, <3>2 DEF Scanned
  <2> QED BY <2>2, <2>3
<1> QED BY <1>2, <1>3

-----------------------------------------------------------------------------
(* The origins over the whole history *)

\* Every crossing that is held is, or continues, the breakout of an origin,
\* and no origin continues the breakout of another one.
OriginsInv ==
    /\ \A o \in origins : o > Lookback /\ Crosses(bars, o)
    /\ \A o, q \in origins : o < q => ~ Holding(bars, o, q)
    /\ \A q \in Lookback + 1 .. clock :
          Crosses(bars, q) => \E o \in origins : o <= q /\ Holding(bars, o, q)

\* A new bar leaves the crossings and the holding of the bars before it alone.
LEMMA TickBars ==
    ASSUME TypeOK, Tick
    PROVE  /\ clock' = clock + 1
           /\ \A m \in 1..clock : bars'[m] = bars[m]
           /\ \A o \in Lookback + 1 .. clock, n \in Int :
                 n <= clock => /\ Crosses(bars', o) <=> Crosses(bars, o)
                               /\ Holding(bars', o, n) <=> Holding(bars, o, n)
<1>1. clock' = clock + 1 /\ clock \in Nat
  BY BoundsAssumption DEF Tick, TypeOK, Nums
<1>2. \A m \in 1..clock : bars'[m] = bars[m]
  BY <1>1 DEF Tick
<1>3. ASSUME NEW o \in Lookback + 1 .. clock, NEW n \in Int, n <= clock
      PROVE  /\ Crosses(bars', o) <=> Crosses(bars, o)
             /\ Holding(bars', o, n) <=> Holding(bars, o, n)
  BY <1>1, <1>2, <1>3, Frame
<1> QED BY <1>1, <1>2, <1>3

\* Every step keeps what is known of the crossings that are held.
LEMMA OriginsStep ==
    ASSUME TypeOK, OriginsInv, [Next]_vars
    PROVE  OriginsInv'
<1> USE BoundsAssumption
<1>1. CASE Tick
  <2> DEFINE n == clock + 1
  <2>0. /\ clock' = n /\ clock \in Nat
        /\ origins \subseteq 1..clock
        /\ origins' = IF Begins(bars', n) THEN origins \cup {n} ELSE origins
    BY <1>1 DEF Tick, TypeOK, Nums
  <2>1. \A o \in origins : o \in Lookback + 1 .. clock
    BY <2>0 DEF OriginsInv
  <2>2. \A o \in origins' : o > Lookback /\ Crosses(bars', o)
    <3> TAKE o \in origins'
    <3>1. CASE o \in origins
      BY <3>1, <2>1, <1>1, TickBars DEF OriginsInv
    <3>2. CASE o \notin origins
      <4>1. o = n /\ Begins(bars', n)
        BY <3>2, <2>0
      <4> QED BY <4>1 DEF Begins
    <3> QED BY <3>1, <3>2
  <2>3. \A o, q \in origins' : o < q => ~ Holding(bars', o, q)
    <3> SUFFICES ASSUME NEW o \in origins', NEW q \in origins', o < q
                 PROVE  ~ Holding(bars', o, q)
      OBVIOUS
    <3>1. CASE o \in origins /\ q \in origins
      <4>1. o \in Lookback + 1 .. clock /\ q \in Int /\ q <= clock
        BY <3>1, <2>1
      <4> QED BY <4>1, <3>1, <1>1, TickBars DEF OriginsInv
    <3>2. CASE q \notin origins
      <4>1. q = n /\ Begins(bars', n)
        BY <3>2, <2>0
      <4>2. o \in origins
        BY <4>1, <2>0
      <4> QED BY <4>1, <4>2 DEF Begins
    <3>3. CASE o \notin origins /\ q \in origins
      BY <3>3, <2>0, <2>1
    <3> QED BY <3>1, <3>2, <3>3
  <2>4. \A q \in Lookback + 1 .. n :
           Crosses(bars', q) => \E o \in origins' : o <= q /\ Holding(bars', o, q)
    <3> SUFFICES ASSUME NEW q \in Lookback + 1 .. n, Crosses(bars', q)
                 PROVE  \E o \in origins' : o <= q /\ Holding(bars', o, q)
      OBVIOUS
    <3>1. CASE q # n
      <4>1. q \in Lookback + 1 .. clock /\ Crosses(bars, q)
        BY <3>1, <2>0, <1>1, TickBars
      <4>2. PICK o \in origins : o <= q /\ Holding(bars, o, q)
        BY <4>1 DEF OriginsInv
      <4>3. o \in Lookback + 1 .. clock
        BY <2>1
      <4>4. Holding(bars', o, q)
        BY <4>1, <4>2, <4>3, <1>1, TickBars
      <4> QED BY <4>2, <4>4, <2>0
    <3>2. CASE q = n
      <4>1. CASE Begins(bars', n)
        <5>1. n \in origins'
          BY <4>1, <2>0
        <5>2. Holding(bars', n, n)
          BY <2>0 DEF Holding
        <5> QED BY <5>1, <5>2, <3>2, <2>0
      <4>2. CASE ~ Begins(bars', n)
        <5>1. PICK o \in origins : Holding(bars', o, n)
          BY <4>2, <3>2 DEF Begins
        <5>2. o \in origins' /\ o <= n
          BY <2>0, <2>1
        <5> QED BY <5>1, <5>2, <3>2
      <4> QED BY <4>1, <4>2
    <3> QED BY <3>1, <3>2
  <2> QED BY <2>0, <2>2, <2>3, <2>4 DEF OriginsInv
<1>2. CASE UNCHANGED <<clock, bars, origins>>
  BY <1>2 DEF OriginsInv
<1> QED BY <1>1, <1>2 DEF Next, Fetch, Scan, Return, vars

\* A crossing that is held up to n belongs to an ongoing breakout.
LEMMA HeldIsOngoing ==
    ASSUME TypeOK, OriginsInv,
           NEW q \in Lookback + 1 .. clock, NEW n \in q .. clock,
           Crosses(bars, q), Holding(bars, q, n)
    PROVE  \E o \in origins : o <= q /\ Ongoing(o, n)
<1>0. clock \in Nat /\ bars \in [1..clock -> Bar] /\ origins \subseteq 1..clock
  BY BoundsAssumption DEF TypeOK, Nums
<1>1. PICK o \in origins : o <= q /\ Holding(bars, o, q)
  BY DEF OriginsInv
<1>2. o \in Lookback + 1 .. clock /\ Crosses(bars, o)
  BY <1>0, BoundsAssumption DEF OriginsInv
<1>3. CASE o = q
  BY <1>3, <1>1, <1>2 DEF Ongoing
<1>4. CASE o # q
  <2>1. q \in o + 1 .. clock
    BY <1>1, <1>2, <1>4, BoundsAssumption
  <2>2. Holding(bars, o, n)
    BY <2>1, <1>0, <1>1, <1>2, HoldThrough
  <2>3. o <= n
    BY <1>1, <1>2, BoundsAssumption
  <2> QED BY <2>2, <2>3, <1>1 DEF Ongoing
<1> QED BY <1>3, <1>4

-----------------------------------------------------------------------------
(* Runs *)

\* The loop has looked at the bars before index.
LoopInv ==
    pc = "scan" =>
        /\ from >= 1 /\ to <= clock /\ report.at <= to
        /\ index >= FirstSeen
        /\ index <= to + 1 \/ (index = FirstSeen /\ active = 0)
        /\ Scanned(bars, FirstSeen, index - 1, active)

\* What is left of a scan in its report.  The window only moves forward.
ReportInv ==
    /\ report.at <= clock
    /\ from <= 1 \/ from + Window <= clock + 1
    /\ report.origin # 0 =>
          /\ from >= 1
          /\ report.origin \in Lookback + 1 .. report.at
          /\ Crosses(bars, report.origin)
          /\ Holding(bars, report.origin, report.at)
          /\ Owns(bars, FirstSeen, report.origin)
    /\ pc = "idle" =>
          \A q \in FirstSeen .. report.at :
              q > Lookback /\ Crosses(bars, q) /\ Holding(bars, q, report.at)
                 => report.origin # 0 /\ report.origin <= q

BreakoutInv == OriginsInv /\ LoopInv /\ ReportInv

\* A new bar does not change which crossing owns an earlier bar.
LEMMA TickOwns ==
    ASSUME TypeOK, Tick, NEW f \in Int, f > Lookback, NEW a \in Int, a <= clock
    PROVE  Owns(bars', f, a) <=> Owns(bars, f, a)
<1>1. \A q \in f .. a - 1 : q \in Lookback + 1 .. clock
  BY BoundsAssumption DEF TypeOK, Nums
<1>2. \A q \in f .. a - 1 : /\ Crosses(bars', q) <=> Crosses(bars, q)
                            /\ Holding(bars', q, a) <=> Holding(bars, q, a)
  BY <1>1, TickBars
<1> QED BY <1>2 DEF Owns

\* A new bar does not change what was scanned.
LEMMA TickScanned ==
    ASSUME TypeOK, Tick, NEW f \in Int, f > Lookback, NEW n \in Int, n <= clock,
           NEW a \in Int, Scanned(bars, f, n, a)
    PROVE  Scanned(bars', f, n, a)
<1>1. \A q \in f .. n : q \in Lookback + 1 .. clock
  BY BoundsAssumption DEF TypeOK, Nums
<1>2. \A q \in f .. n : /\ Crosses(bars', q) <=> Crosses(bars, q)
                        /\ Holding(bars', q, n) <=> Holding(bars, q, n)
  BY <1>1, TickBars
<1>3. a # 0 => a \in f .. n /\ (Owns(bars', f, a) <=> Owns(bars, f, a))
  <2> SUFFICES ASSUME a # 0
               PROVE  a \in f .. n /\ (Owns(bars', f, a) <=> Owns(bars, f, a))
    OBVIOUS
  <2>1. a \in f .. n
    BY DEF Scanned
  <2>2. a <= clock
    BY <2>1, BoundsAssumption DEF TypeOK, Nums
  <2> QED BY <2>1, <2>2, TickOwns
<1> QED BY <1>2, <1>3 DEF Scanned

\* Before the first iteration the scan knows nothing.
LEMMA NothingScanned ==
    ASSUME NEW b, NEW f \in Int
    PROVE  Scanned(b, f, f - 1, 0)
BY DEF Scanned

\* Every step of the loop over the window keeps its invariant.
LEMMA LoopStep ==
    ASSUME TypeOK, LoopInv, ReportInv, [Next]_vars
    PROVE  LoopInv'
<1> USE BoundsAssumption
<1>0. clock \in Nat /\ from \in Nat /\ to \in Nat /\ index \in Nat /\ active \in Nat
  BY DEF TypeOK, Nums
<1>1. CASE Tick
  <2> SUFFICES ASSUME pc = "scan"
               PROVE  LoopInv'
    BY <1>1 DEF LoopInv, Tick
  <2>1. UNCHANGED <<pc, from, to, index, active, report>> /\ clock' = clock + 1
    BY <1>1 DEF Tick
  <2>2. Scanned(bars', FirstSeen, index - 1, active)
    <3>1. FirstSeen > Lookback /\ FirstSeen \in Int
      BY <1>0 DEF LoopInv, FirstSeen
    <3>2. CASE index <= to + 1
      BY <3>1, <3>2, <1>0, <1>1, TickScanned DEF LoopInv
    <3>3. CASE index = FirstSeen /\ active = 0
      BY <3>1, <3>3, NothingScanned
    <3> QED BY <3>2, <3>3 DEF LoopInv
  <2>3. FirstSeen' = FirstSeen
    BY <2>1 DEF FirstSeen
  <2> QED BY <1>0, <2>1, <2>2, <2>3 DEF LoopInv
<1>2. CASE Fetch
  <2>1. from' >= 1 /\ from' \in Nat /\ to' <= clock' /\ report'.at <= to'
    BY <1>0, <1>2 DEF Fetch, ReportInv
  <2>2. index' = FirstSeen' /\ active' = 0
    BY <1>2 DEF Fetch, FirstSeen
  <2>3. FirstSeen' \in Int
    BY <2>1 DEF FirstSeen
  <2>4. Scanned(bars', FirstSeen', FirstSeen' - 1, 0)
    BY <2>3, NothingScanned
  <2> QED BY <2>1, <2>2, <2>3, <2>4 DEF LoopInv
<1>3. CASE Scan
  <2>1. /\ pc = "scan" /\ index <= to /\ index' = index + 1
        /\ UNCHANGED <<clock, bars, pc, from, to, report>>
        /\ active' = Advance(bars, index, active)
    BY <1>3 DEF Scan, Advance
  <2>2. /\ FirstSeen \in Int /\ FirstSeen > Lookback
        /\ index \in FirstSeen .. clock
        /\ Scanned(bars, FirstSeen, index - 1, active)
    BY <1>0, <2>1 DEF LoopInv, FirstSeen
  <2>3. bars \in [1..clock -> Bar]
    BY DEF TypeOK
  <2>4. Scanned(bars, FirstSeen, index, active')
    BY <1>0, <2>1, <2>2, <2>3, ScanStep
  <2>5. FirstSeen' = FirstSeen /\ index' - 1 = index
    BY <1>0, <2>1 DEF FirstSeen
  <2> QED BY <1>0, <2>1, <2>2, <2>4, <2>5 DEF LoopInv
<1>4. CASE Return
  BY <1>4 DEF Return, LoopInv
<1>5. CASE UNCHANGED vars
  BY <1>5 DEF vars, LoopInv, FirstSeen
<1> QED BY <1>1, <1>2, <1>3, <1>4, <1>5 DEF Next

\* When the loop is over, it has looked at all bars up to the last one.
LEMMA AllScanned ==
    ASSUME TypeOK, LoopInv, Return
    PROVE  /\ FirstSeen \in Int /\ FirstSeen > Lookback /\ to <= clock
           /\ Scanned(bars, FirstSeen, to, active)
<1> USE BoundsAssumption
<1>0. clock \in Nat /\ from \in Nat /\ to \in Nat /\ index \in Nat /\ active \in Nat
  BY DEF TypeOK, Nums
<1>1. /\ FirstSeen \in Int /\ FirstSeen > Lookback /\ to <= clock /\ index > to
      /\ index <= to + 1 \/ (index = FirstSeen /\ active = 0)
      /\ Scanned(bars, FirstSeen, index - 1, active)
  BY <1>0 DEF LoopInv, FirstSeen, Return
<1>2. CASE index <= to + 1
  <2>1. index - 1 = to
    BY <1>0, <1>1, <1>2
  <2> QED BY <1>1, <2>1
<1>3. CASE index = FirstSeen /\ active = 0
  <2>1. \A q \in Int : ~ (q \in FirstSeen .. to)
    BY <1>0, <1>1, <1>3
  <2> QED BY <1>1, <1>3, <2>1 DEF Scanned
<1> QED BY <1>1, <1>2, <1>3

\* Every step keeps the report true, until the next one replaces it.
LEMMA ReportStep ==
    ASSUME TypeOK, LoopInv, ReportInv, [Next]_vars
    PROVE  ReportInv'
<1> USE BoundsAssumption
<1>0. /\ clock \in Nat /\ from \in Nat /\ to \in Nat /\ index \in Nat /\ active \in Nat
      /\ report.origin \in Nat /\ report.at \in Nat
  BY DEF TypeOK, Nums
<1>1. CASE Tick
  <2>1. UNCHANGED <<pc, from, report>> /\ clock' = clock + 1
    BY <1>1 DEF Tick
  <2>2. FirstSeen' = FirstSeen
    BY <2>1 DEF FirstSeen
  <2>3. report.at <= clock
    BY DEF ReportInv
  <2>4. ASSUME report.origin # 0
        PROVE  /\ Crosses(bars', report.origin)
               /\ Holding(bars', report.origin, report.at)
               /\ Owns(bars', FirstSeen, report.origin)
    <3>1. report.origin \in Lookback + 1 .. clock
      BY <1>0, <2>3, <2>4 DEF ReportInv
    <3>2. FirstSeen \in Int /\ FirstSeen > Lookback
      BY <1>0, <2>4 DEF ReportInv, FirstSeen
    <3>3. Crosses(bars', report.origin) /\ Holding(bars', report.origin, report.at)
      BY <1>0, <1>1, <2>3, <2>4, <3>1, TickBars DEF ReportInv
    <3>4. Owns(bars', FirstSeen, report.origin)
      BY <1>1, <2>4, <3>1, <3>2, TickOwns DEF ReportInv
    <3> QED BY <3>3, <3>4
  <2>5. ASSUME pc = "idle", NEW q \in FirstSeen .. report.at, q > Lookback,
               Crosses(bars', q), Holding(bars', q, report.at)
        PROVE  report.origin # 0 /\ report.origin <= q
    <3>1. q \in Lookback + 1 .. clock
      BY <1>0, <2>3, <2>5 DEF FirstSeen
    <3>2. Crosses(bars, q) /\ Holding(bars, q, report.at)
      BY <1>0, <1>1, <2>3, <2>5, <3>1, TickBars
    <3> QED BY <2>5, <3>2 DEF ReportInv
  <2>6. from <= 1 \/ from + Window <= clock + 1 + 1
    BY <1>0 DEF ReportInv
  <2>7. report.origin # 0 => from >= 1 /\ report.origin \in Lookback + 1 .. report.at
    BY DEF ReportInv
  <2>8. report.at <= clock + 1
    BY <1>0, <2>3
  <2> QED BY <2>1, <2>2, <2>4, <2>5, <2>6, <2>7, <2>8 DEF ReportInv
<1>2. CASE Fetch
  <2>1. /\ UNCHANGED <<clock, bars, report>> /\ pc' = "scan"
        /\ from' = IF clock < Window THEN 1 ELSE clock - Window + 1
    BY <1>2 DEF Fetch
  <2>2. from' \in Nat /\ from' >= 1 /\ (from' <= 1 \/ from' + Window <= clock + 1)
    BY <1>0, <2>1
  <2>3. from' >= from
    BY <1>0, <2>1 DEF ReportInv
  <2>4. report.origin # 0 => Owns(bars, FirstSeen', report.origin)
    BY <1>0, <2>2, <2>3, OwnsLater DEF ReportInv, FirstSeen
  <2> QED BY <2>1, <2>2, <2>4 DEF ReportInv
<1>3. CASE Scan
  BY <1>3 DEF Scan, ReportInv, FirstSeen
<1>4. CASE Return
  <2>1. /\ UNCHANGED <<clock, bars, from>> /\ pc' = "idle"
        /\ report' = [origin |-> active, at |-> to]
    BY <1>4 DEF Return
  <2>2. /\ FirstSeen \in Int /\ FirstSeen > Lookback /\ to <= clock
        /\ Scanned(bars, FirstSeen, to, active)
    BY <1>4, AllScanned
  <2>3. FirstSeen' = FirstSeen /\ report'.origin = active /\ report'.at = to
    BY <2>1 DEF FirstSeen
  <2>4. active # 0 => /\ active \in Lookback + 1 .. to
                      /\ Crosses(bars, active) /\ Holding(bars, active, to)
                      /\ Owns(bars, FirstSeen, active)
    <3>1. active # 0 => active \in FirstSeen .. to
      BY <2>2 DEF Scanned
    <3>2. active # 0 => active \in Lookback + 1 .. to
      BY <1>0, <2>2, <3>1
    <3> QED BY <2>2, <3>2 DEF Scanned
  <2>5. \A q \in FirstSeen .. to : Crosses(bars, q) /\ Holding(bars, q, to) => active # 0 /\ active <= q
    BY <2>2 DEF Scanned
  <2>6. from >= 1 /\ (from <= 1 \/ from + Window <= clock + 1)
    BY <1>4 DEF Return, LoopInv, ReportInv
  <2> QED BY <2>1, <2>2, <2>3, <2>4, <2>5, <2>6 DEF ReportInv
<1>5. CASE UNCHANGED vars
  BY <1>5 DEF vars, ReportInv, FirstSeen
<1> QED BY <1>1, <1>2, <1>3, <1>4, <1>5 DEF Next

\* The inductive invariant: origins over the history, the loop, the report.
THEOREM BreakoutSafety == Spec => []BreakoutInv
<1>1. Init => BreakoutInv
  <2> SUFFICES ASSUME Init
               PROVE  BreakoutInv
    OBVIOUS
  <2> USE BoundsAssumption DEF Init
  <2>1. OriginsInv
    BY DEF OriginsInv
  <2>2. LoopInv
    BY DEF LoopInv
  <2>3. ReportInv
    BY DEF ReportInv, FirstSeen
  <2> QED BY <2>1, <2>2, <2>3 DEF BreakoutInv
<1>2. TypeOK /\ BreakoutInv /\ [Next]_vars => BreakoutInv'
  BY OriginsStep, LoopStep, ReportStep DEF BreakoutInv
<1> QED BY <1>1, <1>2, BreakoutTyping, PTL DEF Spec

\* A reported context belongs to a breakout that goes on, and a run that can see
\* the origin of the ongoing breakout reports it (active_structural_breakout_context).
THEOREM ContextIsTrueHolds == Spec => []ContextIsTrue
<1>1. TypeOK /\ BreakoutInv => NoFalseBreakout
  <2> SUFFICES ASSUME TypeOK, BreakoutInv, report.origin # 0
               PROVE  \E o \in origins : o <= report.origin /\ Ongoing(o, report.at)
    BY DEF NoFalseBreakout
  <2>1. /\ report.origin \in Lookback + 1 .. clock /\ report.at \in report.origin .. clock
        /\ Crosses(bars, report.origin) /\ Holding(bars, report.origin, report.at)
    BY BoundsAssumption DEF BreakoutInv, ReportInv, TypeOK, Nums
  <2> QED BY <2>1, HeldIsOngoing DEF BreakoutInv
<1>2. TypeOK /\ BreakoutInv => OriginIsExact
  <2> SUFFICES ASSUME TypeOK, BreakoutInv, pc = "idle", NEW o \in origins,
                      Ongoing(o, report.at), o >= FirstSeen
               PROVE  report.origin = o
    BY DEF OriginIsExact
  <2>0. /\ clock \in Nat /\ report.origin \in Nat /\ report.at \in Nat /\ from \in Nat
        /\ origins \subseteq 1..clock /\ report.at <= clock
    BY DEF TypeOK, Nums, BreakoutInv, ReportInv
  <2>1. o \in Nat /\ o > Lookback /\ Crosses(bars, o) /\ o <= report.at /\ Holding(bars, o, report.at)
    BY <2>0 DEF BreakoutInv, OriginsInv, Ongoing
  <2>2. o \in FirstSeen .. report.at
    BY <2>0, <2>1, BoundsAssumption DEF FirstSeen
  <2>3. report.origin # 0 /\ report.origin <= o
    BY <2>1, <2>2 DEF BreakoutInv, ReportInv
  <2>4. PICK p \in origins : p <= report.origin /\ Ongoing(p, report.at)
    <3>1. /\ report.origin \in Lookback + 1 .. clock /\ report.at \in report.origin .. clock
          /\ Crosses(bars, report.origin) /\ Holding(bars, report.origin, report.at)
      BY <2>0, <2>3, BoundsAssumption DEF BreakoutInv, ReportInv
    <3> QED BY <3>1, HeldIsOngoing DEF BreakoutInv
  <2>5. Holding(bars, p, o)
    BY <2>0, <2>1, <2>4, HoldPrefix DEF Ongoing
  <2>6. ~ (p < o)
    BY <2>5 DEF BreakoutInv, OriginsInv
  <2> QED BY <2>0, <2>1, <2>3, <2>4, <2>6
<1> QED BY <1>1, <1>2, BreakoutTyping, BreakoutSafety, PTL DEF ContextIsTrue

\* A later run does not report an earlier origin.
THEOREM OriginNeverGoesBackHolds == Spec => OriginNeverGoesBack
<1>1. TypeOK /\ BreakoutInv /\ [Next]_vars
         => [report'.origin # 0 => report'.origin >= report.origin]_report
  <2> SUFFICES ASSUME TypeOK, BreakoutInv, [Next]_vars, report' # report, report'.origin # 0
               PROVE  report'.origin >= report.origin
    OBVIOUS
  <2>0. /\ clock \in Nat /\ report.origin \in Nat /\ report.at \in Nat /\ from \in Nat
        /\ to \in Nat /\ active \in Nat
    BY DEF TypeOK, Nums
  <2>1. Return
    BY DEF Next, Tick, Fetch, Scan, vars
  <2>2. report'.origin = active /\ report.at <= to
    BY <2>1 DEF Return, BreakoutInv, LoopInv
  <2>3. Scanned(bars, FirstSeen, to, active) /\ FirstSeen \in Int
    BY <2>1, AllScanned DEF BreakoutInv
  <2>4. active \in FirstSeen .. to /\ Crosses(bars, active) /\ Holding(bars, active, to)
    BY <2>2, <2>3 DEF Scanned
  <2> SUFFICES ASSUME active < report.origin
               PROVE  FALSE
    BY <2>0, <2>2
  <2>5. report.origin \in Lookback + 1 .. report.at /\ Owns(bars, FirstSeen, report.origin)
    BY <2>0 DEF BreakoutInv, ReportInv
  <2>6. Holding(bars, active, report.origin)
    BY <2>0, <2>2, <2>4, <2>5, HoldPrefix
  <2>7. active \in FirstSeen .. report.origin - 1
    BY <2>0, <2>3, <2>4
  <2> QED BY <2>4, <2>5, <2>6, <2>7 DEF Owns
<1> QED BY <1>1, BreakoutTyping, BreakoutSafety, PTL DEF Spec, OriginNeverGoesBack

-----------------------------------------------------------------------------
(***************************************************************************)
(* DayDecision, for any bars, analyses, lookback and window.               *)
(*                                                                         *)
(* The recursion of Context is unfolded once and for all (ContextIs); all  *)
(* that follows about a window of bars needs only its steps.               *)
(***************************************************************************)

DayTypeOK ==
    /\ dayBars \in Seq(DayShapes)
    /\ daySide \in DaySides
    /\ snap \in SnapshotFields

\* Bars, sides and analyses are of their kinds.
THEOREM DayTyping == DaySpec => []DayTypeOK
<1>1. DayInit => DayTypeOK
  BY DayAssumption DEF DayInit, DayTypeOK
<1>2. DayTypeOK /\ [DayNext]_dayVars => DayTypeOK'
  <2> SUFFICES ASSUME DayTypeOK, [DayNext]_dayVars PROVE DayTypeOK'
    OBVIOUS
  <2>1. CASE DayBar
    BY <2>1, DayAssumption DEF DayBar, DayTypeOK
  <2>2. CASE DayLook
    BY <2>2, DayAssumption DEF DayLook, DayTypeOK
  <2>3. CASE UNCHANGED dayVars
    BY <2>3 DEF dayVars, DayTypeOK
  <2> QED BY <2>1, <2>2, <2>3 DEF DayNext
<1> QED BY <1>1, <1>2, PTL DEF DaySpec

\* The bars of a look are bars.
LEMMA WindowBars ==
    ASSUME DayTypeOK
    PROVE  Window5 \in Seq(DayShapes)
<1> DEFINE first == Max({1, Len(dayBars) - DayWindow + 1})
<1>1. first = IF 1 >= Len(dayBars) - DayWindow + 1 THEN 1 ELSE Len(dayBars) - DayWindow + 1
  BY DayAssumption, MaxOfTwo DEF DayTypeOK
<1>2. first \in Int /\ first >= 1
  BY <1>1, DayAssumption DEF DayTypeOK
<1> HIDE DEF first
<1>3. SubSeq(dayBars, first, Len(dayBars)) \in Seq(DayShapes)
  BY <1>2 DEF DayTypeOK
<1> QED BY <1>3 DEF Window5, first

\* A bar of the day strategy closes on the right side of its extreme.
LEMMA ShapeFields ==
    ASSUME NEW b \in DayShapes
    PROVE  b.close \in Int /\ b.extreme \in Int /\ b.close <= b.extreme
BY DayAssumption

\* The boundary of a bar with enough bars before it is above none of them.
LEMMA BoundaryIs ==
    ASSUME NEW b \in Seq(DayShapes), NEW i \in 1..Len(b), i > DayLookback
    PROVE  /\ Boundary(b, i) \in Int
           /\ \A k \in i - DayLookback .. i - 1 : Boundary(b, i) >= b[k].extreme
<1> DEFINE before == {b[k].extreme : k \in i - DayLookback .. i - 1}
<1>1. \A k \in 1..Len(b) : b[k] \in DayShapes /\ b[k].extreme \in Int
  BY ShapeFields
<1>2. i - DayLookback .. i - 1 \subseteq 1..Len(b) /\ i - 1 \in i - DayLookback .. i - 1
  BY DayAssumption
<1>3. PICK high \in Int : \A k \in 1..Len(b) : b[k].extreme <= high
  <2> DEFINE f == [k \in 1..Len(b) |-> b[k].extreme]
  <2>1. \A k \in 1..Len(b) : f[k] \in Int
    BY <1>1
  <2>2. Len(b) \in Nat
    OBVIOUS
  <2> HIDE DEF f
  <2>3. \E high \in Int : \A k \in 1..Len(b) : f[k] <= high
    BY <2>1, <2>2, BoundedAbove
  <2> QED BY <2>3 DEF f
<1>4. before \in SUBSET Int /\ before # {} /\ \A y \in before : y <= high
  BY <1>1, <1>2, <1>3
<1>5. Max(before) \in before /\ \A y \in before : Max(before) >= y
  BY <1>4, MaxOf
<1> QED BY <1>4, <1>5 DEF Boundary

\* A step of active_structural_breakout_context.
OriginStep(f, b, i) ==
    IF i = 0 THEN 0
    ELSE IF f[i - 1] # 0 /\ b[i].close > Boundary(b, f[i - 1]) THEN f[i - 1]
    ELSE IF CrossesAt(b, i) THEN i ELSE 0

Origins(f, b) == \A i \in 0..Len(b) : f[i] = OriginStep(f, b, i)

\* The steps define a function, since each rests on the one before.
LEMMA OriginsExist ==
    ASSUME NEW b, Len(b) \in Nat
    PROVE  \E f : f = [i \in 0..Len(b) |-> OriginStep(f, b, i)]
<1> DEFINE Upto(n) == \E f : f = [i \in 0..n |-> OriginStep(f, b, i)]
           Missing == {n \in Nat : n <= Len(b) /\ ~ Upto(n)}
<1>1. Upto(0)
  <2> DEFINE f == [i \in 0..0 |-> 0]
  <2>1. f = [i \in 0..0 |-> OriginStep(f, b, i)]
    BY DEF OriginStep
  <2> QED BY <2>1
<1>2. ASSUME NEW n \in 1..Len(b), Upto(n - 1)
      PROVE  Upto(n)
  <2>1. PICK f : f = [i \in 0..n - 1 |-> OriginStep(f, b, i)]
    BY <1>2
  <2> DEFINE g == [i \in 0..n |-> IF i = n THEN OriginStep(f, b, n) ELSE f[i]]
  <2>2. ASSUME NEW i \in 0..n
        PROVE  g[i] = OriginStep(g, b, i)
    <3>1. i # 0 => g[i - 1] = f[i - 1]
      OBVIOUS
    <3>2. OriginStep(g, b, i) = OriginStep(f, b, i)
      BY <3>1 DEF OriginStep
    <3>3. i # n => i \in 0..n - 1 /\ f[i] = OriginStep(f, b, i)
      BY <2>1
    <3> QED BY <3>2, <3>3
  <2> HIDE DEF g
  <2>3. g = [i \in 0..n |-> g[i]]
    BY DEF g
  <2>4. g = [i \in 0..n |-> OriginStep(g, b, i)]
    BY <2>2, <2>3
  <2> QED BY <2>4
<1> HIDE DEF Upto
<1>3. Missing = {}
  <2> SUFFICES ASSUME Missing # {} PROVE FALSE
    OBVIOUS
  <2>1. PICK n \in Missing : \A k \in Missing : n <= k
    BY LeastNatural
  <2>2. n \in 1..Len(b) /\ n - 1 \in Nat /\ ~ (n <= n - 1) /\ n - 1 <= Len(b)
    BY <1>1
  <2>3. Upto(n - 1)
    BY <2>1, <2>2
  <2> QED BY <1>2, <2>2, <2>3
<1>4. Upto(Len(b))
  BY <1>3
<1> QED BY <1>4 DEF Upto

\* What the loop says of a window is what its last step says.
LEMMA ContextIs ==
    ASSUME NEW b \in Seq(DayShapes)
    PROVE  \E f : Origins(f, b) /\ Context(b) = f[Len(b)]
<1> DEFINE f == CHOOSE g : g = [i \in 0..Len(b) |-> OriginStep(g, b, i)]
<1>1. f = [i \in 0..Len(b) |-> OriginStep(f, b, i)]
  BY OriginsExist
<1>2. Context(b) = f[Len(b)]
  BY Zenon DEF Context, OriginStep
<1> HIDE DEF f
<1>3. Origins(f, b)
  BY <1>1 DEF Origins
<1> QED BY <1>2, <1>3

\* An origin is a bar that crossed, and its boundary is held.
LEMMA OriginHolds ==
    ASSUME NEW b \in Seq(DayShapes), NEW f, Origins(f, b)
    PROVE  \A i \in 0..Len(b) :
               /\ f[i] \in 0..i
               /\ f[i] = i /\ i # 0 => CrossesAt(b, i)
               /\ f[i] # 0 => f[i] > DayLookback /\ b[i].close > Boundary(b, f[i])
<1> DEFINE Fine(i) == /\ f[i] \in 0..i
                      /\ f[i] = i /\ i # 0 => CrossesAt(b, i)
                      /\ f[i] # 0 => f[i] > DayLookback /\ b[i].close > Boundary(b, f[i])
           Wrong == {i \in Nat : i <= Len(b) /\ ~ Fine(i)}
<1>1. Fine(0)
  BY DEF Origins, OriginStep
<1>2. ASSUME NEW i \in 1..Len(b), Fine(i - 1)
      PROVE  Fine(i)
  <2>1. f[i] = OriginStep(f, b, i)
    BY DEF Origins
  <2>2. CASE f[i - 1] # 0 /\ b[i].close > Boundary(b, f[i - 1])
    BY <1>2, <2>1, <2>2 DEF OriginStep
  <2>3. CASE ~ (f[i - 1] # 0 /\ b[i].close > Boundary(b, f[i - 1]))
    BY <2>1, <2>3 DEF OriginStep, CrossesAt
  <2> QED BY <2>2, <2>3
<1> HIDE DEF Fine
<1>3. Wrong = {}
  <2> SUFFICES ASSUME Wrong # {} PROVE FALSE
    OBVIOUS
  <2>1. PICK i \in Wrong : \A k \in Wrong : i <= k
    BY LeastNatural
  <2>2. i \in 1..Len(b) /\ i - 1 \in Nat /\ ~ (i <= i - 1) /\ i - 1 <= Len(b)
    BY <1>1
  <2>3. Fine(i - 1)
    BY <2>1, <2>2
  <2> QED BY <1>2, <2>2, <2>3
<1>4. \A i \in 0..Len(b) : Fine(i)
  BY <1>3
<1> QED BY <1>4 DEF Fine

\* A crossing whose boundary is held to the end is part of a held sequence:
\* an origin before it has a lower boundary, since the bar before the crossing
\* was above that.
LEMMA HeldCrossing ==
    ASSUME NEW b \in Seq(DayShapes), NEW i \in 1..Len(b), CrossesAt(b, i),
           \A k \in i..Len(b) : b[k].close > Boundary(b, i)
    PROVE  Context(b) # 0
<1>1. PICK f : Origins(f, b) /\ Context(b) = f[Len(b)]
  BY ContextIs
<1> DEFINE Kept(n) == f[n] # 0 /\ f[n] \in 1..i /\ Boundary(b, f[n]) <= Boundary(b, i)
           Lost == {n \in Nat : i <= n /\ n <= Len(b) /\ ~ Kept(n)}
<1>2. i > DayLookback /\ Boundary(b, i) \in Int
  BY BoundaryIs DEF CrossesAt
<1>3. Kept(i)
  <2>1. f[i] = OriginStep(f, b, i) /\ f[i - 1] \in 0..i - 1
    BY <1>1, OriginHolds DEF Origins
  <2>2. CASE f[i - 1] # 0 /\ b[i].close > Boundary(b, f[i - 1])
    <3>1. f[i] = f[i - 1] /\ f[i] \in 1..i - 1 /\ f[i] > DayLookback
      BY <1>1, <2>1, <2>2, OriginHolds DEF OriginStep
    <3>2. Boundary(b, f[i]) \in Int
      BY <3>1, BoundaryIs
    <3>3. b[i - 1].close > Boundary(b, f[i])
      BY <1>1, <2>2, <3>1, OriginHolds
    <3>4. i - 1 \in i - DayLookback .. i - 1 /\ i - 1 \in 1..Len(b)
      BY <1>2, DayAssumption
    <3>5. Boundary(b, i) >= b[i - 1].extreme
      BY <1>2, <3>4, BoundaryIs
    <3>6. b[i - 1].close \in Int /\ b[i - 1].extreme \in Int /\ b[i - 1].close <= b[i - 1].extreme
      BY <3>4, ShapeFields
    <3> QED BY <1>2, <3>1, <3>2, <3>3, <3>5, <3>6
  <2>3. CASE ~ (f[i - 1] # 0 /\ b[i].close > Boundary(b, f[i - 1]))
    <3>1. f[i] = i
      BY <2>1, <2>3 DEF OriginStep
    <3> QED BY <1>2, <3>1
  <2> QED BY <2>2, <2>3
<1>4. ASSUME NEW n \in i + 1 .. Len(b), Kept(n - 1)
      PROVE  Kept(n)
  <2>1. f[n] = OriginStep(f, b, n) /\ n \in 1..Len(b) /\ n \in i..Len(b)
    BY <1>1 DEF Origins
  <2>2. f[n - 1] > DayLookback /\ f[n - 1] \in 1..Len(b)
    BY <1>1, <1>4, <2>1, OriginHolds
  <2>3. Boundary(b, f[n - 1]) \in Int /\ b[n].close \in Int
    BY <2>1, <2>2, BoundaryIs, ShapeFields
  <2>4. b[n].close > Boundary(b, f[n - 1])
    BY <1>2, <1>4, <2>1, <2>3
  <2>5. f[n] = f[n - 1]
    BY <1>4, <2>1, <2>4 DEF OriginStep
  <2> QED BY <1>4, <2>5
<1> HIDE DEF Kept
<1>5. Lost = {}
  <2> SUFFICES ASSUME Lost # {} PROVE FALSE
    OBVIOUS
  <2>1. PICK n \in Lost : \A k \in Lost : n <= k
    BY LeastNatural
  <2>2. n \in i + 1 .. Len(b) /\ n - 1 \in Nat /\ ~ (n <= n - 1) /\ i <= n - 1 /\ n - 1 <= Len(b)
    BY <1>3
  <2>3. Kept(n - 1)
    BY <2>1, <2>2
  <2> QED BY <1>4, <2>2, <2>3
<1>6. Kept(Len(b))
  BY <1>5
<1> QED BY <1>1, <1>6 DEF Kept

\* Versions 0.7.6 and 0.7.7 trade a strict setup with a trigger.
LEMMA TradedByState ==
    ASSUME NEW version \in {"0.7.6", "0.7.7"}, NEW side, NEW b, NEW s,
           s.tiny \in BOOLEAN
    PROVE  Decision(version, side, b, s) = "TRADE" <=>
               ~ s.tiny /\ Strict(side, s) /\ Triggered(version, b, s)
<1> DEFINE T == TechnicalSetup(side, s)
           E == Executable(side, s)
           R == RrValid(s)
           G == Triggered(version, b, s)
<1>1. R => TargetPathValid(s)
  BY DEF RrValid
<1> HIDE DEF T, E, R, G
<1>2. EntryState(version, side, b, s) = "ENTRY_CONFIRMED" <=> T /\ E /\ R /\ G
  BY <1>1 DEF EntryState, T, E, R, G
<1>3. DecisionByState(version, side, b, s) = "TRADE" <=> T /\ E /\ R /\ G
  BY <1>2 DEF DecisionByState
<1> QED BY <1>3 DEF Decision, Strict, T, E, R, G

\* The second target passes where it is what counts for RR.
LEMMA RrImpliesPath ==
    ASSUME NEW s \in SnapshotFields
    PROVE  ExpectedRr(s) >= MinRr => RrValid(s)
<1>1. BarrierBeforeTp2(s) => Reward(s) = s.barrier
  BY DEF Reward
<1> QED BY <1>1 DEF RrValid, TargetPathValid, ExpectedRr

\* The older versions trade a strict setup with a trigger.
LEMMA TradedByScore ==
    ASSUME NEW version \in {"0.7.3", "0.7.4", "0.7.5"}, NEW side, NEW b, NEW s \in SnapshotFields
    PROVE  Decision(version, side, b, s) = "TRADE" <=>
               ~ s.tiny /\ Strict(side, s) /\ Triggered(version, b, s)
<1> DEFINE T == TechnicalSetup(side, s)
           E == Executable(side, s)
           X == ExpectedRr(s) >= MinRr
           G == Triggered(version, b, s)
<1>1. X <=> RrValid(s)
  BY RrImpliesPath DEF RrValid
<1>2. s.tiny \in BOOLEAN
  BY DEF SnapshotFields
<1> HIDE DEF T, E, X, G
<1>3. DecisionByScore(version, side, b, s) = "TRADE" <=> T /\ E /\ X /\ G
  BY DEF DecisionByScore, T, E, X, G
<1> QED BY <1>1, <1>2, <1>3 DEF Decision, Strict, T, E, G

\* The trigger of each version.
LEMMA Triggers ==
    ASSUME NEW b, NEW s
    PROVE  /\ Triggered("0.7.3", b, s) <=> Swept5(s)
           /\ Triggered("0.7.4", b, s) <=> Swept5(s) \/ CrossesAt(b, Len(b))
           /\ Triggered("0.7.5", b, s) <=> Swept5(s) \/ Recent(b) # 0
           /\ Triggered("0.7.6", b, s) <=> Swept5(s) \/ Context(b) = Len(b)
           /\ Triggered("0.7.7", b, s) <=> Swept5(s) \/ Context(b) # 0
BY DEF Triggered, BreakoutTriggers

\* There is a bar to look at as soon as one has closed.
LEMMA WindowIsThere ==
    ASSUME DayTypeOK, dayBars # <<>>
    PROVE  Len(Window5) # 0
<1> DEFINE first == Max({1, Len(dayBars) - DayWindow + 1})
<1>1. first = IF 1 >= Len(dayBars) - DayWindow + 1 THEN 1 ELSE Len(dayBars) - DayWindow + 1
  BY DayAssumption, MaxOfTwo DEF DayTypeOK
<1>2. first \in Int /\ first >= 1 /\ first <= Len(dayBars)
  BY <1>1, DayAssumption DEF DayTypeOK
<1> HIDE DEF first
<1>3. Len(SubSeq(dayBars, first, Len(dayBars))) # 0
  BY <1>2 DEF DayTypeOK
<1> QED BY <1>3 DEF Window5, first

\* The newest of the last crossings, of which there are at most two, is held
\* in between.
LEMMA RecentIsHeld ==
    ASSUME NEW b \in Seq(DayShapes), Recent(b) # 0
    PROVE  Context(b) # 0
<1> DEFINE crossings == {i \in Len(b) - ActiveBars + 1 .. Len(b) : CrossesAt(b, i)}
           m == Max(crossings)
<1>1. crossings # {} /\ b[Len(b)].close > Boundary(b, m)
  BY DEF Recent
<1>2. m \in crossings
  <2>1. crossings \in SUBSET Int /\ Len(b) \in Int /\ \A i \in crossings : i <= Len(b)
    BY DayAssumption
  <2> QED BY <1>1, <2>1, MaxOf
<1> HIDE DEF m
<1>3. m \in 1..Len(b) /\ m >= Len(b) - 1 /\ CrossesAt(b, m)
  BY <1>2, DayAssumption DEF CrossesAt
<1>4. \A k \in m..Len(b) : b[k].close > Boundary(b, m)
  <2>1. \A k \in m..Len(b) : k = m \/ k = Len(b)
    BY <1>3
  <2> QED BY <1>1, <1>3, <2>1 DEF CrossesAt
<1> QED BY <1>3, <1>4, HeldCrossing

\* The bar that crosses is the newest of the last crossings.
LEMMA CrossingIsRecent ==
    ASSUME NEW b \in Seq(DayShapes), CrossesAt(b, Len(b))
    PROVE  Recent(b) # 0
<1> DEFINE crossings == {i \in Len(b) - ActiveBars + 1 .. Len(b) : CrossesAt(b, i)}
<1>1. Len(b) \in crossings /\ crossings \in SUBSET Int /\ \A i \in crossings : i <= Len(b)
  BY DayAssumption DEF CrossesAt
<1>2. Max(crossings) \in crossings /\ \A i \in crossings : Max(crossings) >= i
  <2>1. Len(b) \in Int /\ crossings # {}
    BY <1>1
  <2> QED BY <1>1, <2>1, MaxOf
<1>3. Max(crossings) = Len(b)
  BY <1>1, <1>2
<1>4. b[Len(b)].close > Boundary(b, Len(b)) /\ Len(b) # 0
  BY DayAssumption DEF CrossesAt
<1>5. Recent(b) = IF crossings # {} /\ b[Len(b)].close > Boundary(b, Max(crossings))
                  THEN Max(crossings) ELSE 0
  BY DEF Recent
<1> HIDE DEF crossings
<1> QED BY <1>1, <1>3, <1>4, <1>5

\* A breakout is traded as long as its boundary is held and the gates pass, and
\* what a version trades the newer ones trade, whatever bars and analyses come.
THEOREM BreakoutsAreTradedHolds == DaySpec => []BreakoutsAreTraded
<1>1. DayTypeOK => BreakoutsAreTraded
  <2> SUFFICES ASSUME DayTypeOK PROVE BreakoutsAreTraded
    OBVIOUS
  <2>1. Window5 \in Seq(DayShapes) /\ snap \in SnapshotFields /\ snap.tiny \in BOOLEAN
    BY WindowBars DEF DayTypeOK, SnapshotFields
  <2> DEFINE Fires(version) == Triggered(version, Window5, snap)
             Ready == ~ snap.tiny /\ Strict(daySide, snap)
  <2>2. \A version \in {"0.7.3", "0.7.4", "0.7.5"} : Told(version) = "TRADE" <=> Ready /\ Fires(version)
    BY <2>1, TradedByScore DEF Told
  <2>3. \A version \in {"0.7.6", "0.7.7"} : Told(version) = "TRADE" <=> Ready /\ Fires(version)
    BY <2>1, TradedByState DEF Told
  <2> HIDE DEF Ready
  <2>4. HeldBreakoutIsTraded
    <3> SUFFICES ASSUME ~ snap.tiny, Strict(daySide, snap),
                        NEW i \in DOMAIN Window5, CrossesAt(Window5, i),
                        \A k \in i .. Len(Window5) : Window5[k].close > Boundary(Window5, i)
                 PROVE  Told("0.7.7") = "TRADE"
      BY DEF HeldBreakoutIsTraded
    <3>1. i \in 1..Len(Window5)
      BY <2>1
    <3>2. Context(Window5) # 0
      BY <2>1, <3>1, HeldCrossing
    <3>3. Fires("0.7.7")
      BY <3>2, Triggers
    <3> QED BY <2>3, <3>3 DEF Ready
  <2>5. NewerKeepsOlder
    <3>1. Fires("0.7.3") => Fires("0.7.6")
      BY Triggers
    <3>2. Fires("0.7.6") => Fires("0.7.4") \/ Len(Window5) = 0
      <4>1. SUFFICES ASSUME Context(Window5) = Len(Window5), Len(Window5) # 0
                     PROVE  CrossesAt(Window5, Len(Window5))
        BY Triggers
      <4>2. PICK f : Origins(f, Window5) /\ Context(Window5) = f[Len(Window5)]
        BY <2>1, ContextIs
      <4> QED BY <2>1, <4>1, <4>2, OriginHolds
    <3>3. Fires("0.7.4") => Fires("0.7.5")
      BY <2>1, CrossingIsRecent, Triggers
    <3>4. Fires("0.7.5") => Fires("0.7.7")
      BY <2>1, RecentIsHeld, Triggers
    <3>5. dayBars # <<>> => Len(Window5) # 0
      BY WindowIsThere
    <3> HIDE DEF Fires
    <3> QED BY <2>2, <2>3, <3>1, <3>2, <3>3, <3>4, <3>5 DEF NewerKeepsOlder
  <2> QED BY <2>4, <2>5 DEF BreakoutsAreTraded
<1> QED BY <1>1, DayTyping, PTL

\* No gate fails exactly if all pass.
LEMMA NoneFailed ==
    ASSUME NEW gates, DOMAIN gates = 1..13
    PROVE  FirstGate(gates) = 0 <=> \A g \in 1..13 : gates[g]
<1> DEFINE failed == {g \in DOMAIN gates : ~ gates[g]}
<1>1. failed # {} => Min(failed) \in failed
  <2>1. failed \in SUBSET Int /\ 1 \in Int /\ \A g \in failed : 1 <= g
    OBVIOUS
  <2> QED BY <2>1, MinOf
<1>2. failed = {} <=> \A g \in 1..13 : gates[g]
  OBVIOUS
<1>3. 0 \notin failed
  OBVIOUS
<1> HIDE DEF failed
<1>4. FirstGate(gates) = IF failed = {} THEN 0 ELSE Min(failed)
  BY DEF FirstGate, failed
<1> QED BY <1>1, <1>2, <1>3, <1>4

\* All gates but that of the execution, taken together.
OtherGates(s, side) ==
    s.sweep = "ready" /\ ~ s.tiny /\ s.tradeable /\ TechnicalSetup(side, s) /\ RrValid(s)

\* Thirteen gates are passed if that of the execution is, and the others.
LEMMA AllGates ==
    ASSUME NEW mode, NEW side, NEW s, NEW gates,
           s.sweep \in {"none", "reclaim", "shift", "volume", "ready"},
           DOMAIN gates = 1..13, \A k \in (1..13) \ {7} : gates[k] = Gates(mode, side, s)[k]
    PROVE  FirstGate(gates) = 0 <=> OtherGates(s, side) /\ gates[7]
<1> DEFINE g == Gates(mode, side, s)
<1>1. /\ g[1] <=> Reached(s, {"reclaim", "shift", "volume", "ready"})
      /\ g[2] <=> Reached(s, {"shift", "volume", "ready"})
      /\ g[3] <=> Reached(s, {"volume", "ready"})
      /\ g[4] <=> Reached(s, {"ready"})
      /\ g[5] <=> ~ s.tiny
      /\ g[6] <=> s.tradeable
      /\ g[8] <=> s.expansion >= MinExpansion
      /\ g[9] <=> SideDirection(side, s) >= MinDirection
      /\ g[10] <=> s.quality >= MinQuality
      /\ g[11] <=> SetupScore(side, s) >= MinSetup
      /\ g[12] <=> TargetPathValid(s)
      /\ g[13] <=> ExpectedRr(s) >= MinRr
  BY DEF Gates
<1> HIDE DEF g
<1>2. /\ gates[1] = g[1] /\ gates[2] = g[2] /\ gates[3] = g[3] /\ gates[4] = g[4]
      /\ gates[5] = g[5] /\ gates[6] = g[6] /\ gates[8] = g[8] /\ gates[9] = g[9]
      /\ gates[10] = g[10] /\ gates[11] = g[11] /\ gates[12] = g[12] /\ gates[13] = g[13]
  BY DEF g
<1>3. (\A k \in 1..13 : gates[k]) <=>
          gates[1] /\ gates[2] /\ gates[3] /\ gates[4] /\ gates[5] /\ gates[6] /\ gates[7] /\ gates[8]
          /\ gates[9] /\ gates[10] /\ gates[11] /\ gates[12] /\ gates[13]
  <2>1. 1..13 = {1, 2, 3, 4, 5, 6, 7, 8, 9, 10, 11, 12, 13}
    OBVIOUS
  <2> QED BY <2>1
<1>4. gates[1] /\ gates[2] /\ gates[3] /\ gates[4] <=> s.sweep = "ready"
  BY <1>1, <1>2 DEF Reached
<1>5. gates[8] /\ gates[9] /\ gates[10] /\ gates[11] <=> TechnicalSetup(side, s)
  BY <1>1, <1>2 DEF TechnicalSetup
<1>6. gates[12] /\ gates[13] <=> RrValid(s)
  BY <1>1, <1>2 DEF RrValid
<1>7. FirstGate(gates) = 0 <=> \A k \in 1..13 : gates[k]
  BY NoneFailed
<1> QED BY <1>1, <1>2, <1>3, <1>4, <1>5, <1>6, <1>7 DEF OtherGates

\* The gates of a replay have the execution gate of its mode.
LEMMA ReplayGates ==
    ASSUME NEW mode, NEW side, NEW s, s.sweep \in {"none", "reclaim", "shift", "volume", "ready"}
    PROVE  FirstFailed(mode, side, s) = 0 <=> OtherGates(s, side) /\ ExecutionModel(mode, side, s)
<1> DEFINE g == Gates(mode, side, s)
<1>1. DOMAIN g = 1..13 /\ (g[7] <=> ExecutionModel(mode, side, s))
  <2>1. DOMAIN g = 1..13
    BY DEF Gates
  <2>2. g[7] <=> ExecutionModel(mode, side, s)
    BY DEF Gates
  <2> QED BY <2>1, <2>2
<1> HIDE DEF g
<1>2. FirstGate(g) = 0 <=> OtherGates(s, side) /\ g[7]
  BY <1>1, AllGates DEF g
<1> QED BY <1>1, <1>2 DEF FirstFailed, g

\* Those of the forward capture have the borrowability of a short in its place.
LEMMA CapturedGates ==
    ASSUME NEW mode, NEW side \in DaySides, NEW s,
           s.sweep \in {"none", "reclaim", "shift", "volume", "ready"}
    PROVE  FirstGate(ForwardGates(mode, side, s)) = 0 <=> OtherGates(s, side) /\ Executable(side, s)
<1>1. CASE side = "long"
  <2>1. FirstGate(ForwardGates(mode, side, s)) = FirstFailed(mode, side, s)
    BY <1>1 DEF ForwardGates, FirstFailed
  <2> QED BY <1>1, <2>1, ReplayGates DEF ExecutionModel, Executable
<1>2. CASE side = "short"
  <2> DEFINE g == Gates(mode, side, s)
             h == ForwardGates(mode, side, s)
  <2>1. DOMAIN g = 1..13
    BY DEF Gates
  <2>2. h = [g EXCEPT ![7] = s.tradeable /\ s.shortable]
    BY <1>2 DEF ForwardGates
  <2> HIDE DEF g, h
  <2>3. DOMAIN h = 1..13 /\ h[7] = (s.tradeable /\ s.shortable) /\ \A k \in (1..13) \ {7} : h[k] = g[k]
    BY <2>1, <2>2
  <2>4. FirstGate(h) = 0 <=> OtherGates(s, side) /\ h[7]
    BY <2>3, AllGates DEF g
  <2> QED BY <1>2, <2>3, <2>4 DEF h, Executable
<1> QED BY <1>1, <1>2 DEF DaySides

\* The gates of the forward capture agree with the worker's decision, and
\* those of a replay as far as its short mode lets them, whatever the analysis
\* and the cost.
THEOREM GatesMatchDecisionHolds == DaySpec => []GatesMatchDecision
<1>1. DayTypeOK => GatesMatchDecision
  <2> SUFFICES ASSUME DayTypeOK PROVE GatesMatchDecision
    OBVIOUS
  <2>1. snap \in SnapshotFields /\ snap.tiny \in BOOLEAN /\ snap.tradeable \in BOOLEAN
        /\ snap.sweep \in {"none", "reclaim", "shift", "volume", "ready"} /\ daySide \in DaySides
    BY DEF DayTypeOK, SnapshotFields
  <2> DEFINE others == OtherGates(snap, daySide)
             traded == Told("0.7.3") = "TRADE"
             passes(mode) == FirstFailed(mode, daySide, snap) = 0
             captured(mode) == FirstGate(ForwardGates(mode, daySide, snap)) = 0
  <2>2. traded <=> others /\ Executable(daySide, snap)
    <3>1. Told("0.7.3") = "TRADE" <=> ~ snap.tiny /\ Strict(daySide, snap) /\ snap.sweep = "ready"
      BY <2>1, TradedByScore, Triggers DEF Told, Swept5
    <3> QED BY <3>1 DEF Strict, OtherGates, Executable
  <2>3. \A mode : passes(mode) <=> others /\ ExecutionModel(mode, daySide, snap)
    BY <2>1, ReplayGates
  <2>4. \A mode : captured(mode) <=> others /\ Executable(daySide, snap)
    BY <2>1, CapturedGates
  <2>5. others => snap.tradeable
    BY DEF OtherGates
  <2> HIDE DEF others, traded, passes, captured
  <2>6. /\ \A mode \in ShortModes : captured(mode) <=> traded
        /\ passes("current_proxy") <=> traded
        /\ passes("disabled") <=> traded /\ daySide = "long"
        /\ traded => passes("technical_only")
        /\ passes("technical_only") /\ ~ traded => daySide = "short" /\ ~ snap.shortable
    BY <2>1, <2>2, <2>3, <2>4, <2>5 DEF ExecutionModel, Executable, DaySides
  <2> QED BY <2>6 DEF GatesMatchDecision, traded, passes, captured
<1> QED BY <1>1, DayTyping, PTL
-----------------------------------------------------------------------------
(***************************************************************************)
(* Sweep, for any bars and any lengths of its windows.                     *)
(***************************************************************************)

\* The numbers of a set that are not greater than one of its own.
UpToOf(S, x) == {y \in S : y <= x}

\* In a finite set of naturals the n-th number is where n numbers end, and it
\* is the only one.
LEMMA NthIs ==
    ASSUME NEW S \in SUBSET Nat, IsFiniteSet(S), NEW n \in 1..Cardinality(S)
    PROVE  /\ Nth(S, n) \in S /\ Cardinality(UpToOf(S, Nth(S, n))) = n
           /\ \A x \in S : Cardinality(UpToOf(S, x)) = n => x = Nth(S, n)
<1> DEFINE Count(x) == Cardinality(UpToOf(S, x))
           Many == {x \in S : n <= Count(x)}
<1>1. \A x : IsFiniteSet(UpToOf(S, x)) /\ Count(x) \in Nat /\ UpToOf(S, x) \subseteq S
  BY FS_Subset, FS_CardinalityType DEF UpToOf
<1>2. Cardinality(S) \in Nat /\ S # {}
  BY FS_CardinalityType, FS_EmptySet
<1>3. Many # {}
  <2>1. PICK high \in S : \A y \in S : y <= high
    <3> DEFINE f == [y \in S |-> y]
    <3>1. \A y \in S : f[y] = y /\ f[y] \in Int
      OBVIOUS
    <3> HIDE DEF f
    <3>2. PICK x \in S : \A y \in S : f[y] <= f[x]
      BY <1>2, <3>1, GreatestOfFinite
    <3> QED BY <3>1, <3>2
  <2>2. UpToOf(S, high) = S
    BY <2>1 DEF UpToOf
  <2> QED BY <2>2, <1>2
<1>4. PICK x \in Many : \A y \in Many : x <= y
  <2> HIDE DEF Count
  <2> QED BY <1>3, LeastNatural
<1>5. Count(x) = n
  <2> DEFINE Below == {y \in S : y < x}
  <2>0. x \in S /\ \A y \in S : y \in Nat
    BY <1>4
  <2>1. UpToOf(S, x) = Below \cup {x} /\ x \notin Below /\ Below \subseteq S /\ x \in Nat
    <3>1. \A y \in S : y <= x <=> y < x \/ y = x
      BY <2>0
    <3>2. ~ (x < x)
      BY <2>0
    <3> QED BY <2>0, <3>1, <3>2 DEF UpToOf
  <2>2. IsFiniteSet(Below) /\ Cardinality(Below) \in Nat
    BY <2>1, FS_Subset, FS_CardinalityType
  <2>3. Count(x) = Cardinality(Below) + 1
    <3> HIDE DEF Below
    <3> QED BY <2>1, <2>2, FS_AddElement
  <2>4. Cardinality(Below) < n
    <3>1. CASE Below = {}
      BY <3>1, FS_EmptySet
    <3>2. CASE Below # {}
      <4> DEFINE f == [y \in Below |-> y]
      <4>1. \A y \in Below : f[y] = y /\ f[y] \in Int
        BY <2>1
      <4> HIDE DEF f
      <4>2. PICK z \in Below : \A y \in Below : f[y] <= f[z]
        BY <2>2, <3>2, <4>1, GreatestOfFinite
      <4>3. UpToOf(S, z) = Below
        <5>1. \A y \in S : y <= z <=> y < x
          <6>1. z \in S /\ z < x
            OBVIOUS
          <6>2. \A y \in S : y < x => y <= z
            BY <4>1, <4>2
          <6> QED BY <2>0, <6>1, <6>2
        <5> QED BY <5>1 DEF UpToOf
      <4>4. z \notin Many
        BY <1>4, <2>1
      <4> QED BY <4>3, <4>4, <2>1, <2>2
    <3> QED BY <3>1, <3>2
  <2> QED BY <2>2, <2>3, <2>4, <1>4
<1>6. ASSUME NEW y \in S, NEW z \in S, Count(y) = Count(z)
      PROVE  y = z
  <2>1. ASSUME NEW p \in S, NEW q \in S, p < q PROVE Count(p) # Count(q)
    <3>1. UpToOf(S, p) \in SUBSET UpToOf(S, q) /\ q \in UpToOf(S, q) /\ q \notin UpToOf(S, p)
      <4>1. \A u \in S : u \in Nat
        OBVIOUS
      <4>2. \A u \in S : u <= p => u <= q
        BY <2>1, <4>1
      <4>3. q <= q /\ ~ (q <= p)
        BY <2>1, <4>1
      <4> QED BY <4>2, <4>3 DEF UpToOf
    <3> QED BY <1>1, <3>1, FS_Subset
  <2>2. y < z \/ z < y \/ y = z
    OBVIOUS
  <2> QED BY <1>6, <2>1, <2>2
<1>7. Nth(S, n) = CHOOSE z \in S : Count(z) = n
  BY DEF Nth, UpToOf
<1>8. Nth(S, n) \in S /\ Count(Nth(S, n)) = n
  BY <1>4, <1>5, <1>7
<1> QED BY <1>6, <1>8

\* The n-th of the numbers from 1 is n.
LEMMA NthOfInterval ==
    ASSUME NEW m \in Nat, NEW n \in 1..m
    PROVE  Nth(1..m, n) = n
<1>1. 1..m \in SUBSET Nat /\ IsFiniteSet(1..m) /\ Cardinality(1..m) = m
  BY FS_Interval
<1>2. UpToOf(1..m, n) = 1..n
  BY DEF UpToOf
<1>3. Cardinality(1..n) = n
  BY FS_Interval
<1> QED BY <1>1, <1>2, <1>3, NthIs

\* The first numbers of a set are those of an initial part of it.
LEMMA NthOfPart ==
    ASSUME NEW S \in SUBSET Nat, IsFiniteSet(S), NEW W \in SUBSET S,
           \A x \in W, y \in S : y <= x => y \in W
    PROVE  /\ Cardinality(W) \in Nat /\ Cardinality(S) \in Nat /\ Cardinality(W) <= Cardinality(S)
           /\ \A n \in 1..Cardinality(W) : Nth(S, n) = Nth(W, n) /\ Nth(W, n) \in W
           /\ \A n \in 1..Cardinality(S) : Nth(S, n) \in W <=> n <= Cardinality(W)
<1>1. /\ IsFiniteSet(W) /\ Cardinality(W) \in Nat /\ Cardinality(S) \in Nat
      /\ Cardinality(W) <= Cardinality(S)
  BY FS_Subset, FS_CardinalityType
<1>2. ASSUME NEW n \in 1..Cardinality(W)
      PROVE  Nth(S, n) = Nth(W, n) /\ Nth(W, n) \in W
  <2>0. W \in SUBSET Nat
    OBVIOUS
  <2>1. Nth(W, n) \in W /\ Cardinality(UpToOf(W, Nth(W, n))) = n
    BY <1>1, <2>0, NthIs
  <2>2. UpToOf(S, Nth(W, n)) = UpToOf(W, Nth(W, n))
    BY <2>1 DEF UpToOf
  <2>3. n \in 1..Cardinality(S)
    BY <1>1
  <2>4. Nth(W, n) \in S
    BY <2>1
  <2>5. Cardinality(UpToOf(S, Nth(W, n))) = n
    BY <2>1, <2>2
  <2>6. Nth(W, n) = Nth(S, n)
    <3> DEFINE x == Nth(W, n)
    <3>1. x \in S /\ Cardinality(UpToOf(S, x)) = n
      BY <2>4, <2>5
    <3> HIDE DEF x
    <3>2. x = Nth(S, n)
      BY <2>3, <3>1, NthIs
    <3> QED BY <3>2 DEF x
  <2> QED BY <2>1, <2>6
<1>3. ASSUME NEW n \in 1..Cardinality(S), Nth(S, n) \in W
      PROVE  n <= Cardinality(W)
  <2>1. Cardinality(UpToOf(S, Nth(S, n))) = n
    BY NthIs
  <2>2. UpToOf(S, Nth(S, n)) \in SUBSET W
    BY <1>3 DEF UpToOf
  <2> QED BY <1>1, <2>1, <2>2, FS_Subset
<1>4. ASSUME NEW n \in 1..Cardinality(S), n <= Cardinality(W)
      PROVE  Nth(S, n) \in W
  <2>1. n \in 1..Cardinality(W)
    BY <1>1, <1>4
  <2> QED BY <1>2, <2>1
<1> QED BY <1>1, <1>2, <1>3, <1>4
\* The groups that are whole, those of them that have closed, and their bars.
WholeGroups(v) == {g \in 0..LastSlot : Whole(v, g)}
ClosedGroups(v, at) == {g \in WholeGroups(v) : (g + 1) * GroupBars <= at + 1}
ClosedList(v, at) ==
    [n \in 1..Cardinality(ClosedGroups(v, at)) |-> Bar15(v, Nth(ClosedGroups(v, at), n))]

\* A later group ends later.
LEMMA GroupsInOrder ==
    ASSUME NEW g \in Nat, NEW h \in Nat, h <= g
    PROVE  /\ h * GroupBars \in Nat /\ (h + 1) * GroupBars \in Nat /\ (g + 1) * GroupBars \in Nat
           /\ (h + 1) * GroupBars <= (g + 1) * GroupBars
           /\ (h + 1) * GroupBars = h * GroupBars + GroupBars
<1>1. GroupBars \in Nat \ {0}
  BY SweepAssumption
<1>2. PICK d \in Nat : g = h + d
  <2>1. g - h \in Nat /\ g = h + (g - h)
    OBVIOUS
  <2> QED BY <2>1
<1>3. d * GroupBars \in Nat
  BY <1>1
<1>4. (g + 1) * GroupBars = (h + 1) * GroupBars + d * GroupBars
  BY <1>1, <1>2
<1>5. h * GroupBars \in Nat /\ (h + 1) * GroupBars \in Nat /\ (g + 1) * GroupBars \in Nat
  BY <1>1
<1>6. (h + 1) * GroupBars = h * GroupBars + GroupBars
  BY <1>1
<1> QED BY <1>3, <1>4, <1>5, <1>6

\* The closed ones of the list are the bars of the first groups.
LEMMA ClosedAre ==
    ASSUME NEW v, NEW at \in Nat
    PROVE  LET m == Cardinality(ClosedGroups(v, at))
           IN  /\ m \in Nat /\ Len(Fifteen(v)) \in Nat /\ m <= Len(Fifteen(v))
               /\ DOMAIN Fifteen(v) = 1..Len(Fifteen(v))
               /\ \A n \in 1..Len(Fifteen(v)) : Closes(Fifteen(v)[n], at) <=> n <= m
               /\ \A n \in 1..m : Fifteen(v)[n] = ClosedList(v, at)[n]
               /\ Structure15(v, at) <=> Confirms(ClosedList(v, at))
<1> DEFINE S == WholeGroups(v)
           W == ClosedGroups(v, at)
           m == Cardinality(W)
           v15 == Fifteen(v)
<1>1. S \in SUBSET Nat /\ IsFiniteSet(S) /\ W \in SUBSET S
  <2>1. LastSlot \in Nat
    BY SweepAssumption
  <2>2. S \in SUBSET (0..LastSlot) /\ IsFiniteSet(0..LastSlot)
    BY <2>1, FS_Interval DEF WholeGroups
  <2>3. IsFiniteSet(S)
    BY <2>2, FS_Subset
  <2> QED BY <2>1, <2>2, <2>3 DEF ClosedGroups
<1>2. ASSUME NEW x \in W, NEW y \in S, y <= x PROVE y \in W
  <2>1. x \in Nat /\ y \in Nat /\ (x + 1) * GroupBars <= at + 1
    BY <1>1 DEF ClosedGroups
  <2>2. (y + 1) * GroupBars <= (x + 1) * GroupBars
        /\ (y + 1) * GroupBars \in Nat /\ (x + 1) * GroupBars \in Nat
    BY <2>1, <1>2, GroupsInOrder
  <2>3. (y + 1) * GroupBars <= at + 1
    <3> DEFINE a == (y + 1) * GroupBars
               b == (x + 1) * GroupBars
    <3>1. a \in Nat /\ b \in Nat /\ a <= b /\ b <= at + 1
      BY <2>1, <2>2
    <3> HIDE DEF a, b
    <3>2. a <= at + 1
      BY <3>1
    <3> QED BY <3>2 DEF a
  <2> QED BY <2>3 DEF ClosedGroups
<1>3. v15 = [n \in 1..Cardinality(S) |-> Bar15(v, Nth(S, n))]
  BY DEF Fifteen, WholeGroups
<1> HIDE DEF S, W, v15
<1>4. /\ m \in Nat /\ Cardinality(S) \in Nat /\ m <= Cardinality(S)
      /\ \A n \in 1..m : Nth(S, n) = Nth(W, n) /\ Nth(W, n) \in W
      /\ \A n \in 1..Cardinality(S) : Nth(S, n) \in W <=> n <= m
  BY <1>1, <1>2, NthOfPart
<1>5. Len(v15) = Cardinality(S) /\ DOMAIN v15 = 1..Cardinality(S)
  BY <1>3, <1>4
<1>6. ASSUME NEW n \in 1..Cardinality(S)
      PROVE  Closes(v15[n], at) <=> n <= m
  <2>1. v15[n].at = Nth(S, n)
    BY <1>3 DEF Bar15
  <2>2. Nth(S, n) \in S
    BY <1>1, NthIs
  <2>3. Nth(S, n) \in W <=> (Nth(S, n) + 1) * GroupBars <= at + 1
    BY <2>2 DEF W, S, ClosedGroups
  <2> QED BY <1>4, <2>1, <2>3 DEF Closes
<1>7. ASSUME NEW n \in 1..m
      PROVE  v15[n] = ClosedList(v, at)[n]
  BY <1>3, <1>4 DEF ClosedList, W
<1> DEFINE closed == {n \in DOMAIN v15 : Closes(v15[n], at)}
           list == [n \in 1..Cardinality(closed) |-> v15[Nth(closed, n)]]
<1>8. closed = 1..m
  BY <1>4, <1>5, <1>6
<1>9. Cardinality(1..m) = m
  BY <1>4, FS_Interval
<1>10. Structure15(v, at) <=> Confirms(list)
  BY DEF Structure15, v15
<1> HIDE DEF closed
<1>11. list = ClosedList(v, at)
  <2>1. ASSUME NEW n \in 1..m PROVE v15[Nth(closed, n)] = Bar15(v, Nth(W, n))
    <3>1. Nth(closed, n) = n
      BY <1>4, <1>8, NthOfInterval
    <3> QED BY <1>7, <3>1 DEF ClosedList, W
  <2>2. list = [n \in 1..m |-> v15[Nth(closed, n)]]
    BY <1>8, <1>9
  <2>3. ClosedList(v, at) = [n \in 1..m |-> Bar15(v, Nth(W, n))]
    BY DEF ClosedList, W
  <2> QED BY <2>1, <2>2, <2>3
<1> HIDE DEF list
<1>12. Structure15(v, at) <=> Confirms(ClosedList(v, at))
  BY <1>10, <1>11
<1> QED BY <1>4, <1>5, <1>6, <1>7, <1>12 DEF v15, W
\* A step of the bisection.
SearchStep(f, v15, at, lo, hi) ==
    IF lo >= hi THEN lo
    ELSE LET mid == (lo + hi) \div 2
         IN  IF Closes(v15[mid + 1], at) THEN f[<<mid + 1, hi>>]
             ELSE f[<<lo, mid>>]

\* Two searches agree on the ranges shorter than d.
SearchAgrees(f, g, n, d) == \A a, b \in 0..n : b - a < d => f[<<a, b>>] = g[<<a, b>>]

\* A step depends on shorter ranges only.
LEMMA SearchIsLocal ==
    ASSUME NEW f, NEW g, NEW v15, NEW at, NEW n \in Nat, NEW lo \in 0..n, NEW hi \in 0..n,
           SearchAgrees(f, g, n, hi - lo)
    PROVE  SearchStep(f, v15, at, lo, hi) = SearchStep(g, v15, at, lo, hi)
<1>1. CASE lo >= hi
  BY <1>1 DEF SearchStep
<1>2. CASE lo < hi
  <2> DEFINE mid == (lo + hi) \div 2
  <2>1. mid \in Nat /\ lo <= mid /\ mid < hi
    BY <1>2
  <2> HIDE DEF mid
  <2>2. mid + 1 \in 0..n /\ mid \in 0..n /\ hi - (mid + 1) < hi - lo /\ mid - lo < hi - lo
    BY <1>2, <2>1
  <2>3. f[<<mid + 1, hi>>] = g[<<mid + 1, hi>>] /\ f[<<lo, mid>>] = g[<<lo, mid>>]
    BY <2>2 DEF SearchAgrees
  <2>4. \A h : SearchStep(h, v15, at, lo, hi) =
            IF Closes(v15[mid + 1], at) THEN h[<<mid + 1, hi>>] ELSE h[<<lo, mid>>]
    BY <1>2 DEF SearchStep, mid
  <2> QED BY <2>3, <2>4
<1> QED BY <1>1, <1>2

\* The steps define a function.
LEMMA SearchExists ==
    ASSUME NEW v15, NEW at, NEW n \in Nat
    PROVE  \E f : f = [r \in (0..n) \X (0..n) |-> SearchStep(f, v15, at, r[1], r[2])]
<1> DEFINE Good(f, d) == \A lo, hi \in 0..n : hi - lo <= d => f[<<lo, hi>>] = SearchStep(f, v15, at, lo, hi)
           Upto(d) == \E f : Good(f, d)
           Missing == {d \in Nat : ~ Upto(d)}
<1>1. Upto(0)
  <2> DEFINE f == [r \in (0..n) \X (0..n) |-> r[1]]
  <2>1. ASSUME NEW lo \in 0..n, NEW hi \in 0..n, hi - lo <= 0
        PROVE  f[<<lo, hi>>] = SearchStep(f, v15, at, lo, hi)
    <3>1. lo >= hi /\ f[<<lo, hi>>] = lo
      BY <2>1
    <3> HIDE DEF f
    <3> QED BY <3>1 DEF SearchStep
  <2> HIDE DEF f
  <2> QED BY <2>1
<1>2. ASSUME NEW d \in Nat \ {0}, Upto(d - 1)
      PROVE  Upto(d)
  <2>1. PICK f : Good(f, d - 1)
    BY <1>2
  <2> DEFINE g == [r \in (0..n) \X (0..n) |->
                       IF r[2] - r[1] <= d - 1 THEN f[r] ELSE SearchStep(f, v15, at, r[1], r[2])]
  <2>2. \A lo, hi \in 0..n :
            g[<<lo, hi>>] = IF hi - lo <= d - 1 THEN f[<<lo, hi>>] ELSE SearchStep(f, v15, at, lo, hi)
    OBVIOUS
  <2> HIDE DEF g
  <2>3. ASSUME NEW lo \in 0..n, NEW hi \in 0..n, hi - lo <= d
        PROVE  g[<<lo, hi>>] = SearchStep(g, v15, at, lo, hi)
    <3>1. SearchAgrees(f, g, n, hi - lo)
      BY <2>2, <2>3 DEF SearchAgrees
    <3>2. SearchStep(f, v15, at, lo, hi) = SearchStep(g, v15, at, lo, hi)
      BY <3>1, SearchIsLocal
    <3>3. g[<<lo, hi>>] = SearchStep(f, v15, at, lo, hi)
      BY <2>1, <2>2
    <3> QED BY <3>2, <3>3
  <2> QED BY <2>3
<1> HIDE DEF Upto
<1>3. Missing = {}
  <2> SUFFICES ASSUME Missing # {} PROVE FALSE
    OBVIOUS
  <2>1. PICK d \in Missing : \A k \in Missing : d <= k
    BY LeastNatural
  <2>2. d \in Nat \ {0} /\ d - 1 \in Nat /\ ~ (d <= d - 1)
    BY <1>1
  <2>3. Upto(d - 1)
    BY <2>1, <2>2
  <2> QED BY <1>2, <2>2, <2>3
<1>4. Upto(n)
  BY <1>3
<1>5. PICK f : Good(f, n)
  BY <1>4 DEF Upto
<1> DEFINE g == [r \in (0..n) \X (0..n) |-> f[r]]
<1>6. \A lo, hi \in 0..n : g[<<lo, hi>>] = f[<<lo, hi>>]
  OBVIOUS
<1>7. \A lo, hi \in 0..n : f[<<lo, hi>>] = SearchStep(g, v15, at, lo, hi)
  <2> HIDE DEF g
  <2> TAKE lo, hi \in 0..n
  <2>1. SearchAgrees(f, g, n, hi - lo)
    BY <1>6 DEF SearchAgrees
  <2>2. SearchStep(f, v15, at, lo, hi) = SearchStep(g, v15, at, lo, hi)
    BY <2>1, SearchIsLocal
  <2>3. f[<<lo, hi>>] = SearchStep(f, v15, at, lo, hi)
    BY <1>5
  <2> QED BY <2>2, <2>3
<1>8. g = [r \in (0..n) \X (0..n) |-> SearchStep(g, v15, at, r[1], r[2])]
  <2> DEFINE h == g
  <2>1. h = [r \in (0..n) \X (0..n) |-> f[r]]
    OBVIOUS
  <2> HIDE DEF h
  <2>2. \A lo, hi \in 0..n : f[<<lo, hi>>] = SearchStep(h, v15, at, lo, hi)
    BY <1>7 DEF h
  <2>3. h = [r \in (0..n) \X (0..n) |-> SearchStep(h, v15, at, r[1], r[2])]
    BY <2>1, <2>2
  <2> QED BY <2>3 DEF h
<1> QED BY <1>8

\* The bisection finds how many bars of a list have closed, if those that have
\* closed come first.
LEMMA BisectFinds ==
    ASSUME NEW v15, NEW at, Len(v15) \in Nat, NEW m \in 0..Len(v15),
           \A n \in 1..Len(v15) : Closes(v15[n], at) <=> n <= m
    PROVE  Bisect(v15, at) = m
<1> DEFINE size == Len(v15)
           search == CHOOSE f : f = [r \in (0..size) \X (0..size) |-> SearchStep(f, v15, at, r[1], r[2])]
<1>1. search = [r \in (0..size) \X (0..size) |-> SearchStep(search, v15, at, r[1], r[2])]
  BY SearchExists
<1>2. Bisect(v15, at) = search[<<0, size>>]
  BY Zenon DEF Bisect, SearchStep
<1> HIDE DEF search
<1>3. \A lo, hi \in 0..size : search[<<lo, hi>>] = SearchStep(search, v15, at, lo, hi)
  BY <1>1
<1> DEFINE Finds(d) == \A lo, hi \in 0..size : lo <= m /\ m <= hi /\ hi - lo <= d => search[<<lo, hi>>] = m
           Fails == {d \in Nat : ~ Finds(d)}
<1> HIDE DEF size
<1>s. size \in Nat /\ m \in 0..size
  BY DEF size
<1>4. Finds(0)
  <2> SUFFICES ASSUME NEW lo \in 0..size, NEW hi \in 0..size, lo <= m, m <= hi, hi - lo <= 0
               PROVE  search[<<lo, hi>>] = m
    OBVIOUS
  <2>1. lo = m /\ hi = m
    BY <1>s
  <2> QED BY <1>3, <2>1 DEF SearchStep
<1>5. ASSUME NEW d \in Nat \ {0}, Finds(d - 1)
      PROVE  Finds(d)
  <2> SUFFICES ASSUME NEW lo \in 0..size, NEW hi \in 0..size, lo <= m, m <= hi, hi - lo <= d
               PROVE  search[<<lo, hi>>] = m
    OBVIOUS
  <2>1. CASE lo >= hi
    <3>1. lo = m
      BY <1>s, <2>1
    <3> QED BY <1>3, <2>1, <3>1 DEF SearchStep
  <2>2. CASE lo < hi
    <3> DEFINE mid == (lo + hi) \div 2
    <3>1. mid \in Nat /\ lo <= mid /\ mid < hi
      BY <2>2
    <3>2. search[<<lo, hi>>] = IF Closes(v15[mid + 1], at)
                                 THEN search[<<mid + 1, hi>>]
                                 ELSE search[<<lo, mid>>]
      BY <1>3, <2>2 DEF SearchStep
    <3> HIDE DEF mid
    <3>3. /\ mid + 1 \in 0..size /\ mid \in 0..size /\ mid + 1 \in 1..size
          /\ hi - (mid + 1) <= d - 1 /\ mid - lo <= d - 1
      BY <1>s, <3>1
    <3>4. Closes(v15[mid + 1], at) <=> mid + 1 <= m
      BY <3>3 DEF size
    <3>5. CASE mid + 1 <= m
      BY <1>5, <3>2, <3>3, <3>4, <3>5
    <3>6. CASE ~ (mid + 1 <= m)
      <4>1. m <= mid
        BY <1>s, <3>1, <3>6
      <4> QED BY <1>5, <3>2, <3>3, <3>4, <3>6, <4>1
    <3> QED BY <3>5, <3>6
  <2> QED BY <2>1, <2>2
<1> HIDE DEF Finds
<1>6. Fails = {}
  <2> SUFFICES ASSUME Fails # {} PROVE FALSE
    OBVIOUS
  <2>1. PICK d \in Fails : \A k \in Fails : d <= k
    BY LeastNatural
  <2>2. d \in Nat \ {0} /\ d - 1 \in Nat /\ ~ (d <= d - 1)
    BY <1>4
  <2>3. Finds(d - 1)
    BY <2>1, <2>2
  <2> QED BY <1>5, <2>2, <2>3
<1>7. Finds(size)
  BY <1>6, <1>s
<1>8. search[<<0, size>>] = m
  BY <1>7, <1>s DEF Finds
<1> QED BY <1>2, <1>8
-----------------------------------------------------------------------------
(***************************************************************************)
(* Sweep: whatever bars close, after whatever gaps, the accelerated        *)
(* scanner is the reference, and a confirmed event is final.               *)
(***************************************************************************)

SweepBar == [at : Nat, low : Int, high : Int, close : Int, surge : BOOLEAN]

\* The closed bars are bars in the order of their slots, and not too many
\* slots are without one.
SweepInv ==
    /\ closedBars \in Seq(SweepBar)
    /\ \A n \in 1..Len(closedBars) : n <= closedBars[n].at + 1 /\ closedBars[n].at < NextSlot
    /\ \A m, n \in 1..Len(closedBars) : m < n => closedBars[m].at < closedBars[n].at
    /\ NextSlot \in 0..LastSlot /\ Len(closedBars) <= NextSlot /\ Gaps <= MaxGaps

\* What a scan reads: a list of bars in the order of their slots.
IsView(v) ==
    /\ Len(v) \in Nat /\ DOMAIN v = 1..Len(v)
    /\ \A n \in 1..Len(v) : v[n].at \in Nat /\ {v[n].low, v[n].high, v[n].close} \subseteq Int
    /\ \A m, n \in 1..Len(v) : m < n => v[m].at < v[n].at

\* The list w is the list v and a later bar.
Grown(v, w) ==
    /\ IsView(v) /\ IsView(w) /\ Len(w) = Len(v) + 1
    /\ \A n \in 1..Len(v) : w[n] = v[n] /\ v[n].at < w[Len(w)].at

\* A closing bar keeps the bars well typed and in order.
LEMMA SweepInvStep ==
    ASSUME SweepInv, [SweepNext]_sweepVars
    PROVE  SweepInv'
<1>1. CASE BarCloses
  <2>1. PICK shape \in Shapes, gap \in 0..1 :
            /\ Gaps + gap <= MaxGaps /\ NextSlot + gap < LastSlot
            /\ closedBars' = Append(closedBars, [at |-> NextSlot + gap, low |-> shape.low, high |-> shape.high,
                                     close |-> shape.close, surge |-> shape.surge])
    BY <1>1 DEF BarCloses
  <2> DEFINE bar == [at |-> NextSlot + gap, low |-> shape.low, high |-> shape.high,
                     close |-> shape.close, surge |-> shape.surge]
             size == Len(closedBars)
  <2>2. bar \in SweepBar /\ bar.at = NextSlot + gap /\ NextSlot \in Nat /\ gap \in {0, 1}
    BY SweepAssumption DEF SweepInv, SweepBar
  <2> HIDE DEF bar
  <2>3. closedBars' = Append(closedBars, bar)
    BY <2>1 DEF bar
  <2>4. /\ closedBars' \in Seq(SweepBar) /\ size \in Nat
        /\ Len(closedBars') = size + 1
        /\ closedBars'[size + 1] = bar
        /\ \A n \in 1..size : closedBars'[n] = closedBars[n]
    BY <2>2, <2>3 DEF SweepInv
  <2>5. NextSlot' = bar.at + 1
    <3>1. closedBars' # <<>>
      BY <2>4
    <3> QED BY <2>4, <3>1 DEF NextSlot, Last
  <2>6. ASSUME NEW n \in 1..size
        PROVE  /\ closedBars'[n].at = closedBars[n].at /\ closedBars[n].at \in Nat
               /\ n <= closedBars[n].at + 1 /\ closedBars[n].at < NextSlot
    <3>1. closedBars[n] \in SweepBar
      BY DEF SweepInv
    <3> QED BY <2>4, <3>1 DEF SweepInv, SweepBar
  <2>7. /\ size <= NextSlot /\ MaxGaps \in Nat /\ NextSlot - size + gap <= MaxGaps
        /\ LastSlot \in Nat /\ NextSlot + gap < LastSlot
    BY <2>1, SweepAssumption DEF SweepInv, Gaps
  <2>8. \A m, n \in 1..size : m < n => closedBars[m].at < closedBars[n].at
    BY DEF SweepInv
  <2> HIDE DEF size
  <2>9. ASSUME NEW n \in 1..size + 1
        PROVE  n <= closedBars'[n].at + 1 /\ closedBars'[n].at < NextSlot'
    <3>1. CASE n = size + 1
      BY <2>2, <2>4, <2>5, <2>7, <3>1
    <3>2. CASE n \in 1..size
      BY <2>2, <2>5, <2>6, <3>2
    <3> QED BY <2>4, <3>1, <3>2
  <2>10. ASSUME NEW m \in 1..size + 1, NEW n \in 1..size + 1, m < n
         PROVE  closedBars'[m].at < closedBars'[n].at
    <3>1. m \in 1..size
      BY <2>4, <2>10
    <3>2. CASE n = size + 1
      BY <2>2, <2>4, <2>6, <3>1, <3>2
    <3>3. CASE n \in 1..size
      <4>1. closedBars[m].at < closedBars[n].at
        BY <2>8, <2>10, <3>1, <3>3
      <4> QED BY <2>6, <3>1, <3>3, <4>1
    <3> QED BY <2>4, <3>2, <3>3
  <2>11. NextSlot' \in 0..LastSlot /\ Len(closedBars') <= NextSlot' /\ Gaps' <= MaxGaps
    BY <2>2, <2>4, <2>5, <2>7 DEF Gaps
  <2> QED BY <2>4, <2>9, <2>10, <2>11 DEF SweepInv
<1>2. CASE UNCHANGED closedBars
  BY <1>2 DEF SweepInv, NextSlot, Gaps
<1> QED BY <1>1, <1>2 DEF SweepNext, LookAgain, sweepVars

\* The bars of a history come in the order of their slots.
InOrder(bs) == \A m, n \in 1..Len(bs) : m < n => bs[m].at < bs[n].at

\* What a scan reads of either side is a list of bars.
LEMMA Viewed ==
    ASSUME NEW side \in Sides, NEW bs \in Seq(SweepBar), InOrder(bs)
    PROVE  /\ IsView(View(side, bs)) /\ Len(View(side, bs)) = Len(bs)
           /\ \A n \in 1..Len(bs) : View(side, bs)[n].at = bs[n].at
<1> DEFINE v == View(side, bs)
           mirrored(b) == [b EXCEPT !.low = -b.high, !.high = -b.low, !.close = -b.close]
<1>1. \A n \in 1..Len(bs) : bs[n] \in SweepBar
  OBVIOUS
<1>2. Len(bs) \in Nat /\ DOMAIN bs = 1..Len(bs)
  OBVIOUS
<1>3. CASE side = "long"
  <2>1. v = bs
    BY <1>3 DEF View
  <2>2. \A n \in 1..Len(bs) : bs[n].at \in Nat /\ {bs[n].low, bs[n].high, bs[n].close} \subseteq Int
    BY <1>1 DEF SweepBar
  <2>3. IsView(bs)
    BY <1>2, <2>2 DEF IsView, InOrder
  <2> QED BY <2>1, <2>3
<1>4. CASE side # "long"
  <2>1. v = [i \in 1..Len(bs) |-> mirrored(bs[i])]
    BY <1>2, <1>4 DEF View
  <2>2. ASSUME NEW b \in SweepBar
        PROVE  /\ mirrored(b).at = b.at /\ mirrored(b).low = -b.high
               /\ mirrored(b).high = -b.low /\ mirrored(b).close = -b.close
    BY DEF SweepBar
  <2> HIDE DEF mirrored
  <2>3. Len(v) = Len(bs) /\ DOMAIN v = 1..Len(v)
    BY <1>2, <2>1
  <2>4. ASSUME NEW n \in 1..Len(bs)
        PROVE  v[n].at = bs[n].at /\ v[n].at \in Nat /\ {v[n].low, v[n].high, v[n].close} \subseteq Int
    <3>1. v[n] = mirrored(bs[n])
      BY <2>1
    <3>2. bs[n].at \in Nat /\ bs[n].low \in Int /\ bs[n].high \in Int /\ bs[n].close \in Int
      BY <1>1 DEF SweepBar
    <3> HIDE DEF v
    <3> QED BY <1>1, <2>2, <3>1, <3>2
  <2> HIDE DEF v
  <2>5. IsView(v) /\ Len(v) = Len(bs) /\ \A n \in 1..Len(bs) : v[n].at = bs[n].at
    BY <1>2, <2>3, <2>4 DEF IsView, InOrder
  <2> QED BY <2>5 DEF v
<1> QED BY <1>3, <1>4

\* When a bar closes, a scan of either side reads what it read, and a later bar.
LEMMA ViewsGrow ==
    ASSUME SweepInv, BarCloses, NEW side \in Sides
    PROVE  Grown(View(side, closedBars), View(side, closedBars'))
<1> DEFINE n == Len(closedBars)
           v == View(side, closedBars)
           w == View(side, closedBars')
<1>1. SweepInv'
  BY SweepInvStep DEF SweepNext
<1>2. /\ closedBars \in Seq(SweepBar) /\ closedBars' \in Seq(SweepBar)
      /\ InOrder(closedBars) /\ InOrder(closedBars')
  BY <1>1 DEF SweepInv, InOrder
<1>3. IsView(v) /\ IsView(w) /\ Len(v) = n /\ Len(w) = Len(closedBars')
  BY <1>2, Viewed
<1>4. PICK bar : closedBars' = Append(closedBars, bar) /\ bar.at >= NextSlot /\ bar.at \in Nat
  <2>1. PICK shape \in Shapes, gap \in 0..1 :
            closedBars' = Append(closedBars, [at |-> NextSlot + gap, low |-> shape.low, high |-> shape.high,
                                     close |-> shape.close, surge |-> shape.surge])
    BY DEF BarCloses
  <2>2. NextSlot + gap \in Nat /\ NextSlot + gap >= NextSlot
    BY SweepAssumption DEF SweepInv
  <2> QED BY <2>1, <2>2
<1>5. /\ Len(closedBars') = n + 1 /\ n \in Nat /\ closedBars'[n + 1] = bar
      /\ \A k \in 1..n : closedBars'[k] = closedBars[k]
  BY <1>2, <1>4
<1>6. ASSUME NEW k \in 1..n
      PROVE  w[k] = v[k]
  <2>1. k \in DOMAIN closedBars /\ k \in DOMAIN closedBars' /\ closedBars'[k] = closedBars[k]
    BY <1>2, <1>5
  <2> QED BY <2>1 DEF View
<1>7. w[n + 1].at = bar.at
  BY <1>2, <1>5, Viewed
<1>8. ASSUME NEW k \in 1..n
      PROVE  v[k].at < w[n + 1].at
  <2>1. v[k].at = closedBars[k].at /\ closedBars[k].at < NextSlot
    BY <1>2, Viewed DEF SweepInv
  <2>2. v[k].at \in Nat
    BY <1>3 DEF IsView
  <2>3. NextSlot \in Nat
    BY DEF SweepInv
  <2> QED BY <1>4, <1>7, <2>1, <2>2, <2>3
<1> HIDE DEF v, w, n
<1>9. Grown(v, w)
  BY <1>3, <1>5, <1>6, <1>8 DEF Grown
<1> QED BY <1>9 DEF v, w
\* The first element of a set of bars, if it has one.
LEMMA FirstIs ==
    ASSUME NEW S \in SUBSET Int, NEW low \in Int, \A y \in S : low <= y
    PROVE  S # {} => FirstOf(S) \in S /\ \A y \in S : FirstOf(S) <= y
BY MinOf DEF FirstOf

\* A later element changes the first one of no set.
LEMMA FirstStays ==
    ASSUME NEW S \in SUBSET Int, NEW T \in SUBSET Int, NEW low \in Int, \A y \in T : low <= y,
           S \subseteq T, S # {}, \A x \in T \ S : \A y \in S : y < x
    PROVE  FirstOf(T) = FirstOf(S)
<1> DEFINE a == FirstOf(S)
           b == FirstOf(T)
<1>1. a \in S /\ \A y \in S : a <= y
  BY FirstIs
<1>2. b \in T /\ \A y \in T : b <= y
  BY FirstIs
<1> HIDE DEF a, b
<1>3. a \in Int /\ b \in Int /\ b <= a
  BY <1>1, <1>2
<1>4. b \in S
  <2> SUFFICES ASSUME b \notin S PROVE FALSE
    OBVIOUS
  <2>1. a < b
    BY <1>1, <1>2
  <2> QED BY <1>3, <2>1
<1> QED BY <1>1, <1>3, <1>4 DEF a, b

\* What a scan needs is both lookbacks.
LEMMA RequiredIs ==
    /\ Required \in Nat /\ LiquidityLookback \in Nat \ {0} /\ StructureLookback \in Nat \ {0}
    /\ Required >= LiquidityLookback /\ Required >= StructureLookback
    /\ Reclaim \in Nat /\ MaxConfirm \in Nat \ {0}
BY SweepAssumption, MaxOfTwo DEF Required

\* The levels of a bar are those of the bars before it.
LEMMA LevelsStay ==
    ASSUME NEW v, NEW w, Grown(v, w), NEW i \in 1..Len(v), i > Required
    PROVE  Level(w, i) = Level(v, i) /\ ShiftLevel(w, i) = ShiftLevel(v, i)
<1>1. Len(v) \in Nat /\ \A k \in 1..Len(v) : w[k] = v[k]
  BY DEF Grown, IsView
<1>2. \A k \in i - LiquidityLookback .. i - 1 : w[k] = v[k]
  BY <1>1, RequiredIs
<1>3. \A k \in i - StructureLookback .. i - 1 : w[k] = v[k]
  BY <1>1, RequiredIs
<1>4. {w[k].low : k \in i - LiquidityLookback .. i - 1} = {v[k].low : k \in i - LiquidityLookback .. i - 1}
  BY <1>2
<1>5. {w[k].high : k \in i - StructureLookback .. i - 1} = {v[k].high : k \in i - StructureLookback .. i - 1}
  BY <1>3
<1> QED BY <1>4, <1>5 DEF Level, ShiftLevel

\* A bar that swept a level has swept it when more bars have closed.
LEMMA SweptStays ==
    ASSUME NEW v, NEW w, Grown(v, w), NEW i \in 1..Len(v), Swept(v, i)
    PROVE  Swept(w, i) /\ i > Required
<1>1. i > Required /\ w[i] = v[i]
  BY DEF Swept, Grown
<1>2. Level(w, i) = Level(v, i)
  BY <1>1, LevelsStay
<1> QED BY <1>1, <1>2 DEF Swept

\* The last bar a search may read.
LEMMA UpToIs ==
    ASSUME NEW v, Len(v) \in Nat, NEW last \in Int
    PROVE  UpTo(v, last) = IF Len(v) <= last THEN Len(v) ELSE last
BY MinOfTwo DEF UpTo

\* The bars from one to another that close above a level.
ClosesAbove(v, start, last, level) == {j \in start .. UpTo(v, last) : v[j].close > level}

\* The first bar to close above a level is the same when more bars have closed.
LEMMA AboveStays ==
    ASSUME NEW v, NEW w, Grown(v, w), NEW start \in 1..Len(v), NEW last \in Int, NEW level,
           ClosesAbove(v, start, last, level) # {}
    PROVE  /\ FirstOf(ClosesAbove(w, start, last, level)) = FirstOf(ClosesAbove(v, start, last, level))
           /\ FirstOf(ClosesAbove(v, start, last, level)) \in start..Len(v)
<1> DEFINE S == ClosesAbove(v, start, last, level)
           T == ClosesAbove(w, start, last, level)
<1>1. Len(v) \in Nat /\ Len(w) = Len(v) + 1 /\ \A n \in 1..Len(v) : w[n] = v[n]
  BY DEF Grown, IsView
<1>2. /\ UpTo(v, last) = IF Len(v) <= last THEN Len(v) ELSE last
      /\ UpTo(w, last) = IF Len(w) <= last THEN Len(w) ELSE last
  BY <1>1, UpToIs
<1>3. S = {j \in start..Len(v) : j <= last /\ v[j].close > level}
  BY <1>1, <1>2 DEF ClosesAbove
<1>4. T = {j \in start..Len(v) + 1 : j <= last /\ w[j].close > level}
  BY <1>1, <1>2 DEF ClosesAbove
<1>5. S \in SUBSET Int /\ T \in SUBSET Int /\ start \in Int /\ \A y \in T : start <= y
  BY <1>1, <1>3, <1>4
<1>6. S \subseteq T
  BY <1>1, <1>3, <1>4
<1>7. ASSUME NEW x \in T \ S, NEW y \in S
      PROVE  y < x
  BY <1>1, <1>3, <1>4
<1>8. \A y \in S : start <= y
  BY <1>3
<1>9. S \subseteq start..Len(v)
  BY <1>3
<1> HIDE DEF S, T
<1>10. S # {}
  BY DEF S
<1>11. FirstOf(T) = FirstOf(S)
  BY <1>5, <1>6, <1>7, <1>10, FirstStays
<1>12. FirstOf(S) \in S
  BY <1>5, <1>8, <1>10, FirstIs
<1> QED BY <1>9, <1>11, <1>12 DEF S, T

\* The reclaim and the confirmation of a confirmed sweep are where they were.
LEMMA ConfirmStays ==
    ASSUME NEW v, NEW w, Grown(v, w), NEW i \in 1..Len(v), i > Required, ConfirmAt(v, i) # 0
    PROVE  /\ ReclaimAt(v, i) \in 1..Len(v) /\ ReclaimAt(w, i) = ReclaimAt(v, i)
           /\ ConfirmAt(v, i) \in 1..Len(v) /\ ConfirmAt(w, i) = ConfirmAt(v, i)
<1> DEFINE r == ReclaimAt(v, i)
<1>1. Len(v) \in Nat /\ i \in Nat /\ i + Reclaim \in Int /\ i + MaxConfirm \in Int
  BY RequiredIs DEF Grown, IsView
<1>2. Level(w, i) = Level(v, i) /\ ShiftLevel(w, i) = ShiftLevel(v, i)
  BY LevelsStay
<1>3. r # 0 /\ ConfirmAt(v, i) = FirstOf(ClosesAbove(v, r, i + MaxConfirm, ShiftLevel(v, i)))
  BY DEF ConfirmAt, ClosesAbove
<1>4. r = FirstOf(ClosesAbove(v, i, i + Reclaim, Level(v, i)))
      /\ ReclaimAt(w, i) = FirstOf(ClosesAbove(w, i, i + Reclaim, Level(v, i)))
  BY <1>2 DEF ReclaimAt, ClosesAbove
<1> HIDE DEF r
<1>5. ClosesAbove(v, i, i + Reclaim, Level(v, i)) # {}
  BY <1>3, <1>4 DEF FirstOf
<1>6. ReclaimAt(w, i) = r /\ r \in i..Len(v)
  BY <1>1, <1>4, <1>5, AboveStays
<1>7. r \in 1..Len(v)
  BY <1>1, <1>6
<1>8. ConfirmAt(w, i) = FirstOf(ClosesAbove(w, r, i + MaxConfirm, ShiftLevel(v, i)))
  BY <1>2, <1>3, <1>6 DEF ConfirmAt, ClosesAbove
<1>9. ClosesAbove(v, r, i + MaxConfirm, ShiftLevel(v, i)) # {}
  BY <1>3 DEF FirstOf
<1>10. ConfirmAt(w, i) = ConfirmAt(v, i) /\ ConfirmAt(v, i) \in r..Len(v)
  BY <1>1, <1>3, <1>7, <1>8, <1>9, AboveStays
<1>11. ConfirmAt(v, i) \in 1..Len(v)
  BY <1>1, <1>7, <1>10
<1> QED BY <1>6, <1>7, <1>10, <1>11 DEF r
\* The fifteen-minute bars that had closed by the close of a bar are the same
\* when more bars have closed.
LEMMA GroupsStay ==
    ASSUME NEW v, NEW w, Grown(v, w), NEW at \in Nat, at < w[Len(w)].at
    PROVE  ClosedList(w, at) = ClosedList(v, at)
<1> DEFINE size == Len(v)
<1>1. /\ size \in Nat /\ Len(w) = size + 1 /\ DOMAIN v = 1..size /\ DOMAIN w = 1..size + 1
      /\ \A n \in 1..size : w[n] = v[n]
      /\ w[size + 1].at \in Nat /\ at < w[size + 1].at
      /\ \A n \in 1..size : v[n].at \in Nat
  BY DEF Grown, IsView
<1> HIDE DEF size
<1>2. ASSUME NEW g \in Nat, (g + 1) * GroupBars <= at + 1
      PROVE  /\ In(w, g) = In(v, g) /\ (Whole(w, g) <=> Whole(v, g))
             /\ Whole(v, g) => Bar15(w, g) = Bar15(v, g)
  <2>1. g * GroupBars \in Nat /\ (g + 1) * GroupBars \in Nat /\ GroupBars \in Nat \ {0}
        /\ (g + 1) * GroupBars = g * GroupBars + GroupBars
    BY GroupsInOrder, SweepAssumption
  <2> DEFINE first == g * GroupBars
             next == (g + 1) * GroupBars
  <2>2. Group(g) = first .. next - 1 /\ first \in Nat /\ next \in Nat /\ first < next /\ next <= at + 1
    <3>1. first < next
      <4>1. \A a, b, c \in Nat : b # 0 /\ c = a + b => a < c
        OBVIOUS
      <4> QED BY <2>1, <4>1
    <3> QED BY <1>2, <2>1, <3>1 DEF Group
  <2> HIDE DEF first, next
  <2>3. w[size + 1].at \notin Group(g)
    BY <1>1, <2>2
  <2>4. In(w, g) = In(v, g) /\ In(v, g) \subseteq 1..size
    BY <1>1, <2>3 DEF In
  <2>5. ASSUME NEW slot \in Group(g)
        PROVE  (\E j \in DOMAIN w : w[j].at = slot) <=> \E j \in DOMAIN v : v[j].at = slot
    <3>1. w[size + 1].at # slot
      BY <2>3
    <3>2. \A j \in 1..size + 1 : j \in 1..size \/ j = size + 1
      BY <1>1
    <3>3. \A j \in 1..size : j \in 1..size + 1
      BY <1>1
    <3> QED BY <1>1, <3>1, <3>2, <3>3
  <2>6. Whole(w, g) <=> Whole(v, g)
    BY <2>5 DEF Whole
  <2>7. ASSUME Whole(v, g)
        PROVE  Bar15(w, g) = Bar15(v, g)
    <3>1. first \in Group(g)
      BY <2>2
    <3>2. PICK j \in DOMAIN v : v[j].at = first
      BY <2>7, <3>1 DEF Whole
    <3>3. j \in In(v, g)
      BY <3>1, <3>2 DEF In
    <3> DEFINE x == Max(In(v, g))
    <3>4. x \in 1..size
      <4>1. In(v, g) \in SUBSET Int /\ In(v, g) # {} /\ size \in Int /\ \A y \in In(v, g) : y <= size
        BY <1>1, <2>4, <3>3
      <4> QED BY <2>4, <4>1, MaxOf
    <3>5. w[x] = v[x]
      BY <1>1, <3>4
    <3>6. {w[k].low : k \in In(v, g)} = {v[k].low : k \in In(v, g)}
      BY <1>1, <2>4
    <3> QED BY <2>4, <3>5, <3>6 DEF Bar15
  <2> QED BY <2>4, <2>6, <2>7
<1>3. ClosedGroups(w, at) = ClosedGroups(v, at)
  <2>1. \A g \in 0..LastSlot : g \in Nat
    BY SweepAssumption
  <2> QED BY <1>2, <2>1 DEF ClosedGroups, WholeGroups
<1> DEFINE W == ClosedGroups(v, at)
           m == Cardinality(W)
<1>4. ASSUME NEW n \in 1..m
      PROVE  Bar15(w, Nth(W, n)) = Bar15(v, Nth(W, n))
  <2>1. LastSlot \in Nat
    BY SweepAssumption
  <2>2. W \in SUBSET (0..LastSlot) /\ IsFiniteSet(0..LastSlot)
    BY <2>1, FS_Interval DEF ClosedGroups, WholeGroups
  <2>3. W \in SUBSET Nat /\ IsFiniteSet(W)
    BY <2>1, <2>2, FS_Subset
  <2> HIDE DEF W
  <2>4. Nth(W, n) \in W
    BY <2>3, NthIs
  <2>5. Nth(W, n) \in Nat /\ Whole(v, Nth(W, n)) /\ (Nth(W, n) + 1) * GroupBars <= at + 1
    BY <2>3, <2>4 DEF W, ClosedGroups, WholeGroups
  <2> QED BY <1>2, <2>5
<1> HIDE DEF W
<1>5. ClosedList(w, at) = [n \in 1..m |-> Bar15(w, Nth(W, n))]
  BY <1>3 DEF ClosedList, W
<1>6. ClosedList(v, at) = [n \in 1..m |-> Bar15(v, Nth(W, n))]
  BY DEF ClosedList, W
<1> QED BY <1>4, <1>5, <1>6

\* The event of a confirmed sweep is the same when more bars have closed.
LEMMA EventStays ==
    ASSUME NEW v, NEW w, Grown(v, w), NEW i \in 1..Len(v), Swept(v, i), ConfirmAt(v, i) # 0
    PROVE  Event(w, i) = Event(v, i) /\ Swept(w, i)
<1> DEFINE r == ReclaimAt(v, i)
           c == ConfirmAt(v, i)
<1>1. i > Required /\ Swept(w, i)
  BY SweptStays
<1>2. r \in 1..Len(v) /\ c \in 1..Len(v) /\ ReclaimAt(w, i) = r /\ ConfirmAt(w, i) = c
  BY <1>1, ConfirmStays
<1> HIDE DEF r, c
<1>3. w[i] = v[i] /\ w[r] = v[r] /\ w[c] = v[c] /\ v[c].at \in Nat /\ v[c].at < w[Len(w)].at
      /\ Len(v) \in Nat
  BY <1>2 DEF Grown, IsView
<1>4. Structure15(w, v[c].at) <=> Structure15(v, v[c].at)
  BY <1>3, GroupsStay, ClosedAre
<1>5. At(v, c) = v[c].at /\ At(w, c) = v[c].at /\ At(w, r) = At(v, r)
  BY <1>2, <1>3 DEF At
<1>6. Event(v, i) = [sweep |-> v[i].at, reclaim |-> At(v, r), confirm |-> v[c].at,
                     ready |-> c # 0 /\ v[c].surge /\ c # 0 /\ Structure15(v, v[c].at)]
  BY <1>5 DEF Event, EventWith, r, c
<1>7. Event(w, i) = [sweep |-> v[i].at, reclaim |-> At(v, r), confirm |-> v[c].at,
                     ready |-> c # 0 /\ v[c].surge /\ c # 0 /\ Structure15(w, v[c].at)]
  BY <1>2, <1>3, <1>5 DEF Event, EventWith
<1> QED BY <1>1, <1>4, <1>6, <1>7

\* The closed bars are bars in the order of their slots, in every state.
THEOREM SweepSafety == SweepSpec => []SweepInv
<1>1. SweepInit => SweepInv
  <2>1. MaxGaps \in Nat /\ LastSlot \in Nat
    BY SweepAssumption
  <2> QED BY <2>1 DEF SweepInit, SweepInv, NextSlot, Gaps
<1> QED BY <1>1, SweepInvStep, PTL DEF SweepSpec

\* A step that closes a bar keeps every confirmed event of a side.
LEMMA BarKeepsEvents ==
    ASSUME SweepInv, BarCloses, NEW side \in Sides,
           NEW e \in ScanSetups(closedBars, side), e.confirm >= 0
    PROVE  e \in ScanSetups(closedBars', side)
<1> DEFINE v == View(side, closedBars)
           w == View(side, closedBars')
<1>1. Grown(v, w)
  BY ViewsGrow
<1> HIDE DEF v, w
<1>2. PICK i \in DOMAIN v : Swept(v, i) /\ e = Event(v, i)
  BY DEF ScanSetups, v
<1>3. i \in 1..Len(v) /\ i \in DOMAIN w
  BY <1>1 DEF Grown, IsView
<1>4. ConfirmAt(v, i) # 0
  <2>1. e.confirm = At(v, ConfirmAt(v, i))
    BY <1>2 DEF Event, EventWith
  <2> QED BY <2>1 DEF At
<1>5. Event(w, i) = Event(v, i) /\ Swept(w, i)
  BY <1>1, <1>2, <1>3, <1>4, EventStays
<1> QED BY <1>2, <1>3, <1>5 DEF ScanSetups, w

\* No repainting, for any prices, slots, gaps and lookbacks: what a scan once
\* reported as confirmed, it reports in every later history (scan_sweep_setups).
THEOREM ConfirmedIsFinalHolds == SweepSpec => ConfirmedIsFinal
<1> DEFINE Kept ==
        \A side \in Sides : \A e \in ScanSetups(closedBars, side) :
            e.confirm >= 0 => e \in ScanSetups(closedBars', side)
<1>1. SweepInv /\ [SweepNext]_sweepVars => [Kept]_sweepVars
  <2> SUFFICES ASSUME SweepInv, [SweepNext]_sweepVars
               PROVE  Kept
    OBVIOUS
  <2>1. CASE BarCloses
    BY <2>1, BarKeepsEvents
  <2>2. CASE UNCHANGED closedBars
    BY <2>2
  <2> QED BY <2>1, <2>2 DEF SweepNext, LookAgain, sweepVars
<1> QED BY <1>1, SweepSafety, PTL DEF SweepSpec, ConfirmedIsFinal

\* The first bar to close above a level is one that a search may read.
LEMMA AboveInside ==
    ASSUME NEW v, IsView(v), NEW start \in 1..Len(v), NEW last \in Int, NEW level,
           FirstOf(ClosesAbove(v, start, last, level)) # 0
    PROVE  LET a == FirstOf(ClosesAbove(v, start, last, level))
           IN  a \in start..Len(v) /\ a <= last /\ a \in ClosesAbove(v, start, last, level)
<1> DEFINE S == ClosesAbove(v, start, last, level)
<1>1. Len(v) \in Nat /\ start \in Int
  BY DEF IsView
<1>2. UpTo(v, last) = IF Len(v) <= last THEN Len(v) ELSE last
  BY <1>1, UpToIs
<1>3. \A y \in S : y \in start..Len(v) /\ y <= last
  BY <1>1, <1>2 DEF ClosesAbove
<1> HIDE DEF S
<1>4. S # {}
  BY DEF FirstOf, S
<1>5. S \in SUBSET Int /\ \A y \in S : start <= y
  BY <1>1, <1>3
<1>6. FirstOf(S) \in S
  BY <1>1, <1>4, <1>5, FirstIs
<1> QED BY <1>3, <1>6 DEF S

\* A confirmation is one of the bars after the reclaim, and not too late.
LEMMA ConfirmInside ==
    ASSUME NEW v, IsView(v), NEW i \in 1..Len(v), ConfirmAt(v, i) # 0
    PROVE  /\ ReclaimAt(v, i) \in i..Len(v) /\ ConfirmAt(v, i) \in ReclaimAt(v, i)..Len(v)
           /\ ConfirmAt(v, i) \in 1..Len(v) /\ ConfirmAt(v, i) <= i + MaxConfirm
<1> DEFINE r == ReclaimAt(v, i)
<1>1. Len(v) \in Nat /\ i \in Nat \ {0} /\ i + Reclaim \in Int /\ i + MaxConfirm \in Int
  BY RequiredIs DEF IsView
<1>2. r # 0 /\ ConfirmAt(v, i) = FirstOf(ClosesAbove(v, r, i + MaxConfirm, ShiftLevel(v, i)))
  BY DEF ConfirmAt, ClosesAbove
<1>3. r = FirstOf(ClosesAbove(v, i, i + Reclaim, Level(v, i)))
  BY DEF ReclaimAt, ClosesAbove
<1> HIDE DEF r
<1>4. r \in i..Len(v)
  BY <1>1, <1>2, <1>3, AboveInside
<1>5. r \in 1..Len(v)
  BY <1>1, <1>4
<1>6. ConfirmAt(v, i) \in r..Len(v) /\ ConfirmAt(v, i) <= i + MaxConfirm
  BY <1>1, <1>2, <1>5, AboveInside
<1>7. ConfirmAt(v, i) \in 1..Len(v)
  BY <1>1, <1>5, <1>6
<1> QED BY <1>4, <1>6, <1>7 DEF r

\* The bisection finds the fifteen-minute bars that have closed by the close of
\* a bar, so both classifiers judge the same list.
LEMMA FastIsSame ==
    ASSUME NEW v, NEW at \in Nat
    PROVE  FastStructure15(v, at) <=> Structure15(v, at)
<1> DEFINE m == Cardinality(ClosedGroups(v, at))
           v15 == Fifteen(v)
<1>1. /\ m \in Nat /\ Len(v15) \in Nat /\ m <= Len(v15)
      /\ \A n \in 1..Len(v15) : Closes(v15[n], at) <=> n <= m
      /\ \A n \in 1..m : v15[n] = ClosedList(v, at)[n]
      /\ Structure15(v, at) <=> Confirms(ClosedList(v, at))
  BY ClosedAre
<1>2. ClosedList(v, at) = [n \in 1..m |-> ClosedList(v, at)[n]]
  BY DEF ClosedList
<1> HIDE DEF m, v15
<1>3. Bisect(v15, at) = m
  BY <1>1, BisectFinds
<1>4. SubSeq(v15, 1, m) = ClosedList(v, at)
  <2> DEFINE s == SubSeq(v15, 1, m)
             S == {v15[n] : n \in 1..m}
  <2>1. s \in Seq(S) /\ Len(s) = (IF 1 <= m THEN m - 1 + 1 ELSE 0)
        /\ \A i \in 1 .. m - 1 + 1 : s[i] = v15[1 + i - 1]
    <3>1. \A i \in 1..m : v15[i] \in S
      OBVIOUS
    <3> HIDE DEF S
    <3> QED BY <1>1, <3>1, SubSeqProperties
  <2>2. Len(s) = m /\ \A i \in 1..m : s[i] = v15[i]
    BY <1>1, <2>1
  <2> HIDE DEF s
  <2>3. s = [n \in 1..m |-> s[n]]
    BY <2>1, <2>2
  <2> QED BY <1>1, <1>2, <2>2, <2>3 DEF s
<1> QED BY <1>1, <1>3, <1>4 DEF FastStructure15, v15
\* The diagnostics find what the reference finds, whatever bars have closed
\* (fast_scan_sweep_setups against scan_sweep_setups).
THEOREM FastIsReferenceHolds == SweepSpec => []FastIsReference
<1>1. SweepInv => FastIsReference
  <2> SUFFICES ASSUME SweepInv, NEW side \in Sides
               PROVE  FastScanSetups(closedBars, side) = ScanSetups(closedBars, side)
    BY DEF FastIsReference
  <2> DEFINE v == View(side, closedBars)
  <2>1. IsView(v)
    BY Viewed DEF SweepInv, InOrder
  <2> HIDE DEF v
  <2>2. ASSUME NEW i \in DOMAIN v, Swept(v, i)
        PROVE  FastEvent(v, i) = Event(v, i)
    <3> DEFINE c == ConfirmAt(v, i)
    <3>1. CASE c = 0
      BY <3>1 DEF FastEvent, Event
    <3>2. CASE c # 0
      <4>1. c \in 1..Len(v)
        BY <2>1, <2>2, <3>2, ConfirmInside DEF IsView
      <4>2. At(v, c) \in Nat
        BY <2>1, <3>2, <4>1 DEF At, IsView
      <4> HIDE DEF c
      <4>3. FastStructure15(v, At(v, c)) <=> Structure15(v, At(v, c))
        BY <4>2, FastIsSame
      <4> QED BY <4>3 DEF FastEvent, Event, c
    <3> QED BY <3>1, <3>2
  <2> QED BY <2>2 DEF FastScanSetups, ScanSetups, v
<1> QED BY <1>1, SweepSafety, PTL
\* The list u is the list v without its first bars.
CutOff(u, v, off) ==
    /\ IsView(u) /\ IsView(v) /\ off \in Nat /\ Len(v) = Len(u) + off
    /\ \A n \in 1..Len(u) : u[n] = v[n + off]

\* A slice is the history without its first bars, on either side.
LEMMA SliceIsCut ==
    ASSUME NEW side \in Sides, NEW bs \in Seq(SweepBar), InOrder(bs), bs # <<>>
    PROVE  \E off \in Nat :
               /\ CutOff(View(side, Slice(bs)), View(side, bs), off)
               /\ off = 0 \/ Len(View(side, Slice(bs))) = SliceBars
               /\ off = 0 => Slice(bs) = bs
               /\ Len(View(side, Slice(bs))) # 0
<1> DEFINE size == Len(bs)
           begin == Max({1, size - SliceBars + 1})
           off == begin - 1
           s == Slice(bs)
<1>1. /\ size \in Nat \ {0} /\ SliceBars \in Nat \ {0} /\ DOMAIN bs = 1..size
      /\ \A n \in 1..size : bs[n] \in SweepBar
  BY SweepAssumption
<1> HIDE DEF size
<1>2. begin = IF 1 >= size - SliceBars + 1 THEN 1 ELSE size - SliceBars + 1
  BY <1>1, MaxOfTwo
<1> HIDE DEF begin
<1>3. begin \in 1..size /\ off \in Nat /\ (off = 0 \/ size - off = SliceBars) /\ size - off \in Nat \ {0}
  BY <1>1, <1>2
<1>4. s = SubSeq(bs, begin, size)
  BY DEF Slice, begin, size
<1> HIDE DEF s
<1>5. /\ s \in Seq(SweepBar) /\ Len(s) = size - off
      /\ \A n \in 1..size - off : s[n] = bs[n + off] /\ n + off \in 1..size
  <2>1. \A n \in begin..size : bs[n] \in SweepBar
    BY <1>1, <1>3
  <2>2. /\ s \in Seq(SweepBar) /\ Len(s) = size - begin + 1
        /\ \A n \in 1 .. size - begin + 1 : s[n] = bs[begin + n - 1]
    BY <1>1, <1>3, <1>4, <2>1, SubSeqProperties
  <2>3. size - begin + 1 = size - off /\ \A n \in Int : begin + n - 1 = n + off
    BY <1>1, <1>3
  <2>4. \A n \in 1..size - off : n \in Int /\ n + off \in 1..size
    BY <1>1, <1>3
  <2> HIDE DEF off
  <2> QED BY <2>2, <2>3, <2>4
<1> HIDE DEF off
<1>6. InOrder(s)
  <2> SUFFICES ASSUME NEW m \in 1..Len(s), NEW n \in 1..Len(s), m < n
               PROVE  s[m].at < s[n].at
    BY DEF InOrder
  <2>1. m + off \in 1..size /\ n + off \in 1..size /\ m + off < n + off
    BY <1>3, <1>5
  <2>2. bs[m + off].at < bs[n + off].at
    BY <2>1 DEF InOrder, size
  <2> QED BY <1>5, <2>2
<1> DEFINE u == View(side, s)
           v == View(side, bs)
<1>7. IsView(u) /\ IsView(v) /\ Len(u) = Len(s) /\ Len(v) = size
  BY <1>5, <1>6, Viewed DEF size
<1>8. ASSUME NEW n \in 1..Len(s)
      PROVE  u[n] = v[n + off]
  <2>1. n \in DOMAIN s /\ n + off \in DOMAIN bs /\ s[n] = bs[n + off]
    BY <1>1, <1>5
  <2> QED BY <2>1 DEF View
<1> HIDE DEF u, v
<1>9. CutOff(u, v, off)
  <2>1. Len(v) = Len(u) + off
    BY <1>1, <1>3, <1>5, <1>7
  <2> QED BY <1>3, <1>7, <1>8, <2>1 DEF CutOff
<1>10. off = 0 => s = bs
  <2> SUFFICES ASSUME off = 0 PROVE s = bs
    OBVIOUS
  <2>1. Len(s) = Len(bs) /\ \A n \in 1..Len(bs) : s[n] = bs[n]
    BY <1>1, <1>5 DEF size
  <2> QED BY <1>5, <2>1, SeqEqual
<1> QED BY <1>3, <1>5, <1>7, <1>9, <1>10 DEF u, v, s

\* The levels of a bar of the slice are those of the bar in the history.
LEMMA LevelsCut ==
    ASSUME NEW u, NEW v, NEW off, CutOff(u, v, off), NEW i \in 1..Len(u), i > Required
    PROVE  Level(u, i) = Level(v, i + off) /\ ShiftLevel(u, i) = ShiftLevel(v, i + off)
<1>1. /\ Len(u) \in Nat /\ off \in Nat /\ i \in Nat /\ \A n \in 1..Len(u) : u[n] = v[n + off]
      /\ Required \in Nat /\ LiquidityLookback \in Nat \ {0} /\ StructureLookback \in Nat \ {0}
      /\ Required >= LiquidityLookback /\ Required >= StructureLookback
  BY RequiredIs DEF CutOff, IsView
<1>2. ASSUME NEW before \in Nat \ {0}, before <= Required
      PROVE  /\ {u[k].low : k \in i - before .. i - 1}
                    = {v[k].low : k \in (i + off) - before .. (i + off) - 1}
             /\ {u[k].high : k \in i - before .. i - 1}
                    = {v[k].high : k \in (i + off) - before .. (i + off) - 1}
  <2>1. \A k \in i - before .. i - 1 : u[k] = v[k + off] /\ k + off \in (i + off) - before .. (i + off) - 1
    <3> TAKE k \in i - before .. i - 1
    <3>1. k \in 1..Len(u) /\ k + off \in (i + off) - before .. (i + off) - 1
      BY <1>1, <1>2
    <3> QED BY <1>1, <3>1
  <2>2. \A k \in (i + off) - before .. (i + off) - 1 : k - off \in i - before .. i - 1 /\ (k - off) + off = k
    BY <1>1, <1>2
  <2>3. \A k \in (i + off) - before .. (i + off) - 1 : \E j \in i - before .. i - 1 : u[j] = v[k]
    <3> TAKE k \in (i + off) - before .. (i + off) - 1
    <3>1. k - off \in i - before .. i - 1 /\ (k - off) + off = k
      BY <2>2
    <3>2. u[k - off] = v[(k - off) + off]
      BY <2>1, <3>1
    <3> QED BY <3>1, <3>2
  <2> DEFINE I == i - before .. i - 1
             J == (i + off) - before .. (i + off) - 1
  <2>4. \A k \in I : \E j \in J : u[k] = v[j]
    BY <2>1
  <2>5. \A k \in J : \E j \in I : u[j] = v[k]
    BY <2>3
  <2> HIDE DEF I, J
  <2>6. {u[k].low : k \in I} = {v[k].low : k \in J} /\ {u[k].high : k \in I} = {v[k].high : k \in J}
    BY <2>4, <2>5
  <2> QED BY <2>6 DEF I, J
<1>3. {u[k].low : k \in i - LiquidityLookback .. i - 1}
          = {v[k].low : k \in (i + off) - LiquidityLookback .. (i + off) - 1}
  BY Zenon, <1>1, <1>2
<1>4. {u[k].high : k \in i - StructureLookback .. i - 1}
          = {v[k].high : k \in (i + off) - StructureLookback .. (i + off) - 1}
  BY Zenon, <1>1, <1>2
<1>5. Level(u, i) = Level(v, i + off)
  BY Zenon, <1>3 DEF Level
<1>6. ShiftLevel(u, i) = ShiftLevel(v, i + off)
  BY Zenon, <1>4 DEF ShiftLevel
<1> QED BY <1>5, <1>6

\* A sweep of the slice is one of the history.
LEMMA SweptCut ==
    ASSUME NEW u, NEW v, NEW off, CutOff(u, v, off), NEW i \in 1..Len(u), i > Required
    PROVE  Swept(u, i) <=> Swept(v, i + off)
<1>1. i + off > Required /\ u[i] = v[i + off]
  BY RequiredIs DEF CutOff, IsView
<1> QED BY <1>1, LevelsCut DEF Swept

\* The first bar of the slice to close above a level is that of the history.
LEMMA AboveCut ==
    ASSUME NEW u, NEW v, NEW off, CutOff(u, v, off),
           NEW start \in 1..Len(u), NEW last \in Int, NEW level
    PROVE  LET a == FirstOf(ClosesAbove(u, start, last, level))
               b == FirstOf(ClosesAbove(v, start + off, last + off, level))
           IN  /\ a \in {0} \cup (start..Len(u))
               /\ b = IF a = 0 THEN 0 ELSE a + off
<1> DEFINE S == ClosesAbove(u, start, last, level)
           T == ClosesAbove(v, start + off, last + off, level)
           a == FirstOf(S)
           b == FirstOf(T)
<1>1. /\ Len(u) \in Nat /\ off \in Nat /\ Len(v) = Len(u) + off /\ start \in Nat \ {0}
      /\ \A n \in 1..Len(u) : u[n] = v[n + off]
  BY DEF CutOff, IsView
<1>2. S = {j \in start..Len(u) : j <= last /\ u[j].close > level}
  <2>1. UpTo(u, last) = IF Len(u) <= last THEN Len(u) ELSE last
    BY <1>1, UpToIs
  <2> QED BY <1>1, <2>1 DEF ClosesAbove
<1>3. T = {j \in start + off..Len(u) + off : j <= last + off /\ v[j].close > level}
  <2>1. UpTo(v, last + off) = IF Len(u) + off <= last + off THEN Len(u) + off ELSE last + off
    BY <1>1, UpToIs
  <2> QED BY <1>1, <2>1 DEF ClosesAbove
<1> HIDE DEF S, T
<1>4. \A j \in S : j + off \in T /\ j \in start..Len(u)
  <2> TAKE j \in S
  <2>1. j \in start..Len(u) /\ j <= last /\ u[j].close > level
    BY <1>2
  <2>2. u[j] = v[j + off] /\ j + off \in start + off..Len(u) + off /\ j + off <= last + off
    BY <1>1, <2>1
  <2> QED BY <1>3, <2>1, <2>2
<1>5. \A j \in T : j - off \in S /\ (j - off) + off = j
  <2> TAKE j \in T
  <2>1. j \in start + off..Len(u) + off /\ j <= last + off /\ v[j].close > level
    BY <1>3
  <2>2. /\ j - off \in start..Len(u) /\ j - off <= last /\ j - off \in 1..Len(u)
        /\ (j - off) + off = j
    BY <1>1, <2>1
  <2>3. u[j - off] = v[(j - off) + off]
    BY <1>1, <2>2
  <2> QED BY <1>2, <2>1, <2>2, <2>3
<1>6. ASSUME S = {}
      PROVE  a = 0 /\ b = 0
  <2>1. T = {}
    BY <1>5, <1>6
  <2> QED BY <1>6, <2>1 DEF FirstOf
<1>7. ASSUME S # {}
      PROVE  a \in start..Len(u) /\ b = a + off /\ a # 0
  <2>1. S \in SUBSET Int /\ start \in Int /\ \A y \in S : start <= y
    BY <1>1, <1>4
  <2>2. a \in S /\ \A y \in S : a <= y
    BY <1>7, <2>1, FirstIs
  <2>3. T \in SUBSET Int /\ start + off \in Int /\ T # {} /\ \A y \in T : start + off <= y
    BY <1>1, <1>3, <1>4, <1>7
  <2>4. b \in T /\ \A y \in T : b <= y
    BY <2>3, FirstIs
  <2> HIDE DEF a, b
  <2>5. b <= a + off /\ a <= b - off /\ a \in start..Len(u) /\ b \in Int
    BY <1>4, <1>5, <2>2, <2>3, <2>4
  <2> QED BY <1>1, <2>5
<1> HIDE DEF a, b
<1>8. a \in {0} \cup (start..Len(u)) /\ b = IF a = 0 THEN 0 ELSE a + off
  BY <1>6, <1>7
<1> QED BY <1>8 DEF a, b, S, T

\* The reclaim and the confirmation of a sweep of the slice are those of the
\* history.
LEMMA ConfirmCut ==
    ASSUME NEW u, NEW v, NEW off, CutOff(u, v, off), NEW i \in 1..Len(u), i > Required
    PROVE  /\ ReclaimAt(u, i) \in 0..Len(u) /\ ConfirmAt(u, i) \in 0..Len(u)
           /\ ReclaimAt(v, i + off) = IF ReclaimAt(u, i) = 0 THEN 0 ELSE ReclaimAt(u, i) + off
           /\ ConfirmAt(v, i + off) = IF ConfirmAt(u, i) = 0 THEN 0 ELSE ConfirmAt(u, i) + off
<1> DEFINE r == ReclaimAt(u, i)
           q == ReclaimAt(v, i + off)
<1>1. Len(u) \in Nat /\ i \in Nat /\ off \in Nat /\ Reclaim \in Nat /\ MaxConfirm \in Nat
  BY RequiredIs DEF CutOff, IsView
<1>2. i + Reclaim \in Int /\ i + MaxConfirm \in Int
      /\ (i + off) + Reclaim = (i + Reclaim) + off /\ (i + off) + MaxConfirm = (i + MaxConfirm) + off
  BY <1>1
<1>3. Level(u, i) = Level(v, i + off) /\ ShiftLevel(u, i) = ShiftLevel(v, i + off)
  BY LevelsCut
<1>4. r = FirstOf(ClosesAbove(u, i, i + Reclaim, Level(u, i)))
      /\ q = FirstOf(ClosesAbove(v, i + off, (i + Reclaim) + off, Level(u, i)))
  BY <1>2, <1>3 DEF ReclaimAt, ClosesAbove
<1>5. ConfirmAt(u, i) = IF r = 0 THEN 0 ELSE FirstOf(ClosesAbove(u, r, i + MaxConfirm, ShiftLevel(u, i)))
  BY DEF ConfirmAt, ClosesAbove
<1>6. ConfirmAt(v, i + off) =
          IF q = 0 THEN 0 ELSE FirstOf(ClosesAbove(v, q, (i + MaxConfirm) + off, ShiftLevel(u, i)))
  BY <1>2, <1>3 DEF ConfirmAt, ClosesAbove
<1> HIDE DEF r, q
<1>7. r \in {0} \cup (i..Len(u)) /\ q = IF r = 0 THEN 0 ELSE r + off
  BY <1>2, <1>4, AboveCut
<1>8. CASE r = 0
  BY <1>1, <1>5, <1>6, <1>7, <1>8 DEF r, q
<1>9. CASE r # 0
  <2>1. r \in 1..Len(u) /\ q = r + off /\ q # 0
    BY <1>1, <1>7, <1>9
  <2> DEFINE a == FirstOf(ClosesAbove(u, r, i + MaxConfirm, ShiftLevel(u, i)))
             b == FirstOf(ClosesAbove(v, r + off, (i + MaxConfirm) + off, ShiftLevel(u, i)))
  <2>2. a \in {0} \cup (r..Len(u)) /\ b = IF a = 0 THEN 0 ELSE a + off
    BY <1>2, <2>1, AboveCut
  <2> HIDE DEF a, b
  <2>3. ConfirmAt(u, i) = a /\ ConfirmAt(v, i + off) = b
    BY <1>5, <1>6, <2>1 DEF a, b
  <2>4. a \in 0..Len(u)
    BY <1>1, <2>1, <2>2
  <2> QED BY <1>1, <1>7, <2>1, <2>2, <2>3, <2>4 DEF r, q
<1> QED BY <1>8, <1>9
\* The last numbers of a set are those of a part that holds all later ones.
LEMMA NthOfSuffix ==
    ASSUME NEW C \in SUBSET Nat, IsFiniteSet(C), NEW D \in SUBSET C,
           \A x \in D, y \in C : x <= y => y \in D
    PROVE  /\ Cardinality(C) \in Nat /\ Cardinality(D) \in Nat /\ Cardinality(D) <= Cardinality(C)
           /\ \A n \in 1..Cardinality(D) :
                  /\ Nth(D, n) \in D
                  /\ Nth(C, n + (Cardinality(C) - Cardinality(D))) = Nth(D, n)
<1> DEFINE c == Cardinality(C)
           d == Cardinality(D)
<1>1. IsFiniteSet(D) /\ c \in Nat /\ d \in Nat /\ d <= c
  BY FS_Subset, FS_CardinalityType
<1>2. Cardinality(C \ D) = c - d /\ IsFiniteSet(C \ D)
  <2>1. C \cap D = D
    OBVIOUS
  <2> QED BY <2>1, FS_Difference
<1>3. ASSUME NEW n \in 1..d
      PROVE  Nth(D, n) \in D /\ Nth(C, n + (c - d)) = Nth(D, n)
  <2> DEFINE x == Nth(D, n)
             A == UpToOf(D, x)
             B == UpToOf(C, x)
  <2>1. x \in D /\ Cardinality(A) = n /\ D \in SUBSET Nat
    BY <1>1, NthIs
  <2> HIDE DEF x
  <2>2. B = (C \ D) \cup A
    <3>1. ASSUME NEW y \in C, y \notin D
          PROVE  y <= x
      <4>1. y \in Nat /\ x \in Nat /\ ~ (x <= y)
        BY <2>1, <3>1
      <4> QED BY <4>1
    <3> QED BY <3>1 DEF UpToOf
  <2>3. IsFiniteSet(A) /\ A \subseteq D
    BY <1>1, FS_Subset DEF UpToOf
  <2>4. (C \ D) \cap A = {}
    BY <2>3
  <2> HIDE DEF A, B
  <2>5. Cardinality(B) = (c - d) + n - 0
    <3>1. Cardinality((C \ D) \cup A)
              = Cardinality(C \ D) + Cardinality(A) - Cardinality((C \ D) \cap A)
      BY <1>2, <2>3, FS_Union
    <3>2. Cardinality((C \ D) \cap A) = 0
      BY <2>4, FS_EmptySet
    <3> HIDE DEF c, d
    <3> QED BY <1>2, <2>1, <2>2, <3>1, <3>2
  <2>6. Cardinality(B) = n + (c - d) /\ n + (c - d) \in 1..c
    BY <1>1, <2>5
  <2>7. x = Nth(C, n + (c - d))
    <3>1. x \in C
      BY <2>1
    <3> HIDE DEF c, d
    <3> QED BY <2>6, <3>1, NthIs DEF B, c
  <2> QED BY <2>1, <2>7 DEF x
<1> QED BY <1>1, <1>3

\* Room for enough groups, whatever the slots that have no bar.
LEMMA RoomForGroups ==
    ASSUME NEW first \in Nat, NEW at \in Nat, NEW gaps \in Nat, gaps <= MaxGaps,
           at + 1 = first + SliceBars + gaps
    PROVE  \E lo \in Nat :
               \A g \in lo .. lo + Lookback15 + gaps : g \in Nat /\ first <= g * GroupBars /\ (g + 1) * GroupBars <= at + 1
<1> DEFINE size == GroupBars
           need == Lookback15 + 1 + gaps
<1>1. /\ size \in Nat \ {0} /\ Lookback15 \in Nat /\ MaxGaps \in Nat /\ SliceBars \in Nat
      /\ SliceBars + MaxGaps + 1 >= size * (Lookback15 + 2 + MaxGaps)
  BY SweepAssumption, SliceAssumption
<1> HIDE DEF size
<1>2. \A a, b \in Nat : (a + b) * size = a * size + b * size /\ a * size \in Nat
  BY <1>1
<1>3. \A a \in Nat : a <= a * size
  <2> SUFFICES ASSUME NEW a \in Nat PROVE a <= a * size
    OBVIOUS
  <2>1. size - 1 \in Nat /\ size = (size - 1) + 1
    BY <1>1
  <2>2. a * size = a * (size - 1) + a /\ a * (size - 1) \in Nat
    BY <2>1
  <2> QED BY <2>2
<1>4. PICK lo \in Nat : first <= lo * size /\ lo * size <= first + size - 1
  <2> DEFINE Starts == {n \in Nat : first <= n * size}
  <2>1. first \in Starts
    BY <1>3
  <2>2. PICK n \in Starts : \A k \in Starts : n <= k
    BY <2>1, LeastNatural
  <2>3. CASE n = 0
    <3>1. n * size = 0
      BY <1>1, <2>3
    <3> QED BY <1>1, <2>2, <3>1
  <2>4. CASE n # 0
    <3>1. n - 1 \in Nat /\ n = (n - 1) + 1 /\ ~ (n <= n - 1)
      BY <2>2, <2>4
    <3>2. n - 1 \notin Starts
      BY <2>2, <3>1
    <3>3. n * size = (n - 1) * size + 1 * size /\ (n - 1) * size \in Nat /\ 1 * size = size
      BY <1>1, <1>2, <3>1
    <3>4. (n - 1) * size < first
      BY <3>1, <3>2, <3>3
    <3>5. n * size <= first + size - 1
      BY <1>1, <3>3, <3>4
    <3> QED BY <2>2, <3>5
  <2> QED BY <2>3, <2>4
<1>5. (need + 1) * size <= SliceBars + gaps + 1
  <2> DEFINE more == MaxGaps - gaps
  <2>1. more \in Nat /\ Lookback15 + 2 + MaxGaps = (need + 1) + more /\ need + 1 \in Nat
    BY <1>1
  <2>2. ((need + 1) + more) * size = (need + 1) * size + more * size /\ more <= more * size
        /\ (need + 1) * size \in Nat /\ more * size \in Nat
    BY <1>2, <1>3, <2>1
  <2>3. ((need + 1) + more) * size = size * ((need + 1) + more)
    BY <1>1, <2>1
  <2>4. SliceBars + MaxGaps + 1 >= (need + 1) * size + more * size
    BY <1>1, <2>1, <2>2, <2>3
  <2>5. MaxGaps = gaps + more
    BY <1>1
  <2> HIDE DEF more, need
  <2>6. \A x, y \in Nat : y >= more /\ SliceBars + MaxGaps + 1 >= x + y => x <= SliceBars + gaps + 1
    BY <1>1, <2>1, <2>5
  <2> QED BY <2>2, <2>4, <2>6
<1>6. ASSUME NEW g \in lo .. lo + Lookback15 + gaps
      PROVE  g \in Nat /\ first <= g * size /\ (g + 1) * size <= at + 1
  <2>1. PICK a \in Nat : g = lo + a
    <3>1. g - lo \in Nat /\ g = lo + (g - lo)
      BY <1>1
    <3> QED BY <3>1
  <2>2. PICK b \in Nat : lo + need = (g + 1) + b
    <3>1. lo + need - (g + 1) \in Nat /\ lo + need = (g + 1) + (lo + need - (g + 1))
      BY <1>1
    <3> QED BY <3>1
  <2>3. g \in Nat /\ g + 1 \in Nat /\ need \in Nat
    BY <1>1, <2>1
  <2>4. g * size = lo * size + a * size /\ lo * size \in Nat /\ a * size \in Nat
    BY <1>2, <2>1
  <2>5. (lo + need) * size = (g + 1) * size + b * size /\ b * size \in Nat /\ (g + 1) * size \in Nat
    <3>1. ((g + 1) + b) * size = (g + 1) * size + b * size /\ b * size \in Nat /\ (g + 1) * size \in Nat
      BY <1>2, <2>3
    <3> QED BY <2>2, <3>1
  <2>6. (lo + need) * size = lo * size + need * size
    BY <1>2, <2>3
  <2>7. (need + 1) * size = need * size + 1 * size /\ 1 * size = size /\ need * size \in Nat
    BY <1>1, <1>2, <2>3
  <2> HIDE DEF need
  <2>8. first <= g * size
    BY <1>4, <2>4
  <2>9. (lo + need) * size <= at + 1
    <3>1. lo * size + need * size <= first + size - 1 + need * size
      BY <1>1, <1>4, <2>4, <2>7
    <3>2. need * size + size <= SliceBars + gaps + 1
      BY <1>5, <2>7
    <3> HIDE DEF size
    <3> QED BY <1>1, <2>4, <2>6, <2>7, <3>1, <3>2
  <2>10. (g + 1) * size <= at + 1
    BY <2>5, <2>9
  <2> QED BY <2>3, <2>8, <2>10
<1> QED BY <1>6 DEF size
\* A group ends before a later one begins.
LEMMA GroupsApart ==
    ASSUME NEW g \in Nat, NEW h \in Nat, g < h
    PROVE  (g + 1) * GroupBars <= h * GroupBars /\ Group(g) \cap Group(h) = {}
<1>1. h - 1 \in Nat /\ g <= h - 1 /\ (h - 1) + 1 = h
  OBVIOUS
<1>2. (g + 1) * GroupBars <= ((h - 1) + 1) * GroupBars
  BY <1>1, GroupsInOrder
<1>3. (g + 1) * GroupBars <= h * GroupBars
  BY <1>1, <1>2
<1>4. (g + 1) * GroupBars \in Nat /\ h * GroupBars \in Nat
      /\ g * GroupBars \in Nat /\ (h + 1) * GroupBars \in Nat
  BY GroupsInOrder
<1> DEFINE a == g * GroupBars
           b == (g + 1) * GroupBars
           c == h * GroupBars
           d == (h + 1) * GroupBars
<1>5. Group(g) = a .. b - 1 /\ Group(h) = c .. d - 1
  BY DEF Group
<1> HIDE DEF a, b, c, d
<1>6. a \in Nat /\ b \in Nat /\ c \in Nat /\ d \in Nat /\ b <= c
  BY <1>3, <1>4 DEF a, b, c, d
<1>7. (a .. b - 1) \cap (c .. d - 1) = {}
  BY <1>6
<1> QED BY <1>3, <1>5, <1>7

\* A slice of bars holds enough groups without a gap that have closed.
LEMMA EnoughGroups ==
    ASSUME NEW u, IsView(u), Len(u) = SliceBars, NEW at \in Nat, at = u[Len(u)].at, at < LastSlot,
           at + 1 - u[1].at - SliceBars <= MaxGaps
    PROVE  Lookback15 + 1 <= Cardinality(ClosedGroups(u, at))
<1> DEFINE first == u[1].at
           gaps == at + 1 - first - SliceBars
           Slots == {u[n].at : n \in 1..SliceBars}
           Missing == (first .. at) \ Slots
<1>1. /\ SliceBars \in Nat \ {0} /\ Lookback15 \in Nat \ {0} /\ LastSlot \in Nat /\ MaxGaps \in Nat
      /\ DOMAIN u = 1..SliceBars /\ GroupBars \in Nat \ {0}
      /\ \A n \in 1..SliceBars : u[n].at \in Nat
      /\ \A m, n \in 1..SliceBars : m < n => u[m].at < u[n].at
  BY SweepAssumption DEF IsView
<1>2. first \in Nat /\ \A n \in 1..SliceBars : u[n].at \in first .. at
  <2>1. 1 \in 1..SliceBars /\ SliceBars \in 1..SliceBars
    BY <1>1
  <2>2. ASSUME NEW n \in 1..SliceBars
        PROVE  u[n].at \in first .. at
    <3>1. first <= u[n].at
      BY <1>1, <2>1
    <3>2. u[n].at <= at
      BY <1>1, <2>1
    <3> QED BY <1>1, <3>1, <3>2
  <2> QED BY <1>1, <2>1, <2>2
<1> HIDE DEF first
<1>3. Slots \subseteq first .. at /\ IsFiniteSet(Slots) /\ SliceBars <= Cardinality(Slots)
      /\ Cardinality(Slots) \in Nat
  <2>1. Slots \subseteq first .. at
    BY <1>2
  <2>2. IsFiniteSet(first .. at)
    <3>1. first \in Int /\ at \in Int
      BY <1>2
    <3> QED BY <3>1, FS_Interval
  <2>3. IsFiniteSet(Slots)
    BY <2>1, <2>2, FS_Subset
  <2> DEFINE slot == [n \in 1..SliceBars |-> u[n].at]
  <2>4. \A m, n \in 1..SliceBars : u[m].at = u[n].at => m = n
    <3> SUFFICES ASSUME NEW m \in 1..SliceBars, NEW n \in 1..SliceBars, m # n
                 PROVE  u[m].at # u[n].at
      OBVIOUS
    <3>1. m < n \/ n < m
      BY <1>1
    <3>2. u[m].at < u[n].at \/ u[n].at < u[m].at
      BY <1>1, <3>1
    <3> QED BY <1>1, <3>2
  <2>5. slot \in Injection(1..SliceBars, Slots)
    <3>1. \A n \in 1..SliceBars : slot[n] = u[n].at
      OBVIOUS
    <3>2. slot \in [1..SliceBars -> Slots]
      OBVIOUS
    <3> HIDE DEF slot, Slots
    <3>3. \A m, n \in 1..SliceBars : slot[m] = slot[n] => m = n
      BY <2>4, <3>1
    <3> QED BY <3>2, <3>3 DEF Injection, IsInjective
  <2>6. Cardinality(1..SliceBars) = SliceBars
    BY <1>1, FS_Interval
  <2> HIDE DEF slot, Slots
  <2>7. Cardinality(1..SliceBars) <= Cardinality(Slots)
    BY <2>3, <2>5, FS_Injection
  <2> QED BY <2>1, <2>3, <2>6, <2>7, FS_CardinalityType
<1>4. /\ IsFiniteSet(Missing) /\ Cardinality(Missing) \in Nat
      /\ Cardinality(Missing) = (at + 1 - first) - Cardinality(Slots)
      /\ gaps \in Int /\ Cardinality(Missing) <= gaps
  <2>1. IsFiniteSet(first .. at) /\ first <= at /\ Cardinality(first .. at) = at + 1 - first
    <3>1. first <= at
      BY <1>1, <1>2
    <3>i. first \in Int /\ at \in Int
      BY <1>2
    <3>2. IsFiniteSet(first .. at) /\ Cardinality(first .. at) = IF first > at THEN 0 ELSE at - first + 1
      BY <3>i, FS_Interval
    <3> QED BY <1>2, <3>1, <3>2
  <2>2. (first .. at) \cap Slots = Slots
    BY <1>3
  <2> HIDE DEF Slots
  <2> DEFINE All == first .. at
  <2>3. IsFiniteSet(Missing) /\ Cardinality(Missing) = Cardinality(first .. at) - Cardinality(Slots)
    <3>1. IsFiniteSet(All) /\ All \cap Slots = Slots
      BY <2>1, <2>2
    <3> HIDE DEF All
    <3>2. /\ IsFiniteSet(All \ Slots)
          /\ Cardinality(All \ Slots) = Cardinality(All) - Cardinality(All \cap Slots)
      BY <3>1, FS_Difference
    <3> QED BY <3>1, <3>2 DEF All
  <2>4. Cardinality(Missing) \in Nat
    BY <2>3, FS_CardinalityType
  <2> HIDE DEF Missing
  <2> QED BY <1>1, <1>2, <1>3, <2>1, <2>3, <2>4
<1>5. gaps \in Nat /\ gaps <= MaxGaps /\ at + 1 = first + SliceBars + gaps
  <2>1. gaps <= MaxGaps
    BY DEF first
  <2>2. at + 1 = first + SliceBars + gaps
    BY <1>1, <1>2
  <2> HIDE DEF Missing, gaps
  <2>3. gaps \in Nat
    BY <1>4
  <2> QED BY <2>1, <2>2, <2>3
<1> HIDE DEF gaps
<1>6. PICK lo \in Nat :
          \A g \in lo .. lo + Lookback15 + gaps :
              g \in Nat /\ first <= g * GroupBars /\ (g + 1) * GroupBars <= at + 1
  BY <1>2, <1>5, RoomForGroups
<1> DEFINE K == lo .. lo + Lookback15 + gaps
           Broken == {g \in K : ~ Whole(u, g)}
           hole(g) == CHOOSE slot \in Group(g) : \A j \in DOMAIN u : u[j].at # slot
<1>7. ASSUME NEW g \in Broken
      PROVE  hole(g) \in Group(g) /\ hole(g) \in Missing
  <2>1. \E slot \in Group(g) : \A j \in DOMAIN u : u[j].at # slot
    BY DEF Whole
  <2>2. hole(g) \in Group(g) /\ \A j \in DOMAIN u : u[j].at # hole(g)
    BY Zenon, <2>1
  <2> HIDE DEF hole
  <2>3. g \in Nat /\ first <= g * GroupBars /\ (g + 1) * GroupBars <= at + 1
    BY <1>6
  <2>4. g * GroupBars \in Nat /\ (g + 1) * GroupBars \in Nat
    BY <2>3, GroupsInOrder
  <2> DEFINE a == g * GroupBars
             b == (g + 1) * GroupBars
  <2>5. Group(g) = a .. b - 1 /\ a \in Nat /\ b \in Nat /\ first <= a /\ b <= at + 1
    BY <2>3, <2>4 DEF Group
  <2> HIDE DEF a, b
  <2>6. hole(g) \in first .. at
    BY <1>2, <2>2, <2>5
  <2>7. hole(g) \notin Slots
    BY <1>1, <2>2
  <2> QED BY <2>2, <2>6, <2>7
<1>8. ASSUME NEW g \in Broken, NEW h \in Broken, hole(g) = hole(h)
      PROVE  g = h
  <2>1. hole(g) \in Group(g) /\ hole(g) \in Group(h)
    BY <1>7, <1>8
  <2> HIDE DEF hole
  <2>2. g \in Nat /\ h \in Nat
    BY <1>6
  <2>3. ~ (g < h) /\ ~ (h < g)
    BY <2>1, <2>2, GroupsApart
  <2> QED BY <2>2, <2>3
<1> DEFINE f == [g \in Broken |-> hole(g)]
<1> HIDE DEF hole
<1>9. f \in Injection(Broken, Missing)
  <2> HIDE DEF Broken, Missing
  <2>1. f \in [Broken -> Missing] /\ \A g \in Broken : f[g] = hole(g)
    BY <1>7
  <2>2. \A g, h \in Broken : hole(g) = hole(h) => g = h
    BY <1>8
  <2> HIDE DEF f
  <2>3. \A g, h \in Broken : f[g] = f[h] => g = h
    BY <2>1, <2>2
  <2> QED BY <2>1, <2>3 DEF Injection, IsInjective
<1>10. IsFiniteSet(K) /\ Cardinality(K) = Lookback15 + gaps + 1 /\ Broken \subseteq K
  <2>1. lo + Lookback15 + gaps \in Int /\ lo \in Int /\ lo <= lo + Lookback15 + gaps
    BY <1>1, <1>5
  <2> DEFINE hi == lo + Lookback15 + gaps
  <2>2. IsFiniteSet(K) /\ Cardinality(K) = IF lo > hi THEN 0 ELSE hi - lo + 1
    <3>1. K = lo .. hi /\ hi \in Int
      BY <2>1
    <3> HIDE DEF hi, K
    <3> QED BY <2>1, <3>1, FS_Interval
  <2> HIDE DEF K
  <2>3. Cardinality(K) = Lookback15 + gaps + 1
    BY <1>1, <1>5, <2>1, <2>2
  <2> QED BY <2>2, <2>3
<1> DEFINE D == ClosedGroups(u, at)
<1>11. K \ Broken \subseteq D /\ IsFiniteSet(D)
  <2>1. ASSUME NEW g \in K, Whole(u, g)
        PROVE  g \in D
    <3>1. g \in Nat /\ (g + 1) * GroupBars <= at + 1
      BY <1>6
    <3>2. g \in 0..LastSlot
      <4>1. (g + 1) * GroupBars = (g + 1) * (GroupBars - 1) + (g + 1)
        BY <1>1, <3>1
      <4>2. (g + 1) * (GroupBars - 1) \in Nat
        <5>1. GroupBars - 1 \in Nat /\ g + 1 \in Nat
          BY <1>1, <3>1
        <5> QED BY <5>1
      <4>3. g + 1 <= (g + 1) * GroupBars /\ (g + 1) * GroupBars \in Nat
        BY <3>1, <4>1, <4>2
      <4>4. \A m \in Nat : g + 1 <= m /\ m <= at + 1 => g + 1 <= at + 1
        BY <3>1
      <4>5. g + 1 <= at + 1
        BY <3>1, <4>3, <4>4
      <4> QED BY <1>1, <3>1, <4>5
    <3> QED BY <2>1, <3>1, <3>2 DEF ClosedGroups, WholeGroups
  <2>i. 0 \in Int /\ LastSlot \in Int
    BY <1>1
  <2>2. IsFiniteSet(0..LastSlot) /\ D \subseteq 0..LastSlot
    BY <2>i, FS_Interval DEF ClosedGroups, WholeGroups
  <2>3. IsFiniteSet(D)
    BY <2>2, FS_Subset
  <2> QED BY <2>1, <2>3
<1> HIDE DEF Slots, Missing, f, K, D
<1>12. IsFiniteSet(Broken) /\ Cardinality(Broken) <= Cardinality(Missing) /\ Cardinality(Broken) \in Nat
  <2> HIDE DEF Broken
  <2>1. IsFiniteSet(Broken) /\ Cardinality(Broken) <= Cardinality(Missing)
    BY <1>4, <1>9, FS_Injection
  <2> QED BY <2>1, FS_CardinalityType
<1> HIDE DEF Broken
<1>13. Cardinality(K \ Broken) = Cardinality(K) - Cardinality(Broken)
  <2>1. K \cap Broken = Broken
    BY <1>10
  <2>2. Cardinality(K \ Broken) = Cardinality(K) - Cardinality(K \cap Broken)
    BY <1>10, FS_Difference
  <2> QED BY <2>1, <2>2
<1>14. Cardinality(K \ Broken) <= Cardinality(D) /\ Cardinality(D) \in Nat
  BY <1>11, FS_Subset, FS_CardinalityType
<1>15. Lookback15 + 1 <= Cardinality(D)
  BY <1>1, <1>4, <1>5, <1>10, <1>12, <1>13, <1>14
<1> QED BY <1>15 DEF D
\* A group is whole in the slice if it is in the history and begins in the
\* slice, and then it is the same fifteen-minute bar.
LEMMA GroupsCut ==
    ASSUME NEW u, NEW v, NEW off, CutOff(u, v, off), Len(u) # 0, NEW g \in Nat
    PROVE  /\ Whole(u, g) <=> Whole(v, g) /\ u[1].at <= g * GroupBars
           /\ Whole(u, g) => Bar15(u, g) = Bar15(v, g)
<1> DEFINE n == Len(u)
           begin == g * GroupBars
           end == (g + 1) * GroupBars
           first == u[1].at
<1>1. /\ n \in Nat \ {0} /\ off \in Nat /\ DOMAIN u = 1..n /\ DOMAIN v = 1..n + off
      /\ \A k \in 1..n : u[k] = v[k + off]
      /\ \A k \in 1..n : u[k].at \in Nat
      /\ \A k \in 1..n + off : v[k].at \in Nat
      /\ \A k, m \in 1..n : k < m => u[k].at < u[m].at
      /\ \A k, m \in 1..n + off : k < m => v[k].at < v[m].at
  BY DEF CutOff, IsView
<1> HIDE DEF n
<1>2. begin \in Nat /\ end \in Nat /\ begin < end /\ Group(g) = begin .. end - 1
  <2>1. GroupBars \in Nat \ {0} /\ begin \in Nat /\ end \in Nat /\ end = begin + GroupBars
    BY GroupsInOrder, SweepAssumption
  <2>2. Group(g) = begin .. end - 1
    BY DEF Group
  <2> HIDE DEF begin, end
  <2> QED BY <2>1, <2>2
<1> HIDE DEF begin, end
<1>3. 1 \in 1..n /\ first = v[1 + off].at /\ first \in Nat /\ 1 + off \in 1..n + off
  BY <1>1
<1> HIDE DEF first
<1>4. \A k \in 1..n : first <= u[k].at
  <2> TAKE k \in 1..n
  <2>1. k = 1 \/ 1 < k
    BY <1>1
  <2> QED BY <1>1, <1>3, <2>1 DEF first
<1>5. ASSUME NEW k \in 1..n + off, first <= v[k].at
      PROVE  k - off \in 1..n /\ u[k - off] = v[k]
  <2>1. ~ (k < 1 + off)
    <3>1. k < 1 + off => v[k].at < first
      BY <1>1, <1>3
    <3> QED BY <1>1, <1>3, <1>5, <3>1
  <2>2. k - off \in 1..n /\ (k - off) + off = k
    BY <1>1, <2>1
  <2>3. u[k - off] = v[(k - off) + off]
    BY <1>1, <2>2
  <2> QED BY <2>2, <2>3
<1>6. ASSUME Whole(u, g)
      PROVE  Whole(v, g) /\ first <= begin
  <2>1. begin \in Group(g)
    BY <1>2
  <2>2. PICK j \in DOMAIN u : u[j].at = begin
    BY <1>6, <2>1 DEF Whole
  <2>3. first <= begin
    BY <1>1, <1>4, <2>2
  <2>4. ASSUME NEW slot \in Group(g)
        PROVE  \E k \in DOMAIN v : v[k].at = slot
    <3>1. PICK k \in DOMAIN u : u[k].at = slot
      BY <1>6 DEF Whole
    <3>2. k + off \in 1..n + off /\ v[k + off] = u[k]
      BY <1>1
    <3> QED BY <1>1, <3>1, <3>2
  <2> QED BY <2>3, <2>4 DEF Whole
<1>7. ASSUME Whole(v, g), first <= begin
      PROVE  Whole(u, g)
  <2>1. ASSUME NEW slot \in Group(g)
        PROVE  \E k \in DOMAIN u : u[k].at = slot
    <3>1. PICK k \in DOMAIN v : v[k].at = slot
      BY <1>7 DEF Whole
    <3>2. first <= v[k].at
      BY <1>2, <1>3, <1>7, <3>1
    <3> QED BY <1>1, <1>5, <3>1, <3>2
  <2> QED BY <2>1 DEF Whole
<1>8. ASSUME Whole(u, g)
      PROVE  Bar15(u, g) = Bar15(v, g)
  <2> DEFINE A == In(u, g)
             B == In(v, g)
  <2>1. first <= begin /\ begin \in Group(g)
    BY <1>2, <1>6, <1>8
  <2>2. A \subseteq 1..n /\ A # {}
    <3>1. PICK j \in DOMAIN u : u[j].at = begin
      BY <1>8, <2>1 DEF Whole
    <3> QED BY <1>1, <2>1, <3>1 DEF In
  <2>3. \A j \in A : j + off \in B /\ u[j] = v[j + off]
    <3> TAKE j \in A
    <3>1. j \in 1..n /\ u[j].at \in Group(g)
      BY <1>1 DEF In
    <3>2. j + off \in 1..n + off /\ u[j] = v[j + off]
      BY <1>1, <3>1
    <3> QED BY <1>1, <3>1, <3>2 DEF In
  <2>4. \A j \in B : j - off \in A /\ u[j - off] = v[j] /\ (j - off) + off = j /\ j \in 1..n + off
    <3> TAKE j \in B
    <3>1. j \in 1..n + off /\ v[j].at \in Group(g)
      BY <1>1 DEF In
    <3>2. first <= v[j].at
      BY <1>2, <1>3, <2>1, <3>1
    <3>3. j - off \in 1..n /\ u[j - off] = v[j]
      BY <1>5, <3>1, <3>2
    <3> QED BY <1>1, <3>1, <3>3 DEF In
  <2> HIDE DEF A, B
  <2>5. B # {} /\ B \in SUBSET Int /\ A \in SUBSET Int
    <3>1. B # {}
      BY <2>2, <2>3
    <3>2. \A j \in B : j \in Int
      BY <1>1, <2>4
    <3>3. \A j \in A : j \in Int
      BY <1>1, <2>2
    <3> QED BY <3>1, <3>2, <3>3
  <2> DEFINE x == Max(A)
             y == Max(B)
  <2>6. x \in A /\ \A j \in A : x >= j
    <3>1. n \in Int /\ \A j \in A : j <= n
      BY <1>1, <2>2
    <3> QED BY <2>2, <2>5, <3>1, MaxOf
  <2>7. y \in B /\ \A j \in B : y >= j
    <3>1. n + off \in Int /\ \A j \in B : j <= n + off
      BY <1>1, <2>4
    <3> QED BY <2>5, <3>1, MaxOf
  <2> HIDE DEF x, y
  <2>8. y = x + off
    <3>1. y >= x + off /\ x >= y - off
      BY <2>3, <2>4, <2>6, <2>7
    <3>2. x \in Int /\ y \in Int
      BY <2>5, <2>6, <2>7
    <3> QED BY <1>1, <3>1, <3>2
  <2>9. u[x] = v[y]
    BY <2>3, <2>6, <2>8
  <2>10. {u[k].low : k \in A} = {v[k].low : k \in B}
    <3>1. \A k \in A : \E j \in B : u[k] = v[j]
      BY <2>3
    <3>2. \A k \in B : \E j \in A : u[j] = v[k]
      BY <2>4
    <3> QED BY <3>1, <3>2
  <2>11. Bar15(u, g) = [at |-> g, low |-> Min({u[k].low : k \in A}), close |-> u[x].close]
    BY DEF Bar15, A, x
  <2>12. Bar15(v, g) = [at |-> g, low |-> Min({v[k].low : k \in B}), close |-> v[y].close]
    BY DEF Bar15, B, y
  <2> QED BY <2>9, <2>10, <2>11, <2>12
<1> QED BY <1>6, <1>7, <1>8 DEF first, begin

\* The slice confirms at its last bar what the history confirms.
LEMMA StructureCut ==
    ASSUME NEW u, NEW v, NEW off, CutOff(u, v, off), Len(u) = SliceBars,
           NEW at \in Nat, at = u[Len(u)].at, at < LastSlot,
           at + 1 - u[1].at - SliceBars <= MaxGaps
    PROVE  Structure15(u, at) <=> Structure15(v, at)
<1> DEFINE D == ClosedGroups(u, at)
           C == ClosedGroups(v, at)
           d == Cardinality(D)
           c == Cardinality(C)
           cu == ClosedList(u, at)
           cv == ClosedList(v, at)
           L == Lookback15
           shift == c - d
<1>1. Len(u) # 0 /\ LastSlot \in Nat /\ L \in Nat \ {0} /\ IsView(u)
  BY SweepAssumption DEF CutOff
<1>2. C \in SUBSET Nat /\ IsFiniteSet(C)
  <2>1. 0 \in Int /\ LastSlot \in Int /\ C \subseteq 0..LastSlot
    BY <1>1 DEF ClosedGroups, WholeGroups
  <2> HIDE DEF C
  <2>2. IsFiniteSet(0..LastSlot)
    BY <2>1, FS_Interval
  <2>3. IsFiniteSet(C)
    BY <2>1, <2>2, FS_Subset
  <2> QED BY <2>1, <2>3
<1>3. D = {g \in C : u[1].at <= g * GroupBars}
  <2>1. \A g \in 0..LastSlot : Whole(u, g) <=> Whole(v, g) /\ u[1].at <= g * GroupBars
    BY <1>1, GroupsCut
  <2> QED BY <2>1 DEF ClosedGroups, WholeGroups
<1>4. \A x \in D, y \in C : x <= y => y \in D
  <2> SUFFICES ASSUME NEW x \in D, NEW y \in C, x <= y
               PROVE  u[1].at <= y * GroupBars
    BY <1>3
  <2>1. x \in Nat /\ y \in Nat /\ u[1].at <= x * GroupBars /\ u[1].at \in Nat
    BY <1>1, <1>2, <1>3 DEF IsView
  <2>2. x * GroupBars <= y * GroupBars /\ x * GroupBars \in Nat /\ y * GroupBars \in Nat
    <3>1. /\ (x + 1) * GroupBars <= (y + 1) * GroupBars
          /\ (x + 1) * GroupBars = x * GroupBars + GroupBars
          /\ x * GroupBars \in Nat
      BY <2>1, GroupsInOrder
    <3>2. y <= y /\ (y + 1) * GroupBars = y * GroupBars + GroupBars /\ y * GroupBars \in Nat
      <4>1. y <= y
        BY <2>1
      <4> QED BY <2>1, <4>1, GroupsInOrder
    <3>3. GroupBars \in Nat
      BY SweepAssumption
    <3> DEFINE a == x * GroupBars
               e == y * GroupBars
    <3>4. a \in Nat /\ e \in Nat /\ a + GroupBars <= e + GroupBars
      BY <3>1, <3>2
    <3> HIDE DEF a, e
    <3>5. a <= e
      BY <3>3, <3>4
    <3> QED BY <3>1, <3>2, <3>5 DEF a, e
  <2> DEFINE a == x * GroupBars
             e == y * GroupBars
  <2>3. a \in Nat /\ e \in Nat /\ a <= e /\ u[1].at <= a
    BY <2>1, <2>2
  <2> HIDE DEF a, e
  <2>4. u[1].at <= e
    BY <2>1, <2>3
  <2> QED BY <2>4 DEF e
<1>5. L + 1 <= d
  BY <1>1, EnoughGroups
<1>6. \A g \in D : Bar15(u, g) = Bar15(v, g)
  <2> TAKE g \in D
  <2>1. g \in Nat /\ Whole(u, g)
    BY <1>2, <1>3 DEF ClosedGroups, WholeGroups
  <2> QED BY <1>1, <2>1, GroupsCut
<1>7. /\ Structure15(u, at) <=> Confirms(cu)
      /\ Structure15(v, at) <=> Confirms(cv)
  BY ClosedAre
<1>8. cu = [n \in 1..d |-> Bar15(u, Nth(D, n))] /\ cv = [n \in 1..c |-> Bar15(v, Nth(C, n))]
  BY DEF ClosedList
<1> HIDE DEF C, D, cu, cv
<1>9. /\ c \in Nat /\ d \in Nat /\ d <= c
      /\ \A n \in 1..d : Nth(D, n) \in D /\ Nth(C, n + shift) = Nth(D, n)
  <2>1. D \in SUBSET C
    BY <1>3
  <2> QED BY <1>2, <1>4, <2>1, NthOfSuffix
<1> HIDE DEF c, d
<1>10. shift \in Nat /\ c = d + shift
  BY <1>9
<1> HIDE DEF shift
<1>11. Len(cu) = d /\ Len(cv) = c
  BY <1>8, <1>9
<1>12. \A n \in 1..d : cu[n] = cv[n + shift]
  <2> TAKE n \in 1..d
  <2>1. n + shift \in 1..c
    BY <1>9, <1>10
  <2>2. cv[n + shift] = Bar15(v, Nth(C, n + shift)) /\ cu[n] = Bar15(u, Nth(D, n))
    BY <1>8, <2>1
  <2> QED BY <1>6, <1>9, <2>2
<1>13. Last(cu) = Last(cv)
  <2>1. d \in 1..d /\ Last(cu) = cu[d] /\ Last(cv) = cv[c]
    BY <1>1, <1>5, <1>9, <1>11 DEF Last
  <2> QED BY <1>10, <1>12, <2>1
<1>14. {cu[k].low : k \in d - L .. d - 1} = {cv[k].low : k \in c - L .. c - 1}
  <2> DEFINE I == d - L .. d - 1
             J == c - L .. c - 1
  <2>1. \A k \in I : \E j \in J : cu[k] = cv[j]
    <3> TAKE k \in I
    <3>1. k \in 1..d /\ k + shift \in J
      BY <1>1, <1>5, <1>9, <1>10
    <3> QED BY <1>12, <3>1
  <2>2. \A k \in J : \E j \in I : cu[j] = cv[k]
    <3> TAKE k \in J
    <3>1. k - shift \in I /\ k - shift \in 1..d /\ (k - shift) + shift = k
      BY <1>1, <1>5, <1>9, <1>10
    <3>2. cu[k - shift] = cv[(k - shift) + shift]
      BY <1>12, <3>1
    <3> QED BY <3>1, <3>2
  <2> HIDE DEF I, J
  <2>3. {cu[k].low : k \in I} = {cv[k].low : k \in J}
    BY <2>1, <2>2
  <2> QED BY <2>3 DEF I, J
<1>15. d > L /\ c > L
  BY <1>1, <1>5, <1>9
<1>16. Confirms(cu) <=> Confirms(cv)
  BY <1>11, <1>13, <1>14, <1>15 DEF Confirms
<1> QED BY <1>7, <1>16
\* The events of the slice at its last bar are those of the history.
LEMMA EventCut ==
    ASSUME NEW u, NEW v, NEW off, CutOff(u, v, off), NEW i \in 1..Len(u), i > Required,
           Structure15(u, u[Len(u)].at) <=> Structure15(v, u[Len(u)].at)
    PROVE  /\ ConfirmAt(u, i) = Len(u) <=> ConfirmAt(v, i + off) = Len(v)
           /\ ConfirmAt(u, i) = Len(u) => Event(u, i) = Event(v, i + off)
<1> DEFINE n == Len(u)
           k == i + off
           ru == ReclaimAt(u, i)
           rv == ReclaimAt(v, k)
           cu == ConfirmAt(u, i)
           cv == ConfirmAt(v, k)
<1>1. /\ n \in Nat /\ n # 0 /\ off \in Nat /\ Len(v) = n + off
      /\ \A m \in 1..n : u[m] = v[m + off]
  BY DEF CutOff, IsView
<1>2. /\ ru \in 0..n /\ cu \in 0..n
      /\ rv = IF ru = 0 THEN 0 ELSE ru + off
      /\ cv = IF cu = 0 THEN 0 ELSE cu + off
  BY ConfirmCut
<1> HIDE DEF n, k, ru, rv, cu, cv
<1>3. cu = n <=> cv = n + off
  BY <1>1, <1>2
<1>4. ASSUME cu = n
      PROVE  Event(u, i) = Event(v, k)
  <2>1. cu \in 1..n /\ u[cu] = v[cv] /\ cu # 0 /\ cv # 0 /\ u[i] = v[k] /\ cv = cu + off
    BY <1>1, <1>2, <1>4 DEF n, k
  <2>2. At(u, ru) = At(v, rv)
    <3>1. CASE ru = 0
      BY <1>2, <3>1 DEF At
    <3>2. CASE ru # 0
      <4>1. ru \in 1..n /\ rv = ru + off /\ rv # 0
        BY <1>1, <1>2, <3>2
      <4>2. u[ru] = v[rv]
        BY <1>1, <4>1
      <4> QED BY <3>2, <4>1, <4>2 DEF At
    <3> QED BY <3>1, <3>2
  <2>3. At(u, cu) = u[cu].at /\ At(v, cv) = u[cu].at
    BY <2>1 DEF At
  <2>4. Structure15(u, u[cu].at) <=> Structure15(v, u[cu].at)
    BY <1>4 DEF n
  <2>5. Event(u, i) = [sweep |-> u[i].at, reclaim |-> At(u, ru), confirm |-> u[cu].at,
                       ready |-> cu # 0 /\ u[cu].surge /\ cu # 0 /\ Structure15(u, u[cu].at)]
    BY <2>3 DEF Event, EventWith, ru, cu
  <2>6. Event(v, k) = [sweep |-> v[k].at, reclaim |-> At(v, rv), confirm |-> u[cu].at,
                       ready |-> cv # 0 /\ v[cv].surge /\ cv # 0 /\ Structure15(v, u[cu].at)]
    BY <2>3 DEF Event, EventWith, rv, cv
  <2> QED BY <2>1, <2>2, <2>4, <2>5, <2>6
<1> QED BY <1>1, <1>3, <1>4 DEF n, k, cu, cv

\* The sweeps of a history that are ready at its last bar, and the event of
\* the first one.
Hits(v) == {i \in 1..Len(v) : Swept(v, i) /\ Event(v, i).ready /\ ConfirmAt(v, i) = Len(v)}
LatestOf(v) == IF Hits(v) = {} THEN {} ELSE {Event(v, Min(Hits(v)))}

\* What SweepInv says of a history that is not empty.
IsHistory(bs) ==
    /\ bs \in Seq(SweepBar) /\ bs # <<>> /\ InOrder(bs)
    /\ bs[Len(bs)].at < LastSlot /\ bs[Len(bs)].at + 1 - Len(bs) <= MaxGaps
    /\ \A n \in 1..Len(bs) : n <= bs[n].at + 1

\* The slice says of its last bar what the history says.
LEMMA SliceStructure ==
    ASSUME NEW side \in Sides, NEW bs, IsHistory(bs), NEW off \in Nat,
           CutOff(View(side, Slice(bs)), View(side, bs), off),
           off = 0 \/ Len(View(side, Slice(bs))) = SliceBars,
           off = 0 => Slice(bs) = bs,
           Len(View(side, Slice(bs))) # 0
    PROVE  LET u == View(side, Slice(bs))
               v == View(side, bs)
               at == u[Len(u)].at
           IN  Structure15(u, at) <=> Structure15(v, at)
<1> DEFINE u == View(side, Slice(bs))
           v == View(side, bs)
           n == Len(u)
           at == u[n].at
<1>1. CASE off = 0
  BY <1>1
<1>2. CASE off # 0
  <2>1. n = SliceBars
    BY <1>2
  <2>2. Len(v) = Len(bs) /\ \A m \in 1..Len(bs) : v[m].at = bs[m].at
    BY Viewed DEF IsHistory
  <2> HIDE DEF u, v
  <2>3. /\ n \in Nat \ {0} /\ Len(bs) = n + off /\ MaxGaps \in Nat
        /\ \A m \in 1..n : u[m] = v[m + off] /\ u[m].at \in Nat
    BY <2>2, SweepAssumption DEF CutOff, IsView, u, v
  <2>4. n \in 1..n /\ 1 \in 1..n /\ n + off \in 1..Len(bs) /\ 1 + off \in 1..Len(bs)
    BY <2>3
  <2>5. at = bs[n + off].at /\ u[1].at = bs[1 + off].at
    BY <2>2, <2>3, <2>4
  <2>6. at \in Nat /\ u[1].at \in Nat
    BY <2>3, <2>4
  <2>7. at < LastSlot /\ at + 1 - (n + off) <= MaxGaps
    BY <2>3, <2>5 DEF IsHistory
  <2>8. 1 + off <= u[1].at + 1
    BY <2>4, <2>5 DEF IsHistory
  <2> HIDE DEF n, at
  <2>9. at + 1 - u[1].at - n <= MaxGaps
    <3> DEFINE first == u[1].at
    <3>1. n \in Nat /\ off \in Nat /\ at \in Nat /\ first \in Nat /\ MaxGaps \in Nat
      BY <1>1, <2>3, <2>6
    <3>2. at + 1 - (n + off) <= MaxGaps /\ 1 + off <= first + 1
      BY <2>7, <2>8
    <3> HIDE DEF first
    <3>3. at + 1 - first - n <= MaxGaps
      BY <3>1, <3>2
    <3> QED BY <3>3 DEF first
  <2>10. Structure15(u, at) <=> Structure15(v, at)
    BY <2>1, <2>6, <2>7, <2>9, StructureCut DEF at, n, u, v
  <2> QED BY <2>10 DEF u, v, n, at
<1> QED BY <1>1, <1>2

\* A caller that asks for the last bar of a slice is told what the history
\* says of it (latest_bar_sweep_setup).
LEMMA LatestIs ==
    ASSUME NEW side \in Sides, NEW bs, IsHistory(bs)
    PROVE  Latest(Slice(bs), side) = LatestOf(View(side, bs))
<1> DEFINE u == View(side, Slice(bs))
           v == View(side, bs)
<1>1. PICK off \in Nat : /\ CutOff(u, v, off)
                         /\ off = 0 \/ Len(u) = SliceBars
                         /\ off = 0 => Slice(bs) = bs
                         /\ Len(u) # 0
  BY SliceIsCut DEF IsHistory
<1>2. Structure15(u, u[Len(u)].at) <=> Structure15(v, u[Len(u)].at)
  BY <1>1, SliceStructure
<1> DEFINE hits == {i \in FirstSweep(u) .. Len(u) :
                        Swept(u, i) /\ Event(u, i).ready /\ ConfirmAt(u, i) = Len(u)}
<1>3. Latest(Slice(bs), side) = IF hits = {} THEN {} ELSE {Event(u, Min(hits))}
  BY Zenon DEF Latest
<1> HIDE DEF u, v
<1>4. Len(u) \in Nat \ {0} /\ Len(v) = Len(u) + off /\ IsView(v)
  BY <1>1 DEF CutOff, IsView
<1>5. Required \in Nat /\ MaxConfirm \in Nat /\ SliceBars \in Nat /\ SliceBars > Required + MaxConfirm
  BY RequiredIs, SweepAssumption, SliceAssumption
<1>6. FirstSweep(u) = IF Required + 1 >= Len(u) - MaxConfirm THEN Required + 1 ELSE Len(u) - MaxConfirm
  <2>1. Required + 1 \in Int /\ Len(u) - MaxConfirm \in Int
    BY <1>4, <1>5
  <2> QED BY <2>1, MaxOfTwo DEF FirstSweep
<1>7. ASSUME NEW i \in hits
      PROVE  i \in 1..Len(u) /\ i > Required /\ i + off \in Hits(v) /\ Event(u, i) = Event(v, i + off)
  <2>1. i \in 1..Len(u) /\ i > Required /\ i + off \in 1..Len(v)
    BY <1>4, <1>5, <1>6
  <2>2. Swept(v, i + off)
    BY <1>1, <2>1, SweptCut
  <2>3. ConfirmAt(v, i + off) = Len(v) /\ Event(u, i) = Event(v, i + off)
    BY <1>1, <1>2, <2>1, EventCut
  <2> QED BY <2>1, <2>2, <2>3 DEF Hits
<1>8. ASSUME NEW k \in Hits(v)
      PROVE  k \in Int /\ k - off \in hits /\ (k - off) + off = k
  <2>1. k \in 1..Len(v) /\ Swept(v, k) /\ Event(v, k).ready /\ ConfirmAt(v, k) = Len(v)
    BY DEF Hits
  <2>2. Len(v) <= k + MaxConfirm
    BY <1>4, <2>1, ConfirmInside
  <2>3. k > Required
    BY <2>1 DEF Swept
  <2>4. /\ k - off \in FirstSweep(u) .. Len(u) /\ k - off \in 1..Len(u)
        /\ k - off > Required /\ (k - off) + off = k
    <3>1. CASE off = 0
      BY <1>4, <1>5, <1>6, <2>1, <2>2, <2>3, <3>1
    <3>2. CASE off # 0
      <4>1. Len(u) = SliceBars
        BY <1>1, <3>2
      <4> QED BY <1>4, <1>5, <1>6, <2>1, <2>2, <4>1
    <3> QED BY <3>1, <3>2
  <2>5. Swept(u, k - off)
    BY <1>1, <2>1, <2>4, SweptCut
  <2>6. ConfirmAt(u, k - off) = Len(u) /\ Event(u, k - off) = Event(v, k)
    <3>1. /\ ConfirmAt(u, k - off) = Len(u) <=> ConfirmAt(v, (k - off) + off) = Len(v)
          /\ ConfirmAt(u, k - off) = Len(u) => Event(u, k - off) = Event(v, (k - off) + off)
      BY <1>1, <1>2, <2>4, EventCut
    <3> QED BY <2>1, <2>4, <3>1
  <2> QED BY <2>1, <2>4, <2>5, <2>6
<1> HIDE DEF hits
<1>9. CASE Hits(v) = {}
  <2>1. hits = {}
    BY <1>7, <1>9
  <2> QED BY <1>3, <1>9, <2>1 DEF LatestOf, v
<1>10. CASE Hits(v) # {}
  <2>1. hits # {}
    BY <1>8, <1>10
  <2> DEFINE a == Min(hits)
             b == Min(Hits(v))
  <2>2. a \in hits /\ \A y \in hits : a <= y
    <3>1. hits \in SUBSET Int /\ 1 \in Int /\ \A y \in hits : 1 <= y
      BY <1>4, <1>7
    <3> QED BY <2>1, <3>1, MinOf
  <2>3. b \in Hits(v) /\ \A y \in Hits(v) : b <= y
    <3>1. Hits(v) \in SUBSET Int /\ 1 \in Int /\ \A y \in Hits(v) : 1 <= y
      BY <1>4 DEF Hits
    <3> QED BY <1>10, <3>1, MinOf
  <2> HIDE DEF a, b
  <2>4. a \in Int /\ b \in Int /\ b <= a + off /\ a <= b - off
    BY <1>4, <1>7, <1>8, <2>2, <2>3
  <2>5. b = a + off
    BY <2>4
  <2>6. Event(u, a) = Event(v, b)
    BY <1>7, <2>2, <2>5
  <2> QED BY <1>3, <1>10, <2>1, <2>6 DEF LatestOf, a, b, v
<1> QED BY <1>9, <1>10
\* The bar of a list that is a ready sweep.
ReadyAt(v, i) == i \in 1..Len(v) /\ Swept(v, i) /\ Event(v, i).ready
ReadyOf(v) == {Event(v, i) : i \in {k \in 1..Len(v) : ReadyAt(v, k)}}

\* Of the events with one confirmation, the one that was swept first.
Earliest(R) == {e \in R : \A f \in R : f.confirm = e.confirm => e.sweep <= f.sweep}

\* What a ready event says of its bars.
LEMMA ReadyFields ==
    ASSUME NEW v, IsView(v), NEW i, ReadyAt(v, i)
    PROVE  /\ i \in 1..Len(v) /\ i > Required
           /\ ConfirmAt(v, i) \in i..Len(v) /\ ConfirmAt(v, i) \in 1..Len(v)
           /\ Event(v, i).confirm = v[ConfirmAt(v, i)].at
           /\ Event(v, i).sweep = v[i].at
           /\ ConfirmAt(v, i) # 0
<1>1. i \in 1..Len(v) /\ i > Required /\ Event(v, i).ready
  BY DEF ReadyAt, Swept
<1>2. ConfirmAt(v, i) # 0
  BY <1>1 DEF Event, EventWith
<1>3. /\ ReclaimAt(v, i) \in i..Len(v) /\ ConfirmAt(v, i) \in ReclaimAt(v, i)..Len(v)
      /\ ConfirmAt(v, i) \in 1..Len(v)
  BY <1>1, <1>2, ConfirmInside
<1>4. ConfirmAt(v, i) \in i..Len(v)
  BY <1>1, <1>3
<1>5. Event(v, i).confirm = v[ConfirmAt(v, i)].at /\ Event(v, i).sweep = v[i].at
  BY <1>2 DEF Event, EventWith, At
<1> QED BY <1>1, <1>2, <1>3, <1>4, <1>5

\* The first bar to close above a level, if it is an old one, was that before.
LEMMA AboveWas ==
    ASSUME NEW v, NEW w, Grown(v, w), NEW start \in 1..Len(v), NEW last \in Int, NEW level,
           FirstOf(ClosesAbove(w, start, last, level)) \in 1..Len(v)
    PROVE  FirstOf(ClosesAbove(v, start, last, level)) = FirstOf(ClosesAbove(w, start, last, level))
<1> DEFINE a == FirstOf(ClosesAbove(w, start, last, level))
<1>1. Len(v) \in Nat /\ Len(w) = Len(v) + 1 /\ IsView(w) /\ \A n \in 1..Len(v) : w[n] = v[n]
  BY DEF Grown, IsView
<1>2. start \in 1..Len(w) /\ a # 0
  BY <1>1
<1>3. a \in start..Len(w) /\ a <= last /\ a \in ClosesAbove(w, start, last, level)
  BY <1>1, <1>2, AboveInside
<1> HIDE DEF a
<1>4. a \in 1..Len(v) /\ w[a].close > level
  BY <1>3 DEF a, ClosesAbove
<1>5. UpTo(v, last) = IF Len(v) <= last THEN Len(v) ELSE last
  BY <1>1, UpToIs
<1>6. a \in start .. UpTo(v, last) /\ v[a].close > level
  BY <1>1, <1>3, <1>4, <1>5
<1>7. ClosesAbove(v, start, last, level) # {}
  BY <1>6 DEF ClosesAbove
<1> QED BY <1>7, AboveStays

\* A confirmation at an old bar was there before the last bar closed.
LEMMA ConfirmWas ==
    ASSUME NEW v, NEW w, Grown(v, w), NEW i \in 1..Len(v), i > Required,
           ConfirmAt(w, i) \in 1..Len(v)
    PROVE  ConfirmAt(v, i) = ConfirmAt(w, i)
<1> DEFINE r == ReclaimAt(w, i)
           c == ConfirmAt(w, i)
<1>1. /\ Len(v) \in Nat /\ i \in Nat \ {0} /\ i + Reclaim \in Int /\ i + MaxConfirm \in Int
      /\ IsView(w) /\ Len(w) = Len(v) + 1 /\ i \in 1..Len(w) /\ c # 0
  BY RequiredIs DEF Grown, IsView
<1>2. r \in i..Len(w) /\ c \in r..Len(w)
  BY <1>1, ConfirmInside
<1>3. Level(w, i) = Level(v, i) /\ ShiftLevel(w, i) = ShiftLevel(v, i)
  BY LevelsStay
<1>4. r = FirstOf(ClosesAbove(w, i, i + Reclaim, Level(v, i)))
  BY <1>3 DEF ReclaimAt, ClosesAbove
<1>5. c = FirstOf(ClosesAbove(w, r, i + MaxConfirm, ShiftLevel(v, i)))
  BY <1>1, <1>3 DEF ConfirmAt, ClosesAbove
<1>6. ReclaimAt(v, i) = FirstOf(ClosesAbove(v, i, i + Reclaim, Level(v, i)))
  BY DEF ReclaimAt, ClosesAbove
<1>7. ConfirmAt(v, i) = IF ReclaimAt(v, i) = 0 THEN 0
                        ELSE FirstOf(ClosesAbove(v, ReclaimAt(v, i), i + MaxConfirm, ShiftLevel(v, i)))
  BY DEF ConfirmAt, ClosesAbove
<1> HIDE DEF r, c
<1>8. c \in 1..Len(v)
  BY DEF c
<1>9. r \in 1..Len(v) /\ r # 0
  BY <1>1, <1>2, <1>8
<1>10. ReclaimAt(v, i) = r
  BY <1>1, <1>4, <1>6, <1>9, AboveWas
<1>11. FirstOf(ClosesAbove(v, r, i + MaxConfirm, ShiftLevel(v, i))) = c
  BY <1>1, <1>5, <1>8, <1>9, AboveWas
<1> QED BY <1>7, <1>9, <1>10, <1>11 DEF c

\* A later bar leaves the ready events and adds those that it confirms.
LEMMA ReadyGrows ==
    ASSUME NEW v, NEW w, Grown(v, w), NEW i
    PROVE  /\ ReadyAt(v, i) => ReadyAt(w, i) /\ Event(w, i) = Event(v, i)
           /\ ReadyAt(w, i) /\ ConfirmAt(w, i) # Len(w) => ReadyAt(v, i) /\ Event(w, i) = Event(v, i)
<1>1. IsView(v) /\ IsView(w) /\ Len(v) \in Nat /\ Len(w) = Len(v) + 1 /\ \A n \in 1..Len(v) : w[n] = v[n]
  BY DEF Grown, IsView
<1>2. ASSUME ReadyAt(v, i)
      PROVE  ReadyAt(w, i) /\ Event(w, i) = Event(v, i)
  <2>1. i \in 1..Len(v) /\ ConfirmAt(v, i) # 0 /\ Swept(v, i) /\ Event(v, i).ready
    BY <1>1, <1>2, ReadyFields DEF ReadyAt
  <2>2. Event(w, i) = Event(v, i) /\ Swept(w, i)
    BY <2>1, EventStays
  <2> QED BY <1>1, <2>1, <2>2 DEF ReadyAt
<1>3. ASSUME ReadyAt(w, i), ConfirmAt(w, i) # Len(w)
      PROVE  ReadyAt(v, i) /\ Event(w, i) = Event(v, i)
  <2>1. /\ i \in 1..Len(w) /\ i > Required /\ ConfirmAt(w, i) \in i..Len(w)
        /\ ConfirmAt(w, i) # 0 /\ Swept(w, i) /\ Event(w, i).ready
    BY <1>1, <1>3, ReadyFields DEF ReadyAt
  <2>2. i \in 1..Len(v) /\ ConfirmAt(w, i) \in 1..Len(v)
    BY <1>1, <1>3, <2>1
  <2>3. ConfirmAt(v, i) = ConfirmAt(w, i)
    BY <2>1, <2>2, ConfirmWas
  <2>4. Swept(v, i)
    <3>1. Level(w, i) = Level(v, i) /\ w[i] = v[i]
      BY <1>1, <2>1, <2>2, LevelsStay
    <3> QED BY <2>1, <3>1 DEF Swept
  <2>5. Event(w, i) = Event(v, i)
    BY <2>1, <2>2, <2>3, <2>4, EventStays
  <2> QED BY <2>1, <2>2, <2>4, <2>5 DEF ReadyAt
<1> QED BY <1>2, <1>3

\* What the history says of its last bar is the earliest event confirmed there.
LEMMA LatestIsEarliest ==
    ASSUME NEW v, IsView(v), Len(v) # 0, NEW e
    PROVE  e \in LatestOf(v) <=> e \in Earliest(ReadyOf(v)) /\ e.confirm = v[Len(v)].at
<1> DEFINE n == Len(v)
           H == Hits(v)
           m == Min(H)
<1>1. /\ n \in Nat \ {0} /\ n \in 1..n
      /\ \A k \in 1..n : v[k].at \in Nat
      /\ \A j, k \in 1..n : j < k => v[j].at < v[k].at
  BY DEF IsView
<1>2. \A j, k \in 1..n : v[j].at = v[k].at => j = k
  <2> SUFFICES ASSUME NEW j \in 1..n, NEW k \in 1..n, j # k
               PROVE  v[j].at # v[k].at
    OBVIOUS
  <2> HIDE DEF n
  <2>1. j < k \/ k < j
    BY <1>1
  <2>2. v[j].at < v[k].at \/ v[k].at < v[j].at
    BY <1>1, <2>1
  <2> QED BY <1>1, <2>2
<1>3. \A i : i \in H <=> ReadyAt(v, i) /\ ConfirmAt(v, i) = n
  BY DEF Hits, ReadyAt
<1>4. H # {} => m \in H /\ \A y \in H : m <= y
  <2>1. H \in SUBSET Int /\ 1 \in Int /\ \A y \in H : 1 <= y
    BY <1>1 DEF Hits
  <2> QED BY <2>1, MinOf
<1>5. \A i : ReadyAt(v, i) => /\ i \in 1..n /\ ConfirmAt(v, i) \in 1..n
                              /\ Event(v, i).confirm = v[ConfirmAt(v, i)].at
                              /\ Event(v, i).sweep = v[i].at
  BY ReadyFields
<1>6. \A f : f \in ReadyOf(v) <=> \E i : ReadyAt(v, i) /\ f = Event(v, i)
  BY DEF ReadyOf, ReadyAt
<1>7. e \in LatestOf(v) <=> H # {} /\ e = Event(v, m)
  BY DEF LatestOf
<1> HIDE DEF n, H, m
<1>8. ASSUME H # {}, e = Event(v, m)
      PROVE  e \in Earliest(ReadyOf(v)) /\ e.confirm = v[n].at
  <2>1. m \in H /\ ReadyAt(v, m) /\ ConfirmAt(v, m) = n
    BY <1>3, <1>4, <1>8
  <2>2. e \in ReadyOf(v) /\ e.confirm = v[n].at /\ e.sweep = v[m].at /\ m \in 1..n
    BY <1>5, <1>6, <1>8, <2>1
  <2>3. ASSUME NEW f \in ReadyOf(v), f.confirm = e.confirm
        PROVE  e.sweep <= f.sweep
    <3>1. PICK i : ReadyAt(v, i) /\ f = Event(v, i)
      BY <1>6
    <3>2. ConfirmAt(v, i) = n /\ i \in 1..n /\ f.sweep = v[i].at
      BY <1>1, <1>2, <1>5, <2>2, <2>3, <3>1
    <3>3. m <= i
      BY <1>3, <1>4, <1>8, <3>1, <3>2
    <3>4. m = i \/ m < i
      BY <1>1, <2>2, <3>2, <3>3
    <3>5. v[m].at \in Nat /\ v[i].at \in Nat /\ (m < i => v[m].at < v[i].at)
      BY <1>1, <2>2, <3>2
    <3> QED BY <2>2, <3>2, <3>4, <3>5
  <2> QED BY <2>2, <2>3 DEF Earliest
<1>9. ASSUME e \in Earliest(ReadyOf(v)), e.confirm = v[n].at
      PROVE  H # {} /\ e = Event(v, m)
  <2>1. e \in ReadyOf(v) /\ \A f \in ReadyOf(v) : f.confirm = e.confirm => e.sweep <= f.sweep
    BY <1>9 DEF Earliest
  <2>2. PICK i : ReadyAt(v, i) /\ e = Event(v, i)
    BY <1>6, <2>1
  <2>3. ConfirmAt(v, i) = n /\ i \in 1..n /\ e.sweep = v[i].at /\ i \in H
    BY <1>1, <1>2, <1>3, <1>5, <1>9, <2>2
  <2>4. m \in H /\ m <= i /\ ReadyAt(v, m) /\ ConfirmAt(v, m) = n
    BY <1>3, <1>4, <2>3
  <2>5. /\ m \in 1..n /\ Event(v, m) \in ReadyOf(v)
        /\ Event(v, m).confirm = v[n].at /\ Event(v, m).sweep = v[m].at
    BY <1>5, <1>6, <2>4
  <2>6. v[i].at <= v[m].at
    BY <1>9, <2>1, <2>3, <2>5
  <2>7. v[m].at \in Nat /\ v[i].at \in Nat /\ (m < i => v[m].at < v[i].at) /\ (m = i \/ m < i)
    BY <1>1, <2>3, <2>4, <2>5
  <2>8. m = i
    BY <2>6, <2>7
  <2> QED BY <2>2, <2>3, <2>8
<1> QED BY <1>7, <1>8, <1>9 DEF n

\* A later bar leaves the earliest events that it does not confirm.
LEMMA EarliestStay ==
    ASSUME NEW v, NEW w, Grown(v, w), NEW e
    PROVE  e \in Earliest(ReadyOf(v)) <=> e \in Earliest(ReadyOf(w)) /\ e.confirm # w[Len(w)].at
<1> DEFINE z == w[Len(w)].at
<1>1. /\ IsView(v) /\ IsView(w) /\ Len(v) \in Nat /\ Len(w) = Len(v) + 1
      /\ \A n \in 1..Len(v) : v[n].at < z /\ v[n].at \in Nat
      /\ z \in Nat
  BY DEF Grown, IsView
<1>2. \A f : f \in ReadyOf(v) <=> \E i : ReadyAt(v, i) /\ f = Event(v, i)
  BY DEF ReadyOf, ReadyAt
<1>3. \A f : f \in ReadyOf(w) <=> \E i : ReadyAt(w, i) /\ f = Event(w, i)
  BY DEF ReadyOf, ReadyAt
<1>4. ASSUME NEW f \in ReadyOf(v)
      PROVE  f \in ReadyOf(w) /\ f.confirm # z
  <2>1. PICK i : ReadyAt(v, i) /\ f = Event(v, i)
    BY <1>2
  <2>2. ConfirmAt(v, i) \in 1..Len(v) /\ f.confirm = v[ConfirmAt(v, i)].at
    BY <1>1, <2>1, ReadyFields
  <2>3. ReadyAt(w, i) /\ f = Event(w, i)
    BY <2>1, ReadyGrows
  <2>4. f.confirm \in Nat /\ f.confirm < z
    BY <1>1, <2>2
  <2> QED BY <1>1, <1>3, <2>3, <2>4
<1>5. ASSUME NEW f \in ReadyOf(w), f.confirm # z
      PROVE  f \in ReadyOf(v)
  <2>1. PICK i : ReadyAt(w, i) /\ f = Event(w, i)
    BY <1>3
  <2>2. f.confirm = w[ConfirmAt(w, i)].at
    BY <1>1, <2>1, ReadyFields
  <2>3. ConfirmAt(w, i) # Len(w)
    BY <1>5, <2>2
  <2>4. ReadyAt(v, i) /\ f = Event(v, i)
    BY <2>1, <2>3, ReadyGrows
  <2> QED BY <1>2, <2>4
<1> HIDE DEF z
<1>6. \A f : f \in ReadyOf(v) <=> f \in ReadyOf(w) /\ f.confirm # z
  BY <1>4, <1>5
<1>7. e \in Earliest(ReadyOf(v)) <=> e \in Earliest(ReadyOf(w)) /\ e.confirm # z
  BY <1>6 DEF Earliest
<1> QED BY <1>7 DEF z
\* What SweepInv says of a history with a bar.
LEMMA HistoryIs == SweepInv /\ closedBars # <<>> => IsHistory(closedBars)
<1> SUFFICES ASSUME SweepInv, closedBars # <<>>
             PROVE  IsHistory(closedBars)
  OBVIOUS
<1> DEFINE n == Len(closedBars)
<1>1. closedBars \in Seq(SweepBar) /\ n \in Nat /\ LastSlot \in Nat /\ MaxGaps \in Nat
  BY SweepAssumption DEF SweepInv
<1>2. n # 0
  BY <1>1
<1>3. NextSlot = closedBars[n].at + 1
  BY DEF NextSlot, Last
<1>4. closedBars[n].at \in Nat
  <2>1. closedBars[n] \in SweepBar
    BY <1>1, <1>2
  <2> QED BY <2>1 DEF SweepBar
<1>5. NextSlot <= LastSlot /\ NextSlot - n <= MaxGaps
  BY <1>1 DEF SweepInv, Gaps
<1>6. closedBars[n].at < LastSlot /\ closedBars[n].at + 1 - n <= MaxGaps
  BY <1>1, <1>3, <1>4, <1>5
<1> QED BY <1>1, <1>6 DEF SweepInv, IsHistory, InOrder

\* What was found so far, by side, is what the history has ready.
LiveInv ==
    /\ SweepInv
    /\ \A side \in Sides : found[side] = Earliest(ReadyOf(View(side, closedBars)))

\* The ready events are the ready ones of a scan of the history.
LEMMA ReadyIsScanned ==
    ASSUME NEW side \in Sides, NEW bs, IsView(View(side, bs))
    PROVE  {e \in ScanSetups(bs, side) : e.ready} = ReadyOf(View(side, bs))
<1> DEFINE v == View(side, bs)
<1>1. DOMAIN v = 1..Len(v)
  BY DEF IsView
<1> HIDE DEF v
<1>2. \A e : e \in {f \in {Event(v, i) : i \in {k \in DOMAIN v : Swept(v, k)}} : f.ready}
                 <=> \E i \in 1..Len(v) : Swept(v, i) /\ e = Event(v, i) /\ e.ready
  BY <1>1
<1>3. \A e : e \in ReadyOf(v) <=> \E i \in 1..Len(v) : Swept(v, i) /\ e = Event(v, i) /\ e.ready
  BY DEF ReadyOf, ReadyAt
<1> QED BY <1>2, <1>3 DEF ScanSetups, v

\* A closing bar, and another look, keep what was found true.
LEMMA LiveInvStep ==
    ASSUME LiveInv, [SweepNext]_sweepVars
    PROVE  LiveInv'
<1>1. SweepInv /\ SweepInv'
  BY SweepInvStep DEF LiveInv
<1>2. CASE BarCloses
  <2> SUFFICES ASSUME NEW side \in Sides
               PROVE  found'[side] = Earliest(ReadyOf(View(side, closedBars')))
    BY <1>1 DEF LiveInv
  <2> DEFINE v == View(side, closedBars)
             w == View(side, closedBars')
  <2>1. closedBars' # <<>> /\ found'[side] = found[side] \cup Latest(Slice(closedBars'), side)
    <3>1. closedBars \in Seq(SweepBar)
      BY <1>1 DEF SweepInv
    <3> QED BY <1>2, <3>1 DEF BarCloses
  <2>2. IsHistory(closedBars')
    <3>1. (SweepInv /\ closedBars # <<>> => IsHistory(closedBars))'
      BY HistoryIs, PTL
    <3> QED BY <1>1, <2>1, <3>1 DEF IsHistory
  <2>3. Latest(Slice(closedBars'), side) = LatestOf(w)
    BY <2>2, LatestIs
  <2>4. Grown(v, w)
    BY <1>1, <1>2, ViewsGrow
  <2>5. found[side] = Earliest(ReadyOf(v))
    BY DEF LiveInv
  <2> HIDE DEF v, w
  <2>6. IsView(w) /\ Len(w) # 0
    BY <2>4 DEF Grown, IsView
  <2>7. \A e : e \in Earliest(ReadyOf(v)) \cup LatestOf(w) <=> e \in Earliest(ReadyOf(w))
    <3> TAKE e
    <3>1. e \in LatestOf(w) <=> e \in Earliest(ReadyOf(w)) /\ e.confirm = w[Len(w)].at
      BY <2>6, LatestIsEarliest
    <3>2. e \in Earliest(ReadyOf(v)) <=> e \in Earliest(ReadyOf(w)) /\ e.confirm # w[Len(w)].at
      BY <2>4, EarliestStay
    <3> QED BY <3>1, <3>2
  <2>8. Earliest(ReadyOf(v)) \cup LatestOf(w) = Earliest(ReadyOf(w))
    BY <2>7
  <2> QED BY <2>1, <2>3, <2>5, <2>8 DEF w
<1>3. CASE LookAgain
  <2>0. closedBars' = closedBars /\ closedBars # <<>>
    BY <1>3 DEF LookAgain
  <2> SUFFICES ASSUME NEW side \in Sides
               PROVE  found'[side] = Earliest(ReadyOf(View(side, closedBars)))
    BY <1>1, <2>0 DEF LiveInv
  <2> DEFINE v == View(side, closedBars)
  <2>1. found'[side] = found[side] \cup Latest(Slice(closedBars), side)
    BY <1>3 DEF LookAgain
  <2>2. IsHistory(closedBars)
    BY <1>1, <2>0, HistoryIs
  <2>3. Latest(Slice(closedBars), side) = LatestOf(v)
    BY <2>2, LatestIs
  <2>4. IsView(v) /\ Len(v) # 0
    <3>1. IsView(v) /\ Len(v) = Len(closedBars)
      BY <2>2, Viewed DEF IsHistory
    <3>2. Len(closedBars) # 0
      BY <2>2 DEF IsHistory
    <3> QED BY <3>1, <3>2
  <2>5. found[side] = Earliest(ReadyOf(v))
    BY DEF LiveInv
  <2> HIDE DEF v
  <2>6. \A e : e \in LatestOf(v) => e \in Earliest(ReadyOf(v))
    BY <2>4, LatestIsEarliest
  <2>7. Earliest(ReadyOf(v)) \cup LatestOf(v) = Earliest(ReadyOf(v))
    BY <2>6
  <2> QED BY <2>1, <2>3, <2>5, <2>7 DEF v
<1>4. CASE UNCHANGED sweepVars
  <2>1. closedBars' = closedBars /\ found' = found
    BY <1>4 DEF sweepVars
  <2> QED BY <1>1, <2>1 DEF LiveInv
<1> QED BY <1>2, <1>3, <1>4 DEF SweepNext

\* One detector, for any prices, gaps, lookbacks and slices that are long
\* enough: what a caller is told bar by bar, from slices, is what a scan of the
\* whole history finds (latest_bar_sweep_setup), and the accelerated scan is the
\* reference.
THEOREM OneDetectorHolds == SweepSpec => []OneDetector
<1>1. SweepInit => LiveInv
  <2> SUFFICES ASSUME SweepInit, NEW side \in Sides
               PROVE  found[side] = Earliest(ReadyOf(View(side, closedBars)))
    <3>1. MaxGaps \in Nat /\ LastSlot \in Nat
      BY SweepAssumption
    <3>2. SweepInit => SweepInv
      BY <3>1 DEF SweepInit, SweepInv, NextSlot, Gaps
    <3> QED BY <3>2 DEF LiveInv
  <2>1. found[side] = {} /\ closedBars = <<>>
    BY DEF SweepInit
  <2>2. Len(View(side, closedBars)) = 0
    <3>1. closedBars \in Seq(SweepBar) /\ InOrder(closedBars) /\ Len(closedBars) = 0
      BY <2>1 DEF InOrder
    <3> QED BY <3>1, Viewed
  <2>3. ReadyOf(View(side, closedBars)) = {}
    BY <2>2 DEF ReadyOf
  <2> QED BY <2>1, <2>3 DEF Earliest
<1>2. LiveInv => LiveIsScan
  <2> SUFFICES ASSUME LiveInv, NEW side \in Sides
               PROVE  LET ready == {e \in ScanSetups(closedBars, side) : e.ready}
                      IN  found[side] = {e \in ready : \A f \in ready :
                                             f.confirm = e.confirm => e.sweep <= f.sweep}
    BY DEF LiveIsScan
  <2>1. IsView(View(side, closedBars))
    BY Viewed DEF LiveInv, SweepInv, InOrder
  <2>2. {e \in ScanSetups(closedBars, side) : e.ready} = ReadyOf(View(side, closedBars))
    BY <2>1, ReadyIsScanned
  <2>3. found[side] = Earliest(ReadyOf(View(side, closedBars)))
    BY DEF LiveInv
  <2> QED BY <2>2, <2>3 DEF Earliest
<1> QED BY <1>1, <1>2, LiveInvStep, FastIsReferenceHolds, PTL DEF SweepSpec, OneDetector

-----------------------------------------------------------------------------
(***************************************************************************)
(* Statistics: Holm's correction is closed testing.                        *)
(***************************************************************************)

\* What comes before what in the order of the p-values, and how many do.
Before(p, f, h) == p[f] < p[h] \/ (p[f] = p[h] /\ f < h)
Ahead(p, h) == {f \in Hypotheses : Before(p, f, h)}
Place(p, h) == Cardinality(Ahead(p, h))

\* The p-values have one order, and a place is a number below how many there are.
LEMMA PlacesFollow ==
    ASSUME NEW p \in [Hypotheses -> 0..Unit], NEW g \in Hypotheses, NEW h \in Hypotheses
    PROVE  /\ Place(p, g) \in Nat
           /\ Before(p, g, h) => Place(p, g) < Place(p, h)
           /\ ~ Before(p, g, h) => p[h] <= p[g]
           /\ Place(p, g) <= Place(p, h) => ~ Before(p, h, g)
<1>1. /\ \A x \in Hypotheses : x \in Int /\ p[x] \in Int
      /\ IsFiniteSet(Hypotheses)
  BY StatisticsAssumption
<1>2. \A x \in Hypotheses : Ahead(p, x) \in SUBSET Hypotheses /\ x \notin Ahead(p, x)
  BY <1>1 DEF Ahead, Before
<1>3. \A x \in Hypotheses : IsFiniteSet(Ahead(p, x)) /\ Place(p, x) \in Nat
  BY <1>1, <1>2, FS_Subset, FS_CardinalityType DEF Place
<1>4. ASSUME NEW x \in Hypotheses, NEW y \in Hypotheses, Before(p, x, y)
      PROVE  Place(p, x) < Place(p, y)
  <2>1. Ahead(p, x) \in SUBSET Ahead(p, y) /\ x \in Ahead(p, y) /\ x \notin Ahead(p, x)
    BY <1>1, <1>4 DEF Ahead, Before
  <2>2. Place(p, x) <= Place(p, y) /\ Place(p, x) # Place(p, y)
    BY <1>3, <2>1, FS_Subset DEF Place
  <2> QED BY <1>3, <2>2
<1>5. ~ Before(p, g, h) => p[h] <= p[g]
  BY <1>1 DEF Before
<1>6. Place(p, g) <= Place(p, h) => ~ Before(p, h, g)
  BY <1>3, <1>4
<1> QED BY <1>3, <1>4, <1>5, <1>6

\* A hypothesis is rejected if, and only if, its own p-value and those before
\* it are small enough for the number that is left at each.
LEMMA HolmRejects ==
    ASSUME NEW p \in [Hypotheses -> 0..Unit], NEW h \in Hypotheses, NEW level \in 0..Unit - 1
    PROVE  Holm(p)[h] <= level <=>
               \A g \in Hypotheses : Place(p, g) <= Place(p, h) =>
                   (Cardinality(Hypotheses) - Place(p, g)) * p[g] <= level
<1> DEFINE m == Cardinality(Hypotheses)
           place == [x \in Hypotheses |-> Place(p, x)]
           times == [x \in Hypotheses |-> (m - place[x]) * p[x]]
           adjusted == [x \in Hypotheses |-> Min({Unit, times[x]})]
           upTo == {adjusted[g] : g \in {f \in Hypotheses : place[f] <= place[h]}}
<1>1. Holm(p)[h] = Max(upTo)
  BY DEF Holm, Place, Ahead, Before
<1>2. /\ \A x \in Hypotheses : place[x] \in Nat /\ place[x] = Place(p, x) /\ p[x] \in Int
      /\ Unit \in Nat /\ m \in Nat
  BY PlacesFollow, StatisticsAssumption, FS_CardinalityType
<1>3. \A x \in Hypotheses : times[x] \in Int /\ times[x] = (m - Place(p, x)) * p[x]
  BY <1>2
<1>9. \A x \in Hypotheses : adjusted[x] = Min({Unit, times[x]})
  OBVIOUS
<1> HIDE DEF m, place, times, adjusted
<1>4. \A x \in Hypotheses :
          adjusted[x] \in Int /\ adjusted[x] <= Unit /\ (adjusted[x] <= level <=> times[x] <= level)
  <2>1. ASSUME NEW x \in Hypotheses
        PROVE  adjusted[x] = IF Unit <= times[x] THEN Unit ELSE times[x]
    <3> DEFINE other == times[x]
    <3>1. other \in Int /\ Unit \in Int
      BY <1>2, <1>3
    <3>3. adjusted[x] = Min({Unit, other})
      BY <1>9, Zenon
    <3> HIDE DEF other
    <3>2. Min({Unit, other}) = IF Unit <= other THEN Unit ELSE other
      BY <3>1, MinOfTwo
    <3> QED BY <3>2, <3>3 DEF other
  <2> QED BY <1>2, <1>3, <2>1
<1>5. upTo \in SUBSET Int /\ adjusted[h] \in upTo /\ \A y \in upTo : y <= Unit
  BY <1>2, <1>4
<1> DEFINE most == Max(upTo)
<1> HIDE DEF upTo
<1>6. most \in upTo /\ \A y \in upTo : most >= y
  <2>1. Unit \in Int /\ upTo \in SUBSET Int /\ upTo # {} /\ \A y \in upTo : y <= Unit
    BY <1>2, <1>5
  <2>2. Max(upTo) \in upTo /\ \A y \in upTo : Max(upTo) >= y
    BY <2>1, MaxOf
  <2> QED BY <2>2
<1> HIDE DEF most
<1>7. most <= level <=> \A y \in upTo : y <= level
  BY <1>5, <1>6
<1>8. most <= level <=> \A g \in Hypotheses : place[g] <= place[h] => adjusted[g] <= level
  BY <1>7 DEF upTo
<1> QED BY <1>1, <1>2, <1>3, <1>4, <1>8 DEF m, most

\* Products of naturals grow with their factors.
LEMMA ProductsGrow ==
    ASSUME NEW a \in Nat, NEW b \in Nat, NEW c \in Nat, NEW d \in Nat, a <= b, c <= d
    PROVE  a * c <= b * d
<1>1. a * c <= b * c
  <2>1. b * c = a * c + (b - a) * c /\ (b - a) * c \in Nat /\ a * c \in Nat
    OBVIOUS
  <2> QED BY <2>1
<1>2. b * c <= b * d
  <2>1. b * d = b * c + b * (d - c) /\ b * (d - c) \in Nat /\ b * c \in Nat
    OBVIOUS
  <2> QED BY <2>1
<1>3. a * c \in Nat /\ b * c \in Nat /\ b * d \in Nat
  OBVIOUS
<1> QED BY <1>1, <1>2, <1>3

\* Holm's correction rejects what closed testing with Bonferroni's test rejects.
LEMMA HolmIsClosed ==
    ASSUME NEW p \in [Hypotheses -> 0..Unit], NEW h \in Hypotheses, NEW level \in 0..Unit - 1
    PROVE  Holm(p)[h] <= level <=>
               \A S \in SUBSET Hypotheses : h \in S => \E g \in S : Cardinality(S) * p[g] <= level
<1> DEFINE m == Cardinality(Hypotheses)
<1>1. /\ IsFiniteSet(Hypotheses) /\ m \in Nat /\ level \in Nat
      /\ \A x \in Hypotheses : p[x] \in Nat
  BY StatisticsAssumption, FS_CardinalityType
<1>2. ASSUME NEW g \in Hypotheses
      PROVE  /\ IsFiniteSet(Hypotheses \ Ahead(p, g)) /\ m - Place(p, g) \in Nat
             /\ Cardinality(Hypotheses \ Ahead(p, g)) = m - Place(p, g)
  <2>1. Hypotheses \cap Ahead(p, g) = Ahead(p, g)
    BY DEF Ahead
  <2>2. /\ IsFiniteSet(Hypotheses \ Ahead(p, g))
        /\ Cardinality(Hypotheses \ Ahead(p, g)) = m - Place(p, g)
    BY <1>1, <2>1, FS_Difference DEF Place
  <2>3. Cardinality(Hypotheses \ Ahead(p, g)) \in Nat
    BY <2>2, FS_CardinalityType
  <2> QED BY <2>2, <2>3
<1> HIDE DEF m
<1>3. ASSUME \A g \in Hypotheses : Place(p, g) <= Place(p, h) => (m - Place(p, g)) * p[g] <= level,
             NEW S \in SUBSET Hypotheses, h \in S
      PROVE  \E g \in S : Cardinality(S) * p[g] <= level
  <2> DEFINE places == {Place(p, x) : x \in S}
  <2>1. places \in SUBSET Nat /\ places # {}
    BY <1>3, PlacesFollow
  <2>2. PICK n \in places : \A k \in places : n <= k
    BY <2>1, LeastNatural
  <2>3. PICK g \in S : Place(p, g) = n
    BY <2>2
  <2>4. \A x \in S : Place(p, g) <= Place(p, x)
    BY <2>2, <2>3
  <2> HIDE DEF places
  <2>5. S \in SUBSET (Hypotheses \ Ahead(p, g))
    <3>1. \A x \in S : ~ Before(p, x, g)
      BY <2>4, PlacesFollow
    <3> QED BY <3>1 DEF Ahead
  <2> DEFINE size == Cardinality(S)
             left == m - Place(p, g)
  <2>6. size \in Nat /\ size <= left /\ left \in Nat
    <3>1. /\ IsFiniteSet(Hypotheses \ Ahead(p, g)) /\ left \in Nat
          /\ Cardinality(Hypotheses \ Ahead(p, g)) = left
      BY <1>2
    <3>2. IsFiniteSet(S) /\ size <= left
      BY <2>5, <3>1, FS_Subset
    <3> QED BY <3>1, <3>2, FS_CardinalityType
  <2>7. left * p[g] <= level
    BY <1>3, <2>4
  <2>8. \E x \in S : size * p[x] <= level
    <3> HIDE DEF size, left
    <3>1. p[g] \in Nat
      BY <1>1
    <3>2. size * p[g] <= left * p[g]
      BY <2>6, <3>1, ProductsGrow
    <3>3. size * p[g] \in Int /\ left * p[g] \in Int
      BY <2>6, <3>1
    <3> QED BY <1>1, <2>7, <3>2, <3>3
  <2> QED BY <2>8
<1>4. ASSUME \A S \in SUBSET Hypotheses : h \in S => \E g \in S : Cardinality(S) * p[g] <= level,
             NEW g \in Hypotheses, Place(p, g) <= Place(p, h)
      PROVE  (m - Place(p, g)) * p[g] <= level
  <2> DEFINE S == Hypotheses \ Ahead(p, g)
  <2>1. h \in S
    BY <1>4, PlacesFollow DEF Ahead
  <2>2. PICK f \in S : Cardinality(S) * p[f] <= level
    BY <1>4, <2>1
  <2>3. Cardinality(S) = m - Place(p, g) /\ m - Place(p, g) \in Nat
    BY <1>2
  <2>4. p[g] <= p[f]
    <3>1. ~ Before(p, f, g) /\ f \in Hypotheses
      BY DEF Ahead
    <3> QED BY <3>1, PlacesFollow
  <2>5. p[f] \in Nat /\ p[g] \in Nat
    BY <1>1
  <2>6. (m - Place(p, g)) * p[g] <= (m - Place(p, g)) * p[f]
    BY <2>3, <2>4, <2>5, ProductsGrow
  <2>7. (m - Place(p, g)) * p[f] <= level
    BY <2>2, <2>3
  <2>8. (m - Place(p, g)) * p[g] \in Int /\ (m - Place(p, g)) * p[f] \in Int
    BY <2>3, <2>5
  <2> QED BY <1>1, <2>6, <2>7, <2>8
<1> QED BY <1>3, <1>4, HolmRejects DEF m

\* What was asked of Holm's correction is what was answered.
HolmInv ==
    asked.what = "holm" =>
        asked.p \in [Hypotheses -> 0..Unit] /\ answer.adjusted = Holm(asked.p)

\* Hypotheses that are rejected together are those of closed testing, for any
\* hypotheses and p-values.
THEOREM HolmIsClosedTestingHolds == StatisticsSpec => []HolmIsClosedTesting
<1>1. StatisticsInit => HolmInv
  BY DEF StatisticsInit, Nothing, HolmInv
<1>2. HolmInv /\ [StatisticsNext]_statisticsVars => HolmInv'
  <2> SUFFICES ASSUME HolmInv, [StatisticsNext]_statisticsVars PROVE HolmInv'
    OBVIOUS
  <2>1. CASE AddRow \/ UNCHANGED statisticsVars
    BY <2>1 DEF AddRow, HolmInv, statisticsVars
  <2>2. CASE Profile
    <3>1. asked'.what = "profile"
      BY <2>2 DEF Profile
    <3> QED BY <3>1 DEF HolmInv
  <2>3. CASE Rank
    <3>1. asked'.what = "ranks"
      BY <2>3 DEF Rank
    <3> QED BY <3>1 DEF HolmInv
  <2>4. CASE Correct
    <3>1. PICK p \in [Hypotheses -> 0..Unit] :
              asked' = [what |-> "holm", p |-> p] /\ answer' = [adjusted |-> Holm(p)]
      BY <2>4 DEF Correct
    <3>2. asked'.p = p /\ answer'.adjusted = Holm(p)
      BY <3>1
    <3> QED BY <3>2 DEF HolmInv
  <2>5. CASE CrossValidate
    <3>1. asked'.what = "pbo"
      BY <2>5 DEF CrossValidate
    <3> QED BY <3>1 DEF HolmInv
  <2>6. CASE Survey
    <3>1. asked'.what = "surface"
      BY <2>6 DEF Survey
    <3> QED BY <3>1 DEF HolmInv
  <2> QED BY <2>1, <2>2, <2>3, <2>4, <2>5, <2>6 DEF StatisticsNext
<1>3. HolmInv => HolmIsClosedTesting
  BY HolmIsClosed DEF HolmInv, HolmIsClosedTesting
<1> QED BY <1>1, <1>2, <1>3, PTL DEF StatisticsSpec
=============================================================================
