--------------------------- MODULE Journal_proofs ---------------------------
(***************************************************************************)
(* Proofs about Journal, for any number of overlapping runs, any horizon   *)
(* and any window: the evaluation in pieces agrees with one look at all    *)
(* bars, and the first recording of a signal stays.                        *)
(***************************************************************************)
EXTENDS Journal, TLAPS, FiniteSetTheorems, NaturalsInduction

-----------------------------------------------------------------------------
(* Arithmetic and records *)

\* A set of numbers that is not empty has a least member.
LEMMA LeastExists ==
    ASSUME NEW S, S \subseteq Nat, S # {}
    PROVE  \E b \in S : \A c \in S : b <= c
<1> DEFINE R == {ss \in Nat \X Nat : ss[1] < ss[2]}
<1>1. IsWellFoundedOn(R, Nat)
  BY NatLessThanWellFounded, Zenon DEF OpToRel
<1> HIDE DEF R
<1>2. PICK b \in S : \A c \in S : <<c, b>> \notin R
  BY <1>1, WFMin
<1>3. \A c \in S : c \in Nat /\ b \in Nat /\ ~ (c < b)
  BY <1>2 DEF R
<1> QED BY <1>2, <1>3

\* What a row is made of.
LEMMA RowFields ==
    ASSUME NEW r \in Row
    PROVE  /\ r.signal \in Nums /\ r.status \in {"ABSENT", "OPEN", "CLOSED"}
           /\ r.last \in Nums /\ r.seen \in Int /\ r.tp1 \in Nums
           /\ r.exit \in Nums /\ r.reason \in Reasons /\ r.torn \in BOOLEAN
BY DEF Row

\* The absent row is of the type of the rows.
LEMMA NoRowType == NoRow \in Row
BY BoundsAssumption DEF NoRow, Row, Nums, Reasons

-----------------------------------------------------------------------------
(* The inductive invariant *)

\* A run knows bars and has read a clock of the past, the clock last.
ClocksArePast ==
    \A w \in Workers :
        /\ win[w].to <= clock
        /\ now[w] <= clock
        /\ pc[w] \in {"select", "save"} => win[w].to <= now[w]

Touched == {"STOP", "AMBIGUOUS_STOP_FIRST", "TP2"}

\* What a row at clock c says, when no bar of it was skipped, is so along the
\* path p of its signal.  It speaks of bars that have closed; an OPEN one has
\* observed no bar twice, and the last bar of its horizon not at all.
Right(p, c, r) ==
    r = NoRow \/
        /\ r.status \in {"OPEN", "CLOSED"}
        /\ r.signal <= r.last
        /\ r.last <= c
        /\ r.reason \in Touched => r.exit \in r.signal + 1 .. r.last
        /\ r.status = "OPEN" =>
              /\ r.reason = "NONE"
              /\ r.seen <= r.last - r.signal
              /\ r.last < Expiry(r)
        /\ Whole(r) => OutcomeIs(p, r)

RowsAreRight ==
    \A e \in Events :
        /\ Right(path[e], clock, rows[e])
        /\ \A w \in Workers : Right(path[e], clock, read[w][e])

\* The rows a run selected are OPEN, and those of a signal that is recorded.
ReadRowsAreOpen ==
    \A w \in Workers, e \in Events : read[w][e] # NoRow =>
        /\ read[w][e].status = "OPEN"
        /\ mine[w] # e => rows[e] # NoRow /\ rows[e].signal = read[w][e].signal

\* A signal is inserted by one run at a time, and only if it is not recorded.
OneInserter ==
    \A w \in Workers :
        /\ pc[w] \in {"idle", "persist"} => mine[w] = 0
        /\ \A e \in Events : mine[w] = e =>
              /\ rows[e] = NoRow
              /\ win[w].to > 0
              /\ \A v \in Workers : mine[v] = e => v = w

JournalInv == TypeOK /\ ClocksArePast /\ RowsAreRight /\ ReadRowsAreOpen /\ OneInserter

-----------------------------------------------------------------------------
(* What one evaluation of a row does *)

\* The window of a run and the horizon of a row are numbers.
LEMMA WindowTypes ==
    ASSUME TypeOK, NEW w \in Workers, NEW r \in Row
    PROVE  /\ win[w].from \in Nat \ {0} /\ win[w].to \in Nums
           /\ win[w].torn \in BOOLEAN
           /\ Expiry(r) \in Nat
BY BoundsAssumption DEF TypeOK, Expiry, Row, Nums

\* The new bars are those fetched of the horizon, after the last one observed.
LEMMA NewBarsRange ==
    ASSUME TypeOK, NEW w \in Workers, NEW r \in Row
    PROVE  /\ FirstNew(w, r) \in Nat \ {0} /\ LastNew(w, r) \in Nums
           /\ FirstNew(w, r) > r.last
           /\ LastNew(w, r) <= win[w].to /\ LastNew(w, r) <= Expiry(r)
           /\ LastNew(w, r) = win[w].to \/ LastNew(w, r) = Expiry(r)
<1>1. r.last \in Nat
  BY RowFields DEF Nums
<1> QED BY <1>1, WindowTypes, BoundsAssumption
        DEF FirstNew, LastNew, Larger, Smaller, Nums

\* The bars up to n that touch the first target, and do not stop the signal.
Touches(w, e, r, n) ==
    {b \in FirstNew(w, r) .. n : Seen(w, e, b).reach > 0 /\ ~ Seen(w, e, b).stop}

\* The first of them is recorded, unless one was recorded before.
LEMMA FirstTargetFound ==
    ASSUME TypeOK, NEW w \in Workers, NEW e \in Events, NEW r \in Row,
           NEW n \in NewBars(w, r)
    PROVE  LET t == FirstTarget(w, e, r, n)
           IN  /\ t \in Nums
               /\ r.tp1 # 0 => t = r.tp1
               /\ r.tp1 = 0 =>
                     \/ t = 0 /\ Touches(w, e, r, n) = {}
                     \/ /\ t \in Touches(w, e, r, n)
                        /\ \A c \in Touches(w, e, r, n) : t <= c
<1> DEFINE T == Touches(w, e, r, n)
<1>1. FirstTarget(w, e, r, n) = IF r.tp1 # 0 \/ T = {} THEN r.tp1
                                ELSE CHOOSE b \in T : \A c \in T : b <= c
  BY DEF FirstTarget, Touches
<1>2. T \subseteq FirstNew(w, r) .. n
  BY DEF Touches
<1>3. T \subseteq Nums \ {0}
  <2>1. FirstNew(w, r) \in Nat \ {0} /\ LastNew(w, r) \in 0..LastBar
    BY NewBarsRange DEF Nums
  <2>2. FirstNew(w, r) .. n \subseteq 1..LastBar
    BY <2>1, BoundsAssumption DEF NewBars
  <2> QED BY <1>2, <2>2, BoundsAssumption DEF Nums
<1>4. r.tp1 \in Nums
  BY RowFields
<1>5. CASE r.tp1 # 0 \/ T = {}
  BY <1>1, <1>4, <1>5
<1>6. CASE r.tp1 = 0 /\ T # {}
  <2>1. \E b \in T : \A c \in T : b <= c
    <3>1. T \subseteq Nat
      BY <1>3 DEF Nums
    <3> QED BY <3>1, <1>6, LeastExists
  <2> HIDE DEF T
  <2>2. FirstTarget(w, e, r, n) = CHOOSE b \in T : \A c \in T : b <= c
    BY <1>1, <1>6
  <2>3. FirstTarget(w, e, r, n) \in T /\ \A c \in T : FirstTarget(w, e, r, n) <= c
    BY <2>1, <2>2
  <2> QED BY <2>3, <1>3, <1>6 DEF T
<1> QED BY <1>5, <1>6

\* What observing the bars up to n changes in a row, field by field.
LEMMA ObservedFields ==
    ASSUME TypeOK, NEW w \in Workers, NEW e \in Events, NEW r \in Row, NEW n
    PROVE  LET o == Observed(w, e, r, n)
           IN  /\ o.signal = r.signal /\ o.status = r.status /\ o.last = n
               /\ o.seen = r.seen + (n + 1 - FirstNew(w, r))
               /\ o.tp1 = FirstTarget(w, e, r, n) /\ o.exit = r.exit
               /\ o.reason = r.reason
               /\ o.torn = (r.torn \/ (win[w].torn /\ n = win[w].to))
<1> DEFINE seen == r.seen + (n + 1 - FirstNew(w, r))
           tp1 == FirstTarget(w, e, r, n)
           torn == r.torn \/ (win[w].torn /\ n = win[w].to)
<1>1. Observed(w, e, r, n) =
          [r EXCEPT !.last = n, !.seen = seen, !.tp1 = tp1, !.torn = torn]
  BY DEF Observed
<1> HIDE DEF seen, tp1, torn
<1>2. Observed(w, e, r, n) =
          [signal |-> r.signal, status |-> r.status, last |-> n, seen |-> seen,
           tp1 |-> tp1, exit |-> r.exit, reason |-> r.reason, torn |-> torn]
  BY <1>1 DEF Row
<1> QED BY <1>2 DEF seen, tp1, torn

\* After the new bars up to n, of which only n may have ended the signal, the
\* row is right about all bars if none was skipped and none was torn.
LEMMA ObservedIsRight ==
    ASSUME TypeOK, NEW w \in Workers, NEW e \in Events, NEW r \in Row,
           NEW n \in NewBars(w, r), r # NoRow, r.status = "OPEN",
           Right(path[e], clock, r),
           \A b \in FirstNew(w, r) .. n - 1 : ~ Ends(Seen(w, e, b))
    PROVE  LET o == Observed(w, e, r, n)
           IN  /\ o.seen <= n - r.signal
               /\ ~ o.torn /\ o.seen = n - r.signal =>
                     /\ FirstTargetIs(path[e], o)
                     /\ NothingUpTo(path[e], o, n - 1)
                     /\ Seen(w, e, n) = path[e][n]
<1> DEFINE o == Observed(w, e, r, n)
           p == path[e]
<1>1. /\ r.signal \in Nat /\ r.last \in Nat /\ r.seen \in Int
      /\ r.signal <= r.last /\ r.reason = "NONE" /\ r.seen <= r.last - r.signal
  BY RowFields DEF Right, Nums
<1>2. /\ FirstNew(w, r) \in Nat /\ n \in FirstNew(w, r) .. LastNew(w, r)
      /\ FirstNew(w, r) > r.last /\ n \in Nat /\ n <= win[w].to
      /\ win[w].to \in Nat
  BY <1>1, NewBarsRange, WindowTypes DEF NewBars, Nums
<1>3. /\ o.signal = r.signal /\ o.last = n /\ o.tp1 = FirstTarget(w, e, r, n)
      /\ o.seen = r.seen + (n + 1 - FirstNew(w, r))
      /\ o.torn = (r.torn \/ (win[w].torn /\ n = win[w].to))
  BY ObservedFields
<1> HIDE DEF o, p
<1>4. o.seen <= n - r.signal
  BY <1>1, <1>2, <1>3
<1>5. ASSUME ~ o.torn, o.seen = n - r.signal
      PROVE  FirstTargetIs(p, o) /\ NothingUpTo(p, o, n - 1) /\ Seen(w, e, n) = p[n]
  <2>1. FirstNew(w, r) = r.last + 1 /\ r.seen = r.last - r.signal
    BY <1>1, <1>2, <1>3, <1>5
  <2>2. FirstTargetIs(p, r) /\ NothingUpTo(p, r, r.last)
    <3>1. ~ r.torn
      BY <1>3, <1>5, Zenon
    <3>2. Whole(r)
      BY <3>1, <1>1, <2>1 DEF Whole
    <3> QED BY <3>2, <1>1 DEF Right, OutcomeIs, p
  <2>3. \A b \in r.last + 1 .. n : Seen(w, e, b) = p[b]
    <3> TAKE b \in r.last + 1 .. n
    <3>1. ~ (win[w].torn /\ n = win[w].to)
      BY <1>3, <1>5, Zenon
    <3>2. ~ (win[w].torn /\ b = win[w].to)
      BY <3>1, <1>1, <1>2
    <3> QED BY <3>2, Zenon DEF Seen, p
  <2>4. NothingUpTo(p, o, n - 1)
    <3> SUFFICES ASSUME NEW b \in r.signal + 1 .. n - 1
                 PROVE  ~ Ends(p[b])
      BY <1>3 DEF NothingUpTo
    <3>1. CASE b <= r.last
      BY <3>1, <2>2, <1>1, <1>2 DEF NothingUpTo
    <3>2. CASE b > r.last
      BY <3>2, <2>1, <2>3, <1>1, <1>2
    <3> QED BY <3>1, <3>2, <1>1, <1>2
  <2>5. FirstTargetIs(p, o)
    <3>1. \A b \in r.last + 1 .. n : TouchesAt(p, b) <=> b \in Touches(w, e, r, n)
      BY <2>1, <2>3 DEF TouchesAt, Touches
    <3>2. \A b \in Touches(w, e, r, n) : b \in r.last + 1 .. n
      BY <2>1 DEF Touches
    <3>3. CASE r.tp1 # 0
      <4>1. o.tp1 = r.tp1
        BY <3>3, <1>3, FirstTargetFound
      <4>2. /\ r.tp1 \in r.signal + 1 .. r.last /\ TouchesAt(p, r.tp1)
            /\ \A b \in r.signal + 1 .. r.last : TouchesAt(p, b) => r.tp1 <= b
        BY <3>3, <2>2 DEF FirstTargetIs
      <4>3. \A b \in r.signal + 1 .. n : TouchesAt(p, b) => r.tp1 <= b
        BY <4>2, <1>1, <1>2
      <4> QED BY <4>1, <4>2, <4>3, <3>3, <1>1, <1>2, <1>3 DEF FirstTargetIs
    <3>4. CASE r.tp1 = 0
      <4>1. \A b \in r.signal + 1 .. r.last : ~ TouchesAt(p, b)
        BY <3>4, <2>2 DEF FirstTargetIs
      <4>2. \A b \in r.signal + 1 .. n : TouchesAt(p, b) => b \in Touches(w, e, r, n)
        BY <4>1, <3>1, <1>1, <1>2
      <4>3. CASE o.tp1 = 0 /\ Touches(w, e, r, n) = {}
        BY <4>2, <4>3, <1>3 DEF FirstTargetIs
      <4>4. CASE /\ o.tp1 \in Touches(w, e, r, n)
                 /\ \A c \in Touches(w, e, r, n) : o.tp1 <= c
        <5>1. o.tp1 \in r.last + 1 .. n /\ TouchesAt(p, o.tp1)
          BY <4>4, <3>1, <3>2
        <5> QED BY <5>1, <4>2, <4>4, <1>1, <1>2, <1>3 DEF FirstTargetIs
      <4> QED BY <4>3, <4>4, <3>4, <1>3, FirstTargetFound
    <3> QED BY <3>3, <3>4
  <2> QED BY <2>3, <2>4, <2>5, <1>1, <1>2
<1> QED BY <1>4, <1>5 DEF o, p

\* An observed row is a row.
LEMMA ObservedType ==
    ASSUME TypeOK, NEW w \in Workers, NEW e \in Events, NEW r \in Row,
           NEW n \in NewBars(w, r)
    PROVE  Observed(w, e, r, n) \in Row /\ n \in Nums
<1>1. n \in Nums /\ r.seen + (n + 1 - FirstNew(w, r)) \in Int
  BY NewBarsRange, RowFields, BoundsAssumption DEF NewBars, Nums
<1>2. FirstTarget(w, e, r, n) \in Nums
  BY FirstTargetFound
<1>3. (r.torn \/ (win[w].torn /\ n = win[w].to)) \in BOOLEAN
  OBVIOUS
<1> DEFINE seen == r.seen + (n + 1 - FirstNew(w, r))
           tp1 == FirstTarget(w, e, r, n)
           torn == r.torn \/ (win[w].torn /\ n = win[w].to)
<1>4. Observed(w, e, r, n) =
          [r EXCEPT !.last = n, !.seen = seen, !.tp1 = tp1, !.torn = torn]
  BY DEF Observed
<1>5. seen \in Int /\ tp1 \in Nums /\ torn \in BOOLEAN
  BY <1>1, <1>2, <1>3
<1> HIDE DEF seen, tp1, torn
<1> QED BY <1>1, <1>4, <1>5 DEF Row

\* Closing a row changes its status, exit, last bar and reason.
Closed(o, x, l, z) ==
    [o EXCEPT !.status = "CLOSED", !.exit = x, !.last = l, !.reason = z]

\* What closing changes in a row, field by field.
LEMMA ClosedFields ==
    ASSUME NEW o \in Row, NEW x \in Nums, NEW l \in Nums, NEW z \in Reasons
    PROVE  LET v == Closed(o, x, l, z)
           IN  /\ v \in Row /\ v # NoRow /\ v.signal = o.signal
               /\ v.status = "CLOSED" /\ v.exit = x /\ v.last = l /\ v.reason = z
               /\ v.seen = o.seen /\ v.tp1 = o.tp1 /\ v.torn = o.torn
BY DEF Closed, Row, NoRow

\* A bar that ends the signal is the outcome of the row.
LEMMA EndedIsRight ==
    ASSUME TypeOK, ClocksArePast, NEW w \in Workers, NEW e \in Events,
           NEW r \in Row, NEW n \in NewBars(w, r), r # NoRow, r.status = "OPEN",
           Right(path[e], clock, r), Ends(Seen(w, e, n)),
           \A b \in FirstNew(w, r) .. n - 1 : ~ Ends(Seen(w, e, b))
    PROVE  LET v == Closed(Observed(w, e, r, n), n, n, Verdict(Seen(w, e, n)))
           IN  v \in Row /\ v.signal = r.signal /\ Right(path[e], clock, v)
<1> DEFINE o == Observed(w, e, r, n)
           z == Verdict(Seen(w, e, n))
           v == Closed(o, n, n, z)
           p == path[e]
<1>1. o \in Row /\ n \in Nums
  BY ObservedType
<1>2. /\ z \in {"STOP", "AMBIGUOUS_STOP_FIRST", "TP2"}
      /\ z = "TP2" <=> ~ Seen(w, e, n).stop
      /\ z \in Reasons
  BY DEF Verdict, Reasons
<1>3. /\ o.signal = r.signal /\ o.last = n
  BY ObservedFields
<1>4. /\ o.seen <= n - r.signal
      /\ ~ o.torn /\ o.seen = n - r.signal =>
            /\ FirstTargetIs(p, o)
            /\ NothingUpTo(p, o, n - 1)
            /\ Seen(w, e, n) = p[n]
  BY ObservedIsRight
<1>5. r.signal \in Nat /\ r.last \in Nat /\ r.signal <= r.last /\ n > r.last /\ n <= clock
  <2>1. n > r.last /\ n <= win[w].to
    BY NewBarsRange, WindowTypes, RowFields DEF NewBars, Nums
  <2> QED BY <1>1, <2>1, RowFields, WindowTypes DEF Right, ClocksArePast, TypeOK, Nums
<1> HIDE DEF o, p, z
<1>6. /\ v \in Row /\ v # NoRow /\ v.signal = o.signal
      /\ v.status = "CLOSED" /\ v.exit = n /\ v.last = n /\ v.reason = z
      /\ v.seen = o.seen /\ v.tp1 = o.tp1 /\ v.torn = o.torn
  BY <1>1, <1>2, ClosedFields
<1> HIDE DEF v
<1>7. ASSUME Whole(v) PROVE OutcomeIs(p, v)
  <2>1. ~ o.torn /\ o.seen = n - r.signal
    BY <1>2, <1>3, <1>6, <1>7 DEF Whole
  <2>2. FirstTargetIs(p, v)
    BY <2>1, <1>3, <1>4, <1>6 DEF FirstTargetIs
  <2>3. NothingUpTo(p, v, n - 1)
    BY <2>1, <1>4, <1>6 DEF NothingUpTo
  <2>4. Ends(p[n]) /\ (z = "TP2" <=> ~ p[n].stop)
    BY <2>1, <1>2, <1>4
  <2> QED BY <2>2, <2>3, <2>4, <1>2, <1>6 DEF OutcomeIs
<1>8. Right(p, clock, v)
  <2>1. v.status \in {"OPEN", "CLOSED"} /\ v.status # "OPEN"
    BY <1>6
  <2>2. v.signal <= v.last /\ v.last <= clock /\ v.exit \in v.signal + 1 .. v.last
    BY <1>1, <1>3, <1>5, <1>6 DEF Nums
  <2>3. Whole(v) => OutcomeIs(p, v)
    BY <1>7
  <2> QED BY <2>1, <2>2, <2>3, Zenon DEF Right
<1> QED BY <1>3, <1>6, <1>8 DEF o, p, v, z

\* A row whose last bar is x is closed at x.
LEMMA ClosedAtLast ==
    ASSUME NEW o \in Row, NEW x \in Nums, NEW z \in Reasons, o.last = x
    PROVE  [o EXCEPT !.status = "CLOSED", !.exit = x, !.reason = z] = Closed(o, x, x, z)
BY DEF Closed, Row

\* A row that no new bar ends is closed when its horizon is over, and stays
\* OPEN only while the last bar of its horizon is to come.  When no bar was new
\* it missed one, as it would have been closed with the last bar.
LEMMA TimeExitIsRight ==
    ASSUME TypeOK, ClocksArePast, NEW w \in Workers, NEW e \in Events,
           NEW r \in Row, r # NoRow, r.status = "OPEN", win[w].to <= now[w],
           Right(path[e], clock, r),
           \A b \in NewBars(w, r) : ~ Ends(Seen(w, e, b))
    PROVE  LET v == TimeExit(w, e, r)
           IN  v \in Row /\ v # NoRow /\ v.signal = r.signal /\ Right(path[e], clock, v)
<1> DEFINE n == LastNew(w, r)
           o == IF NewBars(w, r) = {} THEN r ELSE Observed(w, e, r, n)
           p == path[e]
           over == Eligible(w, r) # {} /\ now[w] >= Expiry(r)
           v == Closed(o, n, n, "TIME_EXIT")
<1>1. TimeExit(w, e, r) = IF over THEN v ELSE o
  BY DEF TimeExit, Closed
<1>2. /\ r.signal \in Nat /\ r.last \in Nat /\ r.seen \in Int
      /\ r.signal <= r.last /\ r.last <= clock
      /\ r.reason = "NONE" /\ r.seen <= r.last - r.signal
      /\ r.last < Expiry(r) /\ (Whole(r) => OutcomeIs(p, r))
  BY RowFields DEF Right, Nums
<1>3. /\ n \in Nums /\ n \in Nat /\ FirstNew(w, r) \in Nat /\ FirstNew(w, r) > r.last
      /\ n <= win[w].to /\ n <= Expiry(r) /\ (n = win[w].to \/ n = Expiry(r))
      /\ Expiry(r) \in Nat /\ Expiry(r) = r.signal + Horizon
      /\ win[w].to \in Nat /\ now[w] \in Nat /\ n <= clock
  <2>1. n \in Nums /\ FirstNew(w, r) \in Nat /\ FirstNew(w, r) > r.last
    BY NewBarsRange
  <2>2. n <= win[w].to /\ n <= Expiry(r) /\ (n = win[w].to \/ n = Expiry(r))
    BY NewBarsRange
  <2>3. Expiry(r) \in Nat /\ Expiry(r) = r.signal + Horizon
    BY WindowTypes DEF Expiry
  <2>4. win[w].to \in Nat /\ now[w] \in Nat /\ clock \in Nat /\ win[w].to <= clock
    BY WindowTypes DEF TypeOK, Nums, ClocksArePast
  <2> QED BY <2>1, <2>2, <2>3, <2>4 DEF Nums
<1>4. CASE NewBars(w, r) = {}
  <2>1. o = r
    BY <1>4
  <2>2. CASE over
    <3>1. v \in Row /\ v # NoRow /\ v.signal = r.signal /\ v.status = "CLOSED"
          /\ v.exit = n /\ v.last = n /\ v.reason = "TIME_EXIT" /\ v.seen = r.seen
      BY <1>3, <2>1, ClosedFields DEF Reasons
    <3>2. r.signal <= n
      BY <1>2, <1>3, <2>2, WindowTypes DEF Eligible, LastNew, Larger, Smaller
    <3>3. ~ Whole(v)
      BY <1>2, <1>3, <3>1 DEF Whole
    <3>4. Right(p, clock, v)
      BY <3>1, <3>2, <3>3, <1>2, <1>3 DEF Right, Touched
    <3> QED BY <3>1, <3>4, <2>2, <1>1
  <2>3. CASE ~ over
    BY <2>3, <2>1, <1>1
  <2> QED BY <2>2, <2>3
<1>5. CASE NewBars(w, r) # {}
  <2>1. n \in NewBars(w, r) /\ n > r.last
    BY <1>2, <1>3, <1>5 DEF NewBars
  <2>2. o = Observed(w, e, r, n) /\ o \in Row
    BY <1>5, <2>1, ObservedType
  <2>3. \A b \in FirstNew(w, r) .. n : ~ Ends(Seen(w, e, b))
    BY DEF NewBars
  <2>4. /\ o.seen <= n - r.signal
        /\ ~ o.torn /\ o.seen = n - r.signal =>
              /\ FirstTargetIs(p, o)
              /\ NothingUpTo(p, o, n - 1)
              /\ Seen(w, e, n) = p[n]
    <3>1. \A b \in FirstNew(w, r) .. n - 1 : ~ Ends(Seen(w, e, b))
      BY <2>3, <1>3
    <3> QED BY <2>1, <2>2, <3>1, ObservedIsRight
  <2>5. /\ o.signal = r.signal /\ o.last = n /\ o.status = "OPEN"
        /\ o.reason = "NONE" /\ o.exit = r.exit /\ o.seen \in Int
    BY <2>2, <1>2, ObservedFields, RowFields
  <2>6. ASSUME ~ o.torn, o.seen = n - r.signal
        PROVE  FirstTargetIs(p, o) /\ NothingUpTo(p, o, n)
    <3>1. ~ Ends(p[n])
      BY <2>6, <2>1, <2>3, <2>4 DEF NewBars
    <3> QED BY <2>6, <2>4, <2>5, <3>1, <1>2, <1>3 DEF NothingUpTo
  <2> HIDE DEF o
  <2>7. CASE over
    <3>1. v \in Row /\ v # NoRow /\ v.signal = o.signal /\ v.status = "CLOSED"
          /\ v.exit = n /\ v.last = n /\ v.reason = "TIME_EXIT" /\ v.seen = o.seen
          /\ v.tp1 = o.tp1 /\ v.torn = o.torn
      <4>1. o \in Row /\ n \in Nums /\ "TIME_EXIT" \in Reasons
        BY <1>3, <2>2 DEF Reasons
      <4>2. v = Closed(o, n, n, "TIME_EXIT")
        OBVIOUS
      <4> HIDE DEF v, o
      <4> QED BY <4>1, <4>2, ClosedFields
    <3> HIDE DEF v
    <3>2. ASSUME Whole(v) PROVE OutcomeIs(p, v)
      <4>1. ~ o.torn /\ o.seen = n - r.signal
        BY <3>1, <3>2, <2>4, <2>5, <1>2, <1>3, BoundsAssumption DEF Whole
      <4>2. FirstTargetIs(p, v) /\ NothingUpTo(p, v, v.last)
        BY <4>1, <2>5, <2>6, <3>1 DEF FirstTargetIs, NothingUpTo
      <4> QED BY <4>2, <3>1 DEF OutcomeIs
    <3>3. v.signal <= v.last /\ v.last <= clock
      BY <3>1, <2>1, <2>5, <1>2, <1>3
    <3>4. Right(p, clock, v)
      <4>1. v.status \in {"OPEN", "CLOSED"} /\ v.status # "OPEN" /\ v.reason \notin Touched
        BY <3>1 DEF Touched
      <4>2. Whole(v) => OutcomeIs(p, v)
        BY <3>2
      <4> QED BY <3>3, <4>1, <4>2, Zenon DEF Right
    <3> QED BY <3>1, <3>4, <2>5, <2>7, <1>1 DEF v
  <2>8. CASE ~ over
    <3>1. n < Expiry(r)
      <4>1. r.signal + 1 <= n /\ win[w].from <= n
        BY <1>2, <1>3, <2>1, WindowTypes DEF NewBars, FirstNew, Larger
      <4>2. n \in Eligible(w, r)
        BY <4>1, <1>2, <1>3, WindowTypes DEF Eligible, LastNew, Larger, Smaller
      <4> QED BY <4>2, <2>8, <1>3
    <3>2. Expiry(o) = Expiry(r)
      BY <2>5 DEF Expiry
    <3>3. o # NoRow
      BY <2>5 DEF NoRow
    <3>4. ASSUME Whole(o) PROVE OutcomeIs(p, o)
      <4>1. FirstTargetIs(p, o) /\ NothingUpTo(p, o, n)
        BY <3>4, <2>5, <2>6 DEF Whole
      <4> QED BY <4>1, <2>5 DEF OutcomeIs
    <3>5. o.signal <= o.last /\ o.last <= clock
      BY <2>1, <2>5, <1>2, <1>3
    <3>6. o.seen <= o.last - o.signal /\ o.last < Expiry(o)
      BY <2>4, <2>5, <3>1, <3>2
    <3>7. Whole(o) => OutcomeIs(p, o)
      BY <3>4
    <3>8. o.reason \notin Touched
      BY <2>5 DEF Touched
    <3>9. Right(p, clock, o)
      BY <3>5, <3>6, <3>7, <3>8, <2>5, Zenon DEF Right
    <3> QED BY <3>3, <3>9, <2>2, <2>5, <2>8, <1>1
  <2> QED BY <2>7, <2>8
<1> QED BY <1>4, <1>5

\* One evaluation of an OPEN row that is right.
LEMMA EvaluateIsRight ==
    ASSUME TypeOK, ClocksArePast, NEW w \in Workers, NEW e \in Events,
           NEW r \in Row, r # NoRow, r.status = "OPEN", win[w].to <= now[w],
           Right(path[e], clock, r)
    PROVE  LET v == Evaluate(w, e, r)
           IN  v \in Row /\ v # NoRow /\ v.signal = r.signal /\ Right(path[e], clock, v)
<1> DEFINE S == {b \in NewBars(w, r) : Ends(Seen(w, e, b))}
           n == CHOOSE x \in S : \A y \in S : x <= y
           z == Verdict(Seen(w, e, n))
<1>1. Evaluate(w, e, r) =
          IF S = {} THEN TimeExit(w, e, r)
          ELSE [Observed(w, e, r, n) EXCEPT !.status = "CLOSED", !.exit = n, !.reason = z]
  BY DEF Evaluate
<1>2. CASE S = {}
  BY <1>1, <1>2, TimeExitIsRight
<1>3. CASE S # {}
  <2>1. S \subseteq Nat
    BY NewBarsRange DEF NewBars, Nums
  <2>2. n \in S /\ \A y \in S : n <= y
    <3> HIDE DEF S
    <3>1. \E x \in S : \A y \in S : x <= y
      BY <2>1, <1>3, LeastExists
    <3> QED BY <3>1
  <2> HIDE DEF n
  <2>3. n \in NewBars(w, r) /\ Ends(Seen(w, e, n)) /\ n \in Nat
    BY <2>1, <2>2
  <2>4. \A b \in FirstNew(w, r) .. n - 1 : ~ Ends(Seen(w, e, b))
    BY <2>2, <2>3, NewBarsRange DEF NewBars, Nums
  <2>5. Observed(w, e, r, n) \in Row /\ n \in Nums /\ Observed(w, e, r, n).last = n
    BY <2>3, ObservedType, ObservedFields
  <2>6. z \in Reasons
    BY DEF Verdict, Reasons
  <2>7. Evaluate(w, e, r) = Closed(Observed(w, e, r, n), n, n, z)
    BY <1>1, <1>3, <2>5, <2>6, ClosedAtLast
  <2>8. Evaluate(w, e, r) # NoRow
    BY <2>5, <2>6, <2>7, ClosedFields
  <2> QED BY <2>3, <2>4, <2>7, <2>8, EndedIsRight
<1> QED BY <1>2, <1>3

-----------------------------------------------------------------------------
(* What other steps leave alone *)

\* A bar that closes changes nothing that a row says.
LEMMA RightLasts ==
    ASSUME NEW r \in Row, NEW c \in Nat, NEW p, NEW q,
           \A b \in 1..c : q[b] = p[b], Right(p, c, r)
    PROVE  Right(q, c + 1, r)
<1>1. CASE r = NoRow
  BY <1>1 DEF Right
<1>2. CASE r # NoRow
  <2>1. /\ r.status \in {"OPEN", "CLOSED"}
        /\ r.signal <= r.last /\ r.last <= c
        /\ r.reason \in Touched => r.exit \in r.signal + 1 .. r.last
        /\ r.status = "OPEN" =>
              r.reason = "NONE" /\ r.seen <= r.last - r.signal /\ r.last < Expiry(r)
        /\ Whole(r) => OutcomeIs(p, r)
    BY <1>2 DEF Right
  <2>2. r.signal \in Nat /\ r.last \in Nat
    BY RowFields DEF Nums
  <2>3. \A b \in r.signal + 1 .. r.last : q[b] = p[b]
    BY <2>1, <2>2
  <2>4. ASSUME OutcomeIs(p, r) PROVE OutcomeIs(q, r)
    <3>1. FirstTargetIs(q, r)
      BY <2>3, <2>4 DEF OutcomeIs, FirstTargetIs, TouchesAt
    <3>2. NothingUpTo(p, r, r.last) => NothingUpTo(q, r, r.last)
      BY <2>3 DEF NothingUpTo
    <3>3. ASSUME r.reason \in Touched
          PROVE  /\ NothingUpTo(q, r, r.exit - 1)
                 /\ Ends(q[r.exit])
                 /\ r.reason = "TP2" <=> ~ q[r.exit].stop
      <4>1. /\ NothingUpTo(p, r, r.exit - 1) /\ Ends(p[r.exit])
            /\ r.reason = "TP2" <=> ~ p[r.exit].stop
        BY <3>3, <2>4 DEF OutcomeIs, Touched
      <4>2. q[r.exit] = p[r.exit]
        BY <3>3, <2>1, <2>3
      <4>3. \A b \in r.signal + 1 .. r.exit - 1 : q[b] = p[b]
        BY <3>3, <2>1, <2>2, <2>3
      <4> QED BY <4>1, <4>2, <4>3 DEF NothingUpTo
    <3> QED BY <3>1, <3>2, <3>3, <2>4 DEF OutcomeIs, Touched
  <2>5. r.last <= c + 1
    BY <2>1, <2>2
  <2> QED BY <2>1, <2>4, <2>5, Zenon DEF Right
<1> QED BY <1>1, <1>2

\* A row that is just inserted is right, whatever the bars after it do.
LEMMA NewRowIsRight ==
    ASSUME TypeOK, ClocksArePast, NEW w \in Workers, NEW p
    PROVE  /\ NewRow(w) \in Row /\ NewRow(w) # NoRow
           /\ NewRow(w).status = "OPEN" /\ NewRow(w).signal = win[w].to
           /\ Right(p, clock, NewRow(w))
<1>1. win[w].to \in Nums
  BY DEF TypeOK
<1>2. NewRow(w) = [signal |-> win[w].to, status |-> "OPEN", last |-> win[w].to,
                   seen |-> 0, tp1 |-> 0, exit |-> 0, reason |-> "NONE",
                   torn |-> FALSE]
  <2>1. PICK z \in Row : z = NoRow
    BY NoRowType
  <2>2. NewRow(w) = [z EXCEPT !.signal = win[w].to, !.status = "OPEN", !.last = win[w].to]
    BY <2>1 DEF NewRow
  <2>3. NewRow(w) = [signal |-> win[w].to, status |-> "OPEN", last |-> win[w].to,
                     seen |-> z.seen, tp1 |-> z.tp1, exit |-> z.exit,
                     reason |-> z.reason, torn |-> z.torn]
    BY <2>2 DEF Row
  <2> QED BY <2>1, <2>3 DEF NoRow
<1>3. NewRow(w) \in Row /\ NewRow(w) # NoRow
  BY <1>1, <1>2, BoundsAssumption DEF Row, NoRow, Nums, Reasons
<1>4. OutcomeIs(p, NewRow(w))
  BY <1>1, <1>2 DEF OutcomeIs, FirstTargetIs, NothingUpTo, Nums
<1>5. win[w].to < Expiry(NewRow(w)) /\ win[w].to <= clock
  BY <1>1, <1>2, BoundsAssumption DEF Expiry, ClocksArePast, Nums
<1>6. Right(p, clock, NewRow(w))
  BY <1>1, <1>2, <1>4, <1>5 DEF Right, Touched, Nums
<1> QED BY <1>2, <1>3, <1>6

-----------------------------------------------------------------------------
(* Every step keeps the invariant *)

\* A new bar keeps the invariant of the journal.
LEMMA TickKeeps == JournalInv /\ Tick => JournalInv'
<1> SUFFICES ASSUME JournalInv, Tick PROVE JournalInv'
  OBVIOUS
<1>1. PICK p \in [Events -> Bars] :
          path' = [e \in Events |-> [path[e] EXCEPT ![clock + 1] = p[e]]]
  BY DEF Tick
<1>2. /\ clock' = clock + 1 /\ clock < LastBar /\ clock \in Nat
      /\ UNCHANGED <<rows, active, pc, win, part, now, mine, read>>
  BY DEF Tick, JournalInv, TypeOK, Nums
<1>3. TypeOK'
  <2>1. clock' \in Nums
    BY <1>2, BoundsAssumption DEF Nums
  <2>2. path' \in [Events -> [1..LastBar -> Bar]]
    <3>1. \A e \in Events : p[e] \in Bar /\ path[e] \in [1..LastBar -> Bar]
      BY BarsAssumption DEF JournalInv, TypeOK
    <3> QED BY <1>1, <3>1
  <2> QED BY <2>1, <2>2, <1>2 DEF JournalInv, TypeOK
<1>4. ClocksArePast'
  BY <1>2 DEF JournalInv, ClocksArePast, TypeOK, Nums
<1>5. RowsAreRight'
  <2> SUFFICES ASSUME NEW e \in Events, NEW w \in Workers
               PROVE  Right(path'[e], clock + 1, rows[e])
                      /\ Right(path'[e], clock + 1, read[w][e])
    <3>1. \A e \in Events : Right(path'[e], clock + 1, rows[e])
      <4> SUFFICES ASSUME NEW e \in Events
                   PROVE  Right(path'[e], clock + 1, rows[e])
        OBVIOUS
      <4>1. \A b \in 1..clock : path'[e][b] = path[e][b]
        BY <1>1, <1>2 DEF JournalInv, TypeOK
      <4>2. Right(path[e], clock, rows[e]) /\ rows[e] \in Row
        BY DEF JournalInv, RowsAreRight, TypeOK
      <4> QED BY <4>1, <4>2, <1>2, RightLasts
    <3> QED BY <3>1, <1>2 DEF RowsAreRight
  <2>1. \A b \in 1..clock : path'[e][b] = path[e][b]
    BY <1>1, <1>2 DEF JournalInv, TypeOK
  <2>2. /\ Right(path[e], clock, rows[e]) /\ rows[e] \in Row
        /\ Right(path[e], clock, read[w][e]) /\ read[w][e] \in Row
    BY DEF JournalInv, RowsAreRight, TypeOK
  <2> QED BY <2>1, <2>2, <1>2, RightLasts
<1>6. ReadRowsAreOpen' /\ OneInserter'
  BY <1>2 DEF JournalInv, ReadRowsAreOpen, OneInserter
<1> QED BY <1>3, <1>4, <1>5, <1>6 DEF JournalInv

\* A fetch starts a run that has inserted nothing yet.
LEMMA FetchKeeps ==
    ASSUME JournalInv, NEW w \in Workers, FetchFails(w) \/ Fetch(w) \/ FetchTorn(w)
    PROVE  JournalInv'
<1>1. /\ pc[w] = "idle" /\ pc' = [pc EXCEPT ![w] = "persist"]
      /\ UNCHANGED <<clock, path, rows, active, now, mine, read>>
  BY DEF FetchFails, Fetch, FetchTorn, Fetched, Goto
<1>2. PICK i \in [from : Nat \ {0}, to : Nums, torn : BOOLEAN] :
          i.to <= clock /\ win' = [win EXCEPT ![w] = i]
  <2>1. clock \in Nums /\ clock \in Nat /\ 0 \in Nums
    BY BoundsAssumption DEF JournalInv, TypeOK, Nums
  <2>2. CASE FetchFails(w)
    <3>1. NoBars \in [from : Nat \ {0}, to : Nums, torn : BOOLEAN] /\ NoBars.to <= clock
      BY <2>1 DEF NoBars
    <3> QED BY <2>2, <3>1 DEF FetchFails
  <2>3. ASSUME NEW t \in BOOLEAN, Fetched(w, t)
        PROVE  \E i \in [from : Nat \ {0}, to : Nums, torn : BOOLEAN] :
                   i.to <= clock /\ win' = [win EXCEPT ![w] = i]
    <3>1. Larger(1, clock - Window + 1) \in Nat \ {0}
      BY <2>1, BoundsAssumption DEF Larger
    <3> DEFINE i == [from |-> Larger(1, clock - Window + 1), to |-> clock, torn |-> t]
    <3>2. i \in [from : Nat \ {0}, to : Nums, torn : BOOLEAN] /\ i.to <= clock
      BY <2>1, <3>1
    <3>3. win' = [win EXCEPT ![w] = i]
      BY <2>3 DEF Fetched
    <3> QED BY <3>2, <3>3
  <2> QED BY <2>2, <2>3 DEF Fetch, FetchTorn
<1>3. part' \in [Workers -> [Events -> Bar]]
  <2>1. \A q \in [Events -> Bars] : q \in [Events -> Bar]
    BY BarsAssumption
  <2> QED BY <2>1 DEF FetchFails, Fetch, FetchTorn, JournalInv, TypeOK
<1>4. TypeOK'
  BY <1>1, <1>2, <1>3 DEF JournalInv, TypeOK, Labels
<1>5. ClocksArePast'
  BY <1>1, <1>2 DEF JournalInv, ClocksArePast, TypeOK
<1>6. RowsAreRight' /\ ReadRowsAreOpen'
  BY <1>1 DEF JournalInv, RowsAreRight, ReadRowsAreOpen
<1>7. OneInserter'
  <2>1. \A v \in Workers, e \in Events : mine[v] = e => v # w
    BY <1>1, EventsAssumption DEF JournalInv, OneInserter
  <2> QED BY <1>1, <1>2, <2>1 DEF JournalInv, OneInserter, TypeOK
<1> QED BY <1>4, <1>5, <1>6, <1>7 DEF JournalInv

\* The transaction begins: the clock is read, and perhaps a signal inserted.
LEMMA InsertKeeps ==
    ASSUME JournalInv, NEW w \in Workers,
           NoSignal(w) \/ \E e \in Events : InsertSignal(w, e)
    PROVE  JournalInv'
<1>1. /\ pc[w] = "persist" /\ pc' = [pc EXCEPT ![w] = "select"]
      /\ now' = [now EXCEPT ![w] = clock]
      /\ UNCHANGED <<clock, path, rows, active, win, part, read>>
  BY DEF NoSignal, InsertSignal, Goto
<1>2. mine[w] = 0
  BY <1>1 DEF JournalInv, OneInserter
<1>3. PICK m \in Events \cup {0} :
          /\ mine' = [mine EXCEPT ![w] = m]
          /\ m \in Events => /\ rows[m] = NoRow /\ win[w].to > 0
                             /\ \A v \in Workers : mine[v] # m
  <2>1. CASE NoSignal(w)
    <3>1. mine' = [mine EXCEPT ![w] = 0]
      BY <2>1, <1>2 DEF NoSignal, JournalInv, TypeOK
    <3> QED BY <3>1, EventsAssumption
  <2>2. ASSUME NEW e \in Events, InsertSignal(w, e)
        PROVE  \E m \in Events \cup {0} :
                   /\ mine' = [mine EXCEPT ![w] = m]
                   /\ m \in Events => /\ rows[m] = NoRow /\ win[w].to > 0
                                      /\ \A v \in Workers : mine[v] # m
    <3>1. win[w].to > 0
      BY <2>2 DEF InsertSignal, JournalInv, TypeOK, Nums
    <3>2. CASE rows[e] = NoRow
      BY <2>2, <3>1, <3>2 DEF InsertSignal
    <3>3. CASE rows[e] # NoRow
      BY <2>2, <3>3, EventsAssumption DEF InsertSignal
    <3> QED BY <3>2, <3>3
  <2> QED BY <2>1, <2>2
<1>4. TypeOK'
  BY <1>1, <1>3 DEF JournalInv, TypeOK, Labels
<1>5. ClocksArePast'
  BY <1>1 DEF JournalInv, ClocksArePast, TypeOK, Nums
<1>6. RowsAreRight'
  BY <1>1 DEF JournalInv, RowsAreRight
<1>7. ReadRowsAreOpen'
  <2>1. \A e \in Events : mine[w] # e
    BY <1>2, EventsAssumption
  <2> QED BY <1>1, <1>3, <2>1 DEF JournalInv, ReadRowsAreOpen, TypeOK
<1>8. OneInserter'
  BY <1>1, <1>3 DEF JournalInv, OneInserter, TypeOK
<1> QED BY <1>4, <1>5, <1>6, <1>7, <1>8 DEF JournalInv

\* A run that selects its rows keeps the invariant of the journal.
LEMMA SelectKeeps ==
    ASSUME JournalInv, NEW w \in Workers, SelectOpen(w)
    PROVE  JournalInv'
<1> DEFINE sel(e) == IF Visible(w)[e].status = "OPEN" THEN Visible(w)[e] ELSE NoRow
<1>1. /\ pc[w] = "select" /\ pc' = [pc EXCEPT ![w] = "save"]
      /\ read' = [read EXCEPT ![w] = [e \in Events |-> sel(e)]]
      /\ UNCHANGED <<clock, path, rows, active, win, part, now, mine>>
  BY DEF SelectOpen, Goto
<1>2. ASSUME NEW e \in Events
      PROVE  /\ sel(e) \in Row /\ Right(path[e], clock, sel(e))
             /\ sel(e) # NoRow =>
                   /\ sel(e).status = "OPEN"
                   /\ mine[w] # e => rows[e] # NoRow /\ rows[e].signal = sel(e).signal
  <2>1. Visible(w)[e] = IF mine[w] = e THEN NewRow(w) ELSE rows[e]
    BY DEF Visible
  <2>2. /\ Visible(w)[e] \in Row /\ Right(path[e], clock, Visible(w)[e])
    BY <2>1, NewRowIsRight DEF JournalInv, TypeOK, RowsAreRight
  <2>3. Right(path[e], clock, NoRow)
    BY DEF Right
  <2>4. NoRow.status # "OPEN"
    BY DEF NoRow
  <2> QED BY <2>1, <2>2, <2>3, <2>4, NoRowType
<1> HIDE DEF sel
<1>3. TypeOK'
  BY <1>1, <1>2 DEF JournalInv, TypeOK, Labels
<1>4. ClocksArePast'
  BY <1>1 DEF JournalInv, ClocksArePast, TypeOK
<1>5. RowsAreRight'
  BY <1>1, <1>2 DEF JournalInv, RowsAreRight, TypeOK
<1>6. ReadRowsAreOpen'
  BY <1>1, <1>2 DEF JournalInv, ReadRowsAreOpen, TypeOK
<1>7. OneInserter'
  BY <1>1 DEF JournalInv, OneInserter, TypeOK
<1> QED BY <1>3, <1>4, <1>5, <1>6, <1>7 DEF JournalInv

\* A run that ends forgets everything, and the other runs do not notice.
LEMMA EndRunEffect ==
    ASSUME TypeOK, NEW w \in Workers, EndRun(w)
    PROVE  /\ pc' = [pc EXCEPT ![w] = "idle"]
           /\ win' = [win EXCEPT ![w] = NoBars]
           /\ part' \in [Workers -> [Events -> Bar]]
           /\ now' = [now EXCEPT ![w] = 0]
           /\ mine' = [mine EXCEPT ![w] = 0]
           /\ read' = [read EXCEPT ![w] = [e \in Events |-> NoRow]]
           /\ NoBars \in [from : Nat \ {0}, to : Nums, torn : BOOLEAN] /\ NoBars.to = 0
           /\ 0 \in Nums /\ "idle" \in Labels
<1>1. Quiet \in [Events -> Bar]
  BY DEF Quiet, Bar
<1>2. part' \in [Workers -> [Events -> Bar]]
  BY <1>1 DEF EndRun, TypeOK
<1>3. 0 \in Nums /\ "idle" \in Labels
  BY BoundsAssumption DEF Nums, Labels
<1>4. NoBars \in [from : Nat \ {0}, to : Nums, torn : BOOLEAN] /\ NoBars.to = 0
  BY <1>3 DEF NoBars
<1> QED BY <1>2, <1>3, <1>4 DEF EndRun, Goto

\* What a run saves for a signal: a right row, with the entry of the stored
\* one, or no row when there is none and the run has inserted none.
LEMMA UpdatedIsRight ==
    ASSUME JournalInv, NEW w \in Workers, pc[w] = "save", NEW e \in Events
    PROVE  LET u == Updated(w)[e]
           IN  /\ u \in Row /\ Right(path[e], clock, u)
               /\ rows[e] # NoRow => u # NoRow /\ u.signal = rows[e].signal
               /\ rows[e] = NoRow /\ mine[w] # e => u = NoRow
<1> DEFINE r == read[w][e]
<1>1. Updated(w)[e] = IF r = NoRow THEN Visible(w)[e] ELSE Evaluate(w, e, r)
  BY DEF Updated
<1>2. Visible(w)[e] = IF mine[w] = e THEN NewRow(w) ELSE rows[e]
  BY DEF Visible
<1>3. mine[w] = e => rows[e] = NoRow
  BY DEF JournalInv, OneInserter
<1>4. CASE r = NoRow
  <2>1. rows[e] \in Row /\ Right(path[e], clock, rows[e])
    BY DEF JournalInv, TypeOK, RowsAreRight
  <2>2. NewRow(w) \in Row /\ Right(path[e], clock, NewRow(w))
    BY NewRowIsRight DEF JournalInv
  <2> QED BY <1>1, <1>2, <1>3, <1>4, <2>1, <2>2
<1>5. CASE r # NoRow
  <2>1. r \in Row /\ r.status = "OPEN" /\ Right(path[e], clock, r)
    BY <1>5 DEF JournalInv, TypeOK, RowsAreRight, ReadRowsAreOpen
  <2>2. win[w].to <= now[w]
    BY DEF JournalInv, ClocksArePast
  <2> DEFINE v == Evaluate(w, e, r)
  <2>3. v \in Row /\ v # NoRow /\ v.signal = r.signal /\ Right(path[e], clock, v)
    BY <1>5, <2>1, <2>2, EvaluateIsRight DEF JournalInv
  <2>4. mine[w] # e => rows[e] # NoRow /\ rows[e].signal = r.signal
    BY <1>5 DEF JournalInv, ReadRowsAreOpen
  <2> HIDE DEF v, r
  <2> QED BY <1>1, <1>3, <1>5, <2>3, <2>4 DEF v
<1> QED BY <1>4, <1>5

\* A run that saves keeps the invariant of the journal.
LEMMA SaveKeeps ==
    ASSUME JournalInv, NEW w \in Workers, Save(w)
    PROVE  JournalInv'
<1>1. /\ pc[w] = "save" /\ rows' = Updated(w)
      /\ active' = Cardinality(OpenRows(Updated(w)))
      /\ UNCHANGED <<clock, path>> /\ EndRun(w) /\ TypeOK
  BY DEF Save, JournalInv
<1>2. /\ pc' = [pc EXCEPT ![w] = "idle"]
      /\ win' = [win EXCEPT ![w] = NoBars]
      /\ part' \in [Workers -> [Events -> Bar]]
      /\ now' = [now EXCEPT ![w] = 0]
      /\ mine' = [mine EXCEPT ![w] = 0]
      /\ read' = [read EXCEPT ![w] = [e \in Events |-> NoRow]]
      /\ NoBars \in [from : Nat \ {0}, to : Nums, torn : BOOLEAN] /\ NoBars.to = 0
      /\ 0 \in Nums /\ "idle" \in Labels
  BY <1>1, EndRunEffect
<1>3. \A e \in Events :
          /\ rows'[e] \in Row /\ Right(path[e], clock, rows'[e])
          /\ rows[e] # NoRow => rows'[e] # NoRow /\ rows'[e].signal = rows[e].signal
          /\ rows[e] = NoRow /\ mine[w] # e => rows'[e] = NoRow
  BY <1>1, UpdatedIsRight
<1>4. TypeOK'
  <2>1. rows' \in [Events -> Row]
    <3>1. rows' = [e \in Events |-> rows'[e]]
      BY <1>1 DEF Updated
    <3> QED BY <1>3, <3>1
  <2>2. active' \in Nat
    <3>1. OpenRows(Updated(w)) \subseteq Events
      BY DEF OpenRows
    <3>2. IsFiniteSet(OpenRows(Updated(w)))
      BY <3>1, EventsAssumption, FS_Subset
    <3> QED BY <3>2, <1>1, FS_CardinalityType
  <2>3. read' \in [Workers -> [Events -> Row]]
    BY <1>1, <1>2, NoRowType DEF TypeOK
  <2>4. win' \in [Workers -> [from : Nat \ {0}, to : Nums, torn : BOOLEAN]]
    BY <1>1, <1>2 DEF TypeOK
  <2>5. /\ clock' \in Nums /\ path' \in [Events -> [1..LastBar -> Bar]]
        /\ pc' \in [Workers -> Labels]
        /\ now' \in [Workers -> Nums] /\ mine' \in [Workers -> Events \cup {0}]
    BY <1>1, <1>2 DEF TypeOK
  <2> QED BY <1>2, <2>1, <2>2, <2>3, <2>4, <2>5 DEF TypeOK
<1>5. ClocksArePast'
  <2>1. 0 <= clock
    BY DEF JournalInv, TypeOK, Nums
  <2> QED BY <1>1, <1>2, <2>1 DEF JournalInv, ClocksArePast, TypeOK
<1>6. RowsAreRight'
  <2>1. \A v \in Workers, e \in Events : read'[v][e] = read[v][e] \/ read'[v][e] = NoRow
    BY <1>1, <1>2 DEF TypeOK
  <2>2. \A e \in Events : Right(path[e], clock, NoRow)
    BY DEF Right
  <2>3. \A v \in Workers, e \in Events : Right(path[e], clock, read[v][e])
    BY DEF JournalInv, RowsAreRight
  <2>4. \A v \in Workers, e \in Events : Right(path[e], clock, read'[v][e])
    BY <2>1, <2>2, <2>3
  <2> QED BY <1>1, <1>3, <2>4 DEF RowsAreRight
<1>7. ReadRowsAreOpen'
  <2> SUFFICES ASSUME NEW v \in Workers, NEW e \in Events, read'[v][e] # NoRow
               PROVE  /\ read'[v][e].status = "OPEN"
                      /\ mine'[v] # e =>
                            rows'[e] # NoRow /\ rows'[e].signal = read'[v][e].signal
    BY DEF ReadRowsAreOpen
  <2>1. v # w /\ read'[v][e] = read[v][e] /\ mine'[v] = mine[v]
    BY <1>1, <1>2 DEF TypeOK
  <2>2. /\ read[v][e].status = "OPEN"
        /\ mine[v] # e => rows[e] # NoRow /\ rows[e].signal = read[v][e].signal
    BY <2>1 DEF JournalInv, ReadRowsAreOpen
  <2> QED BY <2>1, <2>2, <1>3
<1>8. OneInserter'
  <2>1. \A v \in Workers : v # w => mine'[v] = mine[v] /\ pc'[v] = pc[v] /\ win'[v] = win[v]
    BY <1>1, <1>2 DEF TypeOK
  <2>2. mine'[w] = 0 /\ \A e \in Events : e # 0
    BY <1>1, <1>2, EventsAssumption DEF TypeOK
  <2>3. ASSUME NEW v \in Workers, NEW e \in Events, mine'[v] = e
        PROVE  /\ rows'[e] = NoRow /\ win'[v].to > 0
               /\ \A x \in Workers : mine'[x] = e => x = v
    <3>1. v # w /\ mine[v] = e
      BY <2>1, <2>2, <2>3
    <3>2. /\ rows[e] = NoRow /\ win[v].to > 0
          /\ \A x \in Workers : mine[x] = e => x = v
      BY <3>1 DEF JournalInv, OneInserter
    <3>3. mine[w] # e
      BY <3>1, <3>2
    <3> QED BY <3>1, <3>2, <3>3, <1>3, <2>1, <2>2
  <2>4. \A v \in Workers : pc'[v] \in {"idle", "persist"} => mine'[v] = 0
    BY <2>1, <2>2 DEF JournalInv, OneInserter
  <2> QED BY <2>3, <2>4 DEF OneInserter
<1> QED BY <1>4, <1>5, <1>6, <1>7, <1>8 DEF JournalInv

\* A transaction that is rolled back leaves no trace.
LEMMA CrashKeeps ==
    ASSUME JournalInv, NEW w \in Workers, Crash(w)
    PROVE  JournalInv'
<1>1. UNCHANGED <<clock, path, rows, active>> /\ EndRun(w) /\ TypeOK
  BY DEF Crash, JournalInv
<1>2. /\ pc' = [pc EXCEPT ![w] = "idle"]
      /\ win' = [win EXCEPT ![w] = NoBars]
      /\ part' \in [Workers -> [Events -> Bar]]
      /\ now' = [now EXCEPT ![w] = 0]
      /\ mine' = [mine EXCEPT ![w] = 0]
      /\ read' = [read EXCEPT ![w] = [e \in Events |-> NoRow]]
      /\ NoBars \in [from : Nat \ {0}, to : Nums, torn : BOOLEAN] /\ NoBars.to = 0
      /\ 0 \in Nums /\ "idle" \in Labels
  BY <1>1, EndRunEffect
<1>3. TypeOK'
  <2>1. read' \in [Workers -> [Events -> Row]]
    BY <1>1, <1>2, NoRowType DEF TypeOK
  <2>2. win' \in [Workers -> [from : Nat \ {0}, to : Nums, torn : BOOLEAN]]
    BY <1>1, <1>2 DEF TypeOK
  <2>3. /\ pc' \in [Workers -> Labels]
        /\ now' \in [Workers -> Nums] /\ mine' \in [Workers -> Events \cup {0}]
    BY <1>1, <1>2 DEF TypeOK
  <2> QED BY <1>1, <1>2, <2>1, <2>2, <2>3 DEF TypeOK
<1>4. ClocksArePast'
  <2>1. 0 <= clock
    BY <1>1 DEF TypeOK, Nums
  <2> QED BY <1>1, <1>2, <2>1 DEF JournalInv, ClocksArePast, TypeOK
<1>5. RowsAreRight'
  <2>1. \A v \in Workers, e \in Events : read'[v][e] = read[v][e] \/ read'[v][e] = NoRow
    BY <1>1, <1>2 DEF TypeOK
  <2>2. \A e \in Events : Right(path[e], clock, NoRow)
    BY DEF Right
  <2> QED BY <1>1, <2>1, <2>2 DEF JournalInv, RowsAreRight
<1>6. ReadRowsAreOpen'
  BY <1>1, <1>2 DEF JournalInv, ReadRowsAreOpen, TypeOK
<1>7. OneInserter'
  <2>1. \A v \in Workers : v # w => mine'[v] = mine[v] /\ pc'[v] = pc[v] /\ win'[v] = win[v]
    BY <1>1, <1>2 DEF TypeOK
  <2>2. mine'[w] = 0 /\ \A e \in Events : e # 0
    BY <1>1, <1>2, EventsAssumption DEF TypeOK
  <2> QED BY <1>1, <2>1, <2>2 DEF JournalInv, OneInserter
<1> QED BY <1>3, <1>4, <1>5, <1>6, <1>7 DEF JournalInv

-----------------------------------------------------------------------------
(* Theorems *)

\* The empty journal satisfies its invariant.
LEMMA InitHolds == Init => JournalInv
<1> SUFFICES ASSUME Init PROVE JournalInv
  OBVIOUS
<1>1. 0 \in Nums /\ clock = 0
  BY BoundsAssumption DEF Init, Nums
<1>2. Quiet \in [Events -> Bar]
  BY DEF Quiet, Bar
<1>3. NoBars \in [from : Nat \ {0}, to : Nums, torn : BOOLEAN] /\ NoBars.to = 0
  BY <1>1 DEF NoBars
<1>4. TypeOK
  BY <1>1, <1>2, <1>3, NoRowType DEF Init, TypeOK, Labels
<1>5. ClocksArePast
  BY <1>3 DEF Init, ClocksArePast
<1>6. RowsAreRight /\ ReadRowsAreOpen
  BY DEF Init, RowsAreRight, ReadRowsAreOpen, Right
<1>7. OneInserter
  BY EventsAssumption DEF Init, OneInserter
<1> QED BY <1>4, <1>5, <1>6, <1>7 DEF JournalInv

\* In every state of overlapping runs the rows in the table, and those a run
\* has selected, are right about the bars that closed (journal_core.py,
\* persist_day_journal).
THEOREM JournalSafety == Spec => []JournalInv
<1>1. JournalInv /\ [Next]_vars => JournalInv'
  <2> SUFFICES ASSUME JournalInv, [Next]_vars PROVE JournalInv'
    OBVIOUS
  <2>1. CASE Tick
    BY <2>1, TickKeeps
  <2>2. ASSUME NEW w \in Workers, Step(w) PROVE JournalInv'
    <3>1. CASE FetchFails(w) \/ Fetch(w) \/ FetchTorn(w)
      BY <3>1, FetchKeeps
    <3>2. CASE NoSignal(w) \/ \E e \in Events : InsertSignal(w, e)
      BY <3>2, InsertKeeps
    <3>3. CASE SelectOpen(w)
      BY <3>3, SelectKeeps
    <3>4. CASE Save(w)
      BY <3>4, SaveKeeps
    <3>5. CASE Crash(w)
      BY <3>5, CrashKeeps
    <3> QED BY <2>2, <3>1, <3>2, <3>3, <3>4, <3>5 DEF Step
  <2>3. CASE UNCHANGED vars
    BY <2>3 DEF vars, JournalInv, TypeOK, ClocksArePast, RowsAreRight,
                ReadRowsAreOpen, OneInserter
  <2> QED BY <2>1, <2>2, <2>3 DEF Next
<1> QED BY <1>1, InitHolds, PTL DEF Spec

\* Every state is well typed.
THEOREM Typing == Spec => []TypeOK
<1>1. JournalInv => TypeOK
  BY DEF JournalInv
<1> QED BY <1>1, JournalSafety, PTL

\* The piecewise evaluation agrees with one look at all bars, however many runs
\* overlap (journal_core.py, evaluate_signal_row).
THEOREM OutcomeIsFirstTouchHolds == Spec => []OutcomeIsFirstTouch
<1>1. JournalInv => OutcomeIsFirstTouch
  BY DEF JournalInv, RowsAreRight, Right, OutcomeIsFirstTouch
<1> QED BY <1>1, JournalSafety, PTL

\* The first recording of a breakout stays (journal_core.py, insert_signal).
THEOREM SignalIsImmutableHolds == Spec => SignalIsImmutable
<1> DEFINE A == \A e \in Events :
               rows[e] # NoRow => rows'[e] # NoRow /\ rows'[e].signal = rows[e].signal
<1>1. JournalInv /\ [Next]_vars => [A]_vars
  <2> SUFFICES ASSUME JournalInv, Next PROVE A
    OBVIOUS
  <2>1. CASE UNCHANGED rows
    BY <2>1
  <2>2. ASSUME NEW w \in Workers, Save(w) PROVE A
    <3>1. rows' = Updated(w) /\ pc[w] = "save"
      BY <2>2 DEF Save
    <3> QED BY <3>1, UpdatedIsRight
  <2> QED BY <2>1, <2>2 DEF Next, Step, Tick, FetchFails, Fetch, FetchTorn, Fetched,
                            InsertSignal, NoSignal, SelectOpen, Crash
<1> QED BY <1>1, JournalSafety, PTL DEF Spec, SignalIsImmutable

-----------------------------------------------------------------------------
(* One run after the other *)

\* What a run selected is what the table has, as nobody else writes.
ReadIsCurrent ==
    \A w \in Workers, e \in Events :
        read[w][e] # NoRow /\ mine[w] # e => rows[e] = read[w][e]

\* What the only run has read is what the table holds.
LEMMA AloneReadIsCurrent ==
    ASSUME \A v, w \in Workers : v = w,
           JournalInv, ReadIsCurrent, [Next]_vars
    PROVE  ReadIsCurrent'
<1>1. CASE UNCHANGED <<rows, mine, read>>
  BY <1>1 DEF ReadIsCurrent
<1>2. ASSUME NEW w \in Workers,
             NoSignal(w) \/ \E e \in Events : InsertSignal(w, e)
      PROVE  ReadIsCurrent'
  <2>1. \A e \in Events : mine[w] # e
    BY <1>2, EventsAssumption DEF NoSignal, InsertSignal, JournalInv, OneInserter
  <2>2. UNCHANGED <<rows, read>>
    BY <1>2 DEF NoSignal, InsertSignal
  <2>3. \A v \in Workers : v = w
    OBVIOUS
  <2> QED BY <2>1, <2>2, <2>3 DEF ReadIsCurrent
<1>3. ASSUME NEW w \in Workers, SelectOpen(w) PROVE ReadIsCurrent'
  <2> SUFFICES ASSUME NEW e \in Events, read'[w][e] # NoRow, mine[w] # e
               PROVE  rows[e] = read'[w][e]
    BY <1>3 DEF SelectOpen, ReadIsCurrent
  <2>1. Visible(w)[e] = rows[e]
    BY DEF Visible
  <2>2. read'[w][e] = IF Visible(w)[e].status = "OPEN" THEN Visible(w)[e] ELSE NoRow
    BY <1>3 DEF SelectOpen, JournalInv, TypeOK
  <2> QED BY <2>1, <2>2
<1>4. ASSUME NEW w \in Workers, EndRun(w) PROVE ReadIsCurrent'
  <2>1. \A e \in Events : read'[w][e] = NoRow
    BY <1>4 DEF EndRun, JournalInv, TypeOK
  <2> QED BY <2>1 DEF ReadIsCurrent
<1> QED BY <1>1, <1>2, <1>3, <1>4
        DEF vars, Next, Step, Tick, FetchFails, Fetch, FetchTorn, Fetched, Save, Crash

\* The outcome of a signal is never rewritten, as long as runs do not overlap
\* (journal_core.py, persist_day_journal selects OPEN rows only).
THEOREM ClosedIsFinalHolds ==
    ASSUME \A v, w \in Workers : v = w
    PROVE  Spec => ClosedIsFinal
<1> DEFINE A == \A e \in Events : rows[e].status = "CLOSED" => rows'[e] = rows[e]
<1>1. Init => ReadIsCurrent
  BY DEF Init, ReadIsCurrent
<1>2. JournalInv /\ ReadIsCurrent /\ [Next]_vars => ReadIsCurrent'
  BY AloneReadIsCurrent
<1>3. JournalInv /\ ReadIsCurrent /\ [Next]_vars => [A]_vars
  <2> SUFFICES ASSUME JournalInv, ReadIsCurrent, Next PROVE A
    OBVIOUS
  <2>1. CASE UNCHANGED rows
    BY <2>1
  <2>2. ASSUME NEW w \in Workers, Save(w) PROVE A
    <3> SUFFICES ASSUME NEW e \in Events, rows[e].status = "CLOSED"
                 PROVE  rows'[e] = rows[e]
      OBVIOUS
    <3>1. rows[e] # NoRow
      BY DEF NoRow
    <3>2. mine[w] # e
      BY <3>1 DEF JournalInv, OneInserter
    <3>3. read[w][e] = NoRow
      <4> SUFFICES ASSUME read[w][e] # NoRow PROVE FALSE
        OBVIOUS
      <4>1. rows[e] = read[w][e]
        BY <3>2 DEF ReadIsCurrent
      <4>2. read[w][e].status = "OPEN"
        BY DEF JournalInv, ReadRowsAreOpen
      <4> QED BY <4>1, <4>2
    <3>4. rows' = Updated(w)
      BY <2>2 DEF Save
    <3> QED BY <3>2, <3>3, <3>4 DEF Updated, Visible
  <2> QED BY <2>1, <2>2 DEF Next, Step, Tick, FetchFails, Fetch, FetchTorn, Fetched,
                            InsertSignal, NoSignal, SelectOpen, Crash
<1> QED BY <1>1, <1>2, <1>3, JournalSafety, PTL DEF Spec, ClosedIsFinal

=============================================================================
