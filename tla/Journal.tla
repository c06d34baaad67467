------------------------------ MODULE Journal ------------------------------
(***************************************************************************)
(* The prospective signal journal of the day worker: journal_core.py, and  *)
(* persist_day_results of day_worker.py, which runs it in one transaction. *)
(*                                                                         *)
(* A run fetches the latest five-minute bars of the symbol, analyses them  *)
(* for a while, and then, in one transaction, inserts the signal of a      *)
(* breakout it found, evaluates the rows that are OPEN, and saves the scan *)
(* with the number of active signals in the cache.  The journal has no     *)
(* lock against a second run, so Workers may overlap.                      *)
(*                                                                         *)
(* Time is counted in bars: at clock = n the bars 1..n have closed.  Only  *)
(* what a bar touches matters: the stop of a signal, or its targets.       *)
(***************************************************************************)
EXTENDS Integers, FiniteSets

CONSTANTS
    Workers,   \* runs of the day worker that may overlap
    Events,    \* breakouts, each the number of its origin bar
    Bars,      \* what a bar may touch, see Bar
    Horizon,   \* JOURNAL_HORIZON_HOURS, in bars
    Window,    \* closed bars one request for klines returns
    Lag,       \* bound on the bars that close while a run is under way
    LastBar    \* bound on the bars that close

Bar == [stop : BOOLEAN, reach : 0..2]

ASSUME BarsAssumption == Bars \subseteq Bar
ASSUME EventsAssumption == Events \subseteq Nat \ {0} /\ IsFiniteSet(Events)
ASSUME BoundsAssumption ==
    /\ Horizon \in Nat \ {0}
    /\ Window \in Nat \ {0}
    /\ Lag \in Nat
    /\ LastBar \in Nat

VARIABLES
    clock,    \* bars closed so far
    path,     \* path[e][b]: what bar b touches of the levels of signal e
    rows,     \* day_trade_signal_journal, by breakout; NoRow when absent
    active,   \* active_signals in the cached day_trade_scan
    pc,       \* next step of a worker
    win,      \* the bars a worker fetched
    part,     \* what its last bar had touched when it was fetched
    now,      \* the clock a worker read at the start of its transaction
    mine,     \* breakout a worker has inserted and not committed, or 0
    read      \* the OPEN rows a worker selected

vars == <<clock, path, rows, active, pc, win, part, now, mine, read>>

Labels == {"idle", "persist", "select", "save"}
Reasons == {"NONE", "STOP", "AMBIGUOUS_STOP_FIRST", "TP2", "TIME_EXIT"}
Nums == 0..LastBar

NoRow == [signal |-> 0, status |-> "ABSENT", last |-> 0, seen |-> 0,
          tp1 |-> 0, exit |-> 0, reason |-> "NONE", torn |-> FALSE]

\* torn is not in the table: it tells that the row was evaluated with a bar
\* that had been fetched before it closed.
Row == [signal : Nums, status : {"ABSENT", "OPEN", "CLOSED"}, last : Nums,
        seen : Int, tp1 : Nums, exit : Nums, reason : Reasons, torn : BOOLEAN]

NoBars == [from |-> 1, to |-> 0, torn |-> FALSE]

TypeOK ==
    /\ clock \in Nums
    /\ path \in [Events -> [1..LastBar -> Bar]]
    /\ rows \in [Events -> Row]
    /\ active \in Nat
    /\ pc \in [Workers -> Labels]
    /\ win \in [Workers -> [from : Nat \ {0}, to : Nums, torn : BOOLEAN]]
    /\ part \in [Workers -> [Events -> Bar]]
    /\ now \in [Workers -> Nums]
    /\ mine \in [Workers -> Events \cup {0}]
    /\ read \in [Workers -> [Events -> Row]]

Quiet == [e \in Events |-> [stop |-> FALSE, reach |-> 0]]

Init ==
    /\ clock = 0
    /\ path = [e \in Events |-> [b \in 1..LastBar |-> Quiet[e]]]
    /\ rows = [e \in Events |-> NoRow]
    /\ active = 0
    /\ pc = [w \in Workers |-> "idle"]
    /\ win = [w \in Workers |-> NoBars]
    /\ part = [w \in Workers |-> Quiet]
    /\ now = [w \in Workers |-> 0]
    /\ mine = [w \in Workers |-> 0]
    /\ read = [w \in Workers |-> [e \in Events |-> NoRow]]

\* A bar closes.
Tick ==
    /\ clock < LastBar
    /\ \A w \in Workers : win[w].to > 0 => clock < win[w].to + Lag
    /\ clock' = clock + 1
    /\ \E p \in [Events -> Bars] :
           path' = [e \in Events |-> [path[e] EXCEPT ![clock + 1] = p[e]]]
    /\ UNCHANGED <<rows, active, pc, win, part, now, mine, read>>

Smaller(m, n) == IF m < n THEN m ELSE n
Larger(m, n) == IF m > n THEN m ELSE n

Goto(w, label) == pc' = [pc EXCEPT ![w] = label]

-----------------------------------------------------------------------------
(* fetch_fast and klines *)

\* The symbol is missing from this run: its requests failed, or it is not in
\* the universe.
FetchFails(w) ==
    /\ pc[w] = "idle"
    /\ win' = [win EXCEPT ![w] = NoBars]
    /\ Goto(w, "persist")
    /\ UNCHANGED <<clock, path, rows, active, part, now, mine, read>>

Fetched(w, torn) ==
    /\ win' = [win EXCEPT ![w] =
           [from |-> Larger(1, clock - Window + 1), to |-> clock, torn |-> torn]]
    /\ Goto(w, "persist")
    /\ UNCHANGED <<clock, path, rows, active, now, mine, read>>

Fetch(w) ==
    /\ pc[w] = "idle"
    /\ clock > 0
    /\ part' = part
    /\ Fetched(w, FALSE)

\* klines compares the bars with a clock it reads after the answer arrived:
\* a bar that closes in between is kept with what it had touched by then.
FetchTorn(w) ==
    /\ pc[w] = "idle"
    /\ clock > 0
    /\ \E p \in [Events -> Bars] :
           /\ \A e \in Events :
                  /\ p[e].reach <= path[e][clock].reach
                  /\ p[e].stop => path[e][clock].stop
           /\ part' = [part EXCEPT ![w] = p]
    /\ Fetched(w, TRUE)

\* What worker w knows of bar b.
Seen(w, e, b) ==
    IF win[w].torn /\ b = win[w].to THEN part[w][e] ELSE path[e][b]

-----------------------------------------------------------------------------
(* persist_day_journal: build_signal_record and insert_signal *)

NewRow(w) == [NoRow EXCEPT !.signal = win[w].to, !.status = "OPEN",
                           !.last = win[w].to]

\* Mutant: INSERT ... ON CONFLICT (signal_key) DO UPDATE.
InsertSignalAgain(w, e) ==
    /\ pc[w] = "persist"
    /\ e \in win[w].from..win[w].to
    /\ mine' = [mine EXCEPT ![w] = e]
    /\ now' = [now EXCEPT ![w] = clock]
    /\ Goto(w, "select")
    /\ UNCHANGED <<clock, path, rows, active, win, part, read>>

\* The breakout e is still active at the last bar fetched, and passed the
\* filters.  ON CONFLICT (signal_key) DO NOTHING: the first recording stays.
\* The INSERT waits for another transaction that inserted the same key.
InsertSignal(w, e) ==
    /\ pc[w] = "persist"
    /\ e \in win[w].from..win[w].to
    /\ \A v \in Workers : mine[v] # e
    /\ mine' = [mine EXCEPT ![w] = IF rows[e] = NoRow THEN e ELSE 0]
    /\ now' = [now EXCEPT ![w] = clock]
    /\ Goto(w, "select")
    /\ UNCHANGED <<clock, path, rows, active, win, part, read>>

NoSignal(w) ==
    /\ pc[w] = "persist"
    /\ now' = [now EXCEPT ![w] = clock]
    /\ Goto(w, "select")
    /\ UNCHANGED <<clock, path, rows, active, win, part, mine, read>>

\* The table as the statements of w see it.
Visible(w) == [e \in Events |-> IF mine[w] = e THEN NewRow(w) ELSE rows[e]]

\* Mutant: the evaluation does not ask for OPEN rows.
SelectOpenAll(w) ==
    /\ pc[w] = "select"
    /\ read' = [read EXCEPT ![w] = Visible(w)]
    /\ Goto(w, "save")
    /\ UNCHANGED <<clock, path, rows, active, win, part, now, mine>>

\* Mutant: signals past their horizon are not selected any more.
SelectOpenUnexpired(w) ==
    /\ pc[w] = "select"
    /\ read' = [read EXCEPT ![w] =
           [e \in Events |->
               IF Visible(w)[e].status = "OPEN" /\ now[w] < Visible(w)[e].signal + Horizon
               THEN Visible(w)[e] ELSE NoRow]]
    /\ Goto(w, "save")
    /\ UNCHANGED <<clock, path, rows, active, win, part, now, mine>>

SelectOpen(w) ==
    /\ pc[w] = "select"
    /\ read' = [read EXCEPT ![w] =
           [e \in Events |->
               IF Visible(w)[e].status = "OPEN" THEN Visible(w)[e] ELSE NoRow]]
    /\ Goto(w, "save")
    /\ UNCHANGED <<clock, path, rows, active, win, part, now, mine>>

-----------------------------------------------------------------------------
(* evaluate_signal_row *)

Expiry(r) == r.signal + Horizon

\* Bars of the horizon that were fetched, and those of them that are new.
Eligible(w, r) == Larger(win[w].from, r.signal + 1) .. Smaller(win[w].to, Expiry(r))
FirstNew(w, r) == Larger(win[w].from, r.last + 1)
LastNew(w, r) == Smaller(win[w].to, Expiry(r))
NewBars(w, r) == FirstNew(w, r) .. LastNew(w, r)

\* The bar ends the signal.
Ends(bar) == bar.stop \/ bar.reach = 2

\* Stop and target in one bar: the stop is taken first.
Verdict(bar) ==
    IF bar.stop
    THEN IF bar.reach > 0 THEN "AMBIGUOUS_STOP_FIRST" ELSE "STOP"
    ELSE "TP2"

\* First of the new bars up to n that touches the first target and does not
\* stop the signal, unless one was known before.
FirstTarget(w, e, r, n) ==
    LET touch == {b \in FirstNew(w, r) .. n :
                     Seen(w, e, b).reach > 0 /\ ~ Seen(w, e, b).stop}
    IN  IF r.tp1 # 0 \/ touch = {} THEN r.tp1
        ELSE CHOOSE b \in touch : \A c \in touch : b <= c

\* The row after the new bars up to n were looked at.
Observed(w, e, r, n) ==
    [r EXCEPT !.last = n,
              !.seen = @ + (n + 1 - FirstNew(w, r)),
              !.tp1 = FirstTarget(w, e, r, n),
              !.torn = @ \/ (win[w].torn /\ n = win[w].to)]

\* No new bar ended the signal: TIME_EXIT at the last bar of the horizon that
\* was fetched, once the horizon is over.
TimeExit(w, e, r) ==
    LET o == IF NewBars(w, r) = {} THEN r ELSE Observed(w, e, r, LastNew(w, r))
    IN  IF Eligible(w, r) # {} /\ now[w] >= Expiry(r)
        THEN [o EXCEPT !.status = "CLOSED", !.exit = LastNew(w, r),
                       !.last = LastNew(w, r), !.reason = "TIME_EXIT"]
        ELSE o

\* Mutant: the loop does not stop at the first bar that ends the signal.
EvaluateLastTouch(w, e, r) ==
    LET ends == {b \in NewBars(w, r) : Ends(Seen(w, e, b))}
        b == CHOOSE x \in ends : \A y \in ends : x >= y
    IN  IF ends = {} THEN TimeExit(w, e, r)
        ELSE [Observed(w, e, r, b) EXCEPT
                 !.status = "CLOSED", !.exit = b, !.reason = Verdict(Seen(w, e, b))]

\* The loop over the new bars stops at the first one that ends the signal.
Evaluate(w, e, r) ==
    LET ends == {b \in NewBars(w, r) : Ends(Seen(w, e, b))}
        b == CHOOSE x \in ends : \A y \in ends : x <= y
    IN  IF ends = {} THEN TimeExit(w, e, r)
        ELSE [Observed(w, e, r, b) EXCEPT
                 !.status = "CLOSED", !.exit = b, !.reason = Verdict(Seen(w, e, b))]

-----------------------------------------------------------------------------
(* The rest of the transaction *)

OpenRows(table) == {e \in Events : table[e].status = "OPEN"}

\* The table after the updates of w: UPDATE ... WHERE id overwrites whatever
\* another transaction stored since the rows were selected.
Updated(w) ==
    [e \in Events |-> IF read[w][e] = NoRow THEN Visible(w)[e]
                      ELSE Evaluate(w, e, read[w][e])]

EndRun(w) ==
    /\ Goto(w, "idle")
    /\ win' = [win EXCEPT ![w] = NoBars]
    /\ part' = [part EXCEPT ![w] = Quiet]
    /\ now' = [now EXCEPT ![w] = 0]
    /\ mine' = [mine EXCEPT ![w] = 0]
    /\ read' = [read EXCEPT ![w] = [e \in Events |-> NoRow]]

\* The updates, the count, the cache and the commit.  The updated rows are
\* locked until the commit, so that two runs save one after the other.
Save(w) ==
    /\ pc[w] = "save"
    /\ rows' = Updated(w)
    /\ active' = Cardinality(OpenRows(Updated(w)))
    /\ EndRun(w)
    /\ UNCHANGED <<clock, path>>

\* The run dies, or a statement fails: the transaction is rolled back.
Crash(w) ==
    /\ pc[w] # "idle"
    /\ EndRun(w)
    /\ UNCHANGED <<clock, path, rows, active>>

-----------------------------------------------------------------------------

Step(w) ==
    \/ FetchFails(w) \/ Fetch(w) \/ FetchTorn(w)
    \/ (\E e \in Events : InsertSignal(w, e)) \/ NoSignal(w)
    \/ SelectOpen(w) \/ Save(w) \/ Crash(w)

Next == Tick \/ \E w \in Workers : Step(w)

Spec == Init /\ [][Next]_vars

\* Bars keep closing, and the cron keeps starting runs: those that fetched the
\* symbol do not fail for ever, whatever fails in between.
Fairness ==
    /\ WF_vars(Tick)
    /\ \A w \in Workers :
          /\ WF_vars(Step(w))
          /\ SF_vars(Fetch(w))
          /\ SF_vars(win[w].to > 0 /\ NoSignal(w))
          /\ SF_vars(win[w].to > 0 /\ SelectOpen(w))
          /\ SF_vars(win[w].to > 0 /\ Save(w))

FairSpec == Spec /\ Fairness

-----------------------------------------------------------------------------
(* What holds however runs overlap *)

\* Along the path p of its signal a bar touches the first target and goes on.
TouchesAt(p, b) == p[b].reach > 0 /\ ~ p[b].stop

\* No bar between the signal and n ends the signal, and tp1 is the first of
\* them that touches the first target.
NothingUpTo(p, r, n) == \A b \in r.signal + 1 .. n : ~ Ends(p[b])

FirstTargetIs(p, r) ==
    /\ r.tp1 # 0 => r.tp1 \in r.signal + 1 .. r.last /\ TouchesAt(p, r.tp1)
    /\ \A b \in r.signal + 1 .. r.last : TouchesAt(p, b) => r.tp1 # 0 /\ r.tp1 <= b

\* bars_observed tells that no bar was skipped: none was missing from the
\* fetched windows.  A bar fetched before it closed may lack a touch.
Whole(r) ==
    /\ ~ r.torn
    /\ r.seen = IF r.reason = "TIME_EXIT" THEN Horizon ELSE r.last - r.signal

\* The row says what one look at the whole path would say.
OutcomeIs(p, r) ==
    /\ FirstTargetIs(p, r)
    /\ r.reason \in {"NONE", "TIME_EXIT"} => NothingUpTo(p, r, r.last)
    /\ r.reason \in {"STOP", "AMBIGUOUS_STOP_FIRST", "TP2"} =>
          /\ NothingUpTo(p, r, r.exit - 1)
          /\ Ends(p[r.exit])
          /\ r.reason = "TP2" <=> ~ p[r.exit].stop

\* The evaluation of a signal in pieces, by one run after the other, comes to
\* the outcome of the first bar that touches the stop or the second target,
\* stop first, as long as no bar was skipped (journal_core.py,
\* evaluate_signal_row).  An overlapping run with older bars may put a row
\* back, but never to something that was not so.
OutcomeIsFirstTouch ==
    \A e \in Events : rows[e] # NoRow /\ Whole(rows[e]) => OutcomeIs(path[e], rows[e])

\* A breakout that goes on, or is recorded by two runs at once, keeps the
\* entry of its first recording, and is never recorded twice.
SignalIsImmutable ==
    [][\A e \in Events :
          rows[e] # NoRow => rows'[e] # NoRow /\ rows'[e].signal = rows[e].signal]_vars

-----------------------------------------------------------------------------
(* What holds when runs do not overlap *)

\* An outcome is never rewritten: the statistics of closed signals only grow.
ClosedIsFinal ==
    [][\A e \in Events : rows[e].status = "CLOSED" => rows'[e] = rows[e]]_vars

\* A signal does not stay OPEN beyond its horizon, unless no run could fetch
\* one of its bars before they left the window of klines.
OutOfReach(e) == clock - Window >= Expiry(rows[e])

OpenRowsAreResolved ==
    \A e \in Events :
        (rows[e].status = "OPEN" /\ Expiry(rows[e]) <= LastBar)
            ~> (rows[e].status = "CLOSED" \/ OutOfReach(e))

\* A signal that ran out of time met neither its stop nor its second target:
\* "the primary outcome is TP2 versus stop within an 8-hour horizon"
\* (journal_core.py, module docstring).  It is so only for the bars that had
\* been fetched, which may be older than the clock that ends the horizon; rows
\* that were evaluated with a torn bar are left out.
TimeExitMeansNoTouch ==
    \A e \in Events :
        rows[e].reason = "TIME_EXIT" /\ ~ rows[e].torn =>
            NothingUpTo(path[e], rows[e], Expiry(rows[e]))

=============================================================================
