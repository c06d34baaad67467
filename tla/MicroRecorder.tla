--------------------------- MODULE MicroRecorder ---------------------------
(***************************************************************************)
(* The microstructure recorder, collector.py, under the supervisor of      *)
(* standalone.py, which retries until its recorder has the lock.           *)
(*                                                                         *)
(* A recorder tries the advisory lock of its database session.  With       *)
(* the lock it runs two tasks: one reads the websocket and adds each       *)
(* message to the bucket of its timestamp; the other writes the closed     *)
(* buckets, and forgets them after the write.  When it is told to          *)
(* stop it joins the second task, writes what is left, open buckets too,   *)
(* and unlocks.                                                            *)
(*                                                                         *)
(* A row holds sums of the messages of one bucket.  Here it is the set of  *)
(* these messages, so that a row that counts too few of them shows.        *)
(***************************************************************************)
EXTENDS Integers

CONSTANTS
    Recorders,    \* recorders that may run at the same time: those of an old
                  \* and a new deployment, or two of one process, see Start
    Msgs,         \* messages the exchange sends, see Msg
    LastBucket    \* bound on the clock, counted in buckets

ASSUME BoundAssumption == LastBucket \in Nat

\* A message is a trade or a change of the order book: the n-th with a
\* timestamp in its bucket.  The last bucket never closes, and has none.
Msg == [bucket : 0..LastBucket - 1, n : Nat]

ASSUME MsgsAssumption == Msgs \subseteq Msg

Free == "no recorder"
ASSUME FreeAssumption == Free \notin Recorders

VARIABLES
    clock,      \* the bucket the time is in
    sent,       \* messages the exchange has sent
    stored,     \* microstructure_buckets: the messages its rows count
    lock,       \* the recorder whose session holds the lock, or Free
    pc,         \* where the process is in run()
    stop,       \* the _stop event
    session,    \* the database connection _db
    online,     \* runtime.connected
    wire,       \* messages on their way to the recorder
    held,       \* the messages in its self.buckets
    flush,      \* its flush task, or the forced flush
    rows,       \* the rows that flush is writing
    err,        \* runtime.last_error tells of a failed write
    intime,     \* history: messages a recorder must not lose, see Deliver
    torn        \* history: buckets cut while messages were still to come

own == <<pc, stop, session, online, wire, held, flush, rows, err, intime>>
vars == <<clock, sent, stored, lock, own, torn>>

Steps == {"off", "retry", "recording", "closing", "final"}
FlushStates == {"idle", "writing", "failed", "done"}
Sessions == {"none", "open", "lost"}

\* The types, and that a recorder says it is connected only while it records.
TypeOK ==
    /\ clock \in 0..LastBucket
    /\ sent \subseteq Msgs
    /\ stored \subseteq Msgs
    /\ lock \in Recorders \cup {Free}
    /\ pc \in [Recorders -> Steps]
    /\ stop \in [Recorders -> BOOLEAN]
    /\ session \in [Recorders -> Sessions]
    /\ online \in [Recorders -> BOOLEAN]
    /\ wire \in [Recorders -> SUBSET Msgs]
    /\ held \in [Recorders -> SUBSET Msgs]
    /\ flush \in [Recorders -> FlushStates]
    /\ rows \in [Recorders -> SUBSET Msgs]
    /\ err \in [Recorders -> BOOLEAN]
    /\ intime \in [Recorders -> SUBSET Msgs]
    /\ torn \subseteq 0..LastBucket
    /\ \A p \in Recorders : online[p] => pc[p] = "recording"

Buckets(S) == {m.bucket : m \in S}
RowOf(S, b) == {m \in S : m.bucket = b}

Init ==
    /\ clock = 0
    /\ sent = {}
    /\ stored = {}
    /\ lock = Free
    /\ pc = [p \in Recorders |-> "off"]
    /\ stop = [p \in Recorders |-> FALSE]
    /\ session = [p \in Recorders |-> "none"]
    /\ online = [p \in Recorders |-> FALSE]
    /\ wire = [p \in Recorders |-> {}]
    /\ held = [p \in Recorders |-> {}]
    /\ flush = [p \in Recorders |-> "idle"]
    /\ rows = [p \in Recorders |-> {}]
    /\ err = [p \in Recorders |-> FALSE]
    /\ intime = [p \in Recorders |-> {}]
    /\ torn = {}

-----------------------------------------------------------------------------
(* The exchange and the clock *)

Tick ==
    /\ clock < LastBucket
    /\ clock' = clock + 1
    /\ UNCHANGED <<sent, stored, lock, own, torn>>

\* The next message of the bucket the time is in goes to those connected.
Send(m) ==
    /\ m.bucket = clock
    /\ m \notin sent
    /\ \A k \in RowOf(Msgs, clock) : k.n < m.n => k \in sent
    /\ sent' = sent \cup {m}
    /\ wire' = [p \in Recorders |->
                   IF online[p] THEN wire[p] \cup {m} ELSE wire[p]]
    /\ UNCHANGED <<clock, stored, lock, pc, stop, session, online, held, flush,
                   rows, err, intime, torn>>

-----------------------------------------------------------------------------
(* The process and its lock *)

\* A deployment, or a restart by the platform; or a supervisor whose heartbeat
\* failed: it makes a new recorder, and the old one goes on without it.
Start(p) ==
    /\ pc[p] = "off"
    /\ pc' = [pc EXCEPT ![p] = "retry"]
    /\ err' = [err EXCEPT ![p] = FALSE]
    /\ UNCHANGED <<clock, sent, stored, lock, stop, session, online, wire, held,
                   flush, rows, intime, torn>>

\* Mutant: the result of pg_try_advisory_lock is not looked at.
AcquireUnchecked(p) ==
    /\ pc[p] = "retry"
    /\ ~stop[p]
    /\ lock' = IF lock = Free THEN p ELSE lock
    /\ session' = [session EXCEPT ![p] = "open"]
    /\ pc' = [pc EXCEPT ![p] = "recording"]
    /\ UNCHANGED <<clock, sent, stored, stop, online, wire, held, flush, rows,
                   err, intime, torn>>

\* A new recorder object connects and gets the lock.  One that misses the lock,
\* or fails before its tasks start, closes its connection and is tried again.
Acquire(p) ==
    /\ pc[p] = "retry"
    /\ ~stop[p]
    /\ lock = Free
    /\ lock' = p
    /\ session' = [session EXCEPT ![p] = "open"]
    /\ pc' = [pc EXCEPT ![p] = "recording"]
    /\ UNCHANGED <<clock, sent, stored, stop, online, wire, held, flush, rows,
                   err, intime, torn>>

\* SIGTERM: the supervisor calls recorder.stop().
Terminate(p) ==
    /\ pc[p] # "off"
    /\ stop' = [stop EXCEPT ![p] = TRUE]
    /\ UNCHANGED <<clock, sent, stored, lock, pc, session, online, wire, held,
                   flush, rows, err, intime, torn>>

\* The lock of a session goes with the session.
Unlocked(p) == IF lock = p THEN Free ELSE lock

\* The process is gone, with its memory and its connections.
Gone(p) ==
    /\ pc' = [pc EXCEPT ![p] = "off"]
    /\ stop' = [stop EXCEPT ![p] = FALSE]
    /\ session' = [session EXCEPT ![p] = "none"]
    /\ lock' = Unlocked(p)
    /\ online' = [online EXCEPT ![p] = FALSE]
    /\ wire' = [wire EXCEPT ![p] = {}]
    /\ held' = [held EXCEPT ![p] = {}]
    /\ rows' = [rows EXCEPT ![p] = {}]
    /\ flush' = [flush EXCEPT ![p] = "idle"]

\* The process ends without a final flush; so does, at a stop, a recorder that
\* its supervisor left.  Nobody expects its memory in the table.
Kill(p) ==
    /\ pc[p] # "off"
    /\ Gone(p)
    /\ intime' = [intime EXCEPT ![p] = {}]
    /\ UNCHANGED <<clock, sent, stored, err, torn>>

\* A supervisor that is told to stop while it waits for the lock.
GiveUp(p) ==
    /\ pc[p] = "retry"
    /\ stop[p]
    /\ Gone(p)
    /\ UNCHANGED <<clock, sent, stored, err, intime, torn>>

\* The server drops the connection of the recorder, and its lock.  The recorder
\* does not notice before it writes.
LoseSession(p) ==
    /\ session[p] = "open"
    /\ session' = [session EXCEPT ![p] = "lost"]
    /\ lock' = Unlocked(p)
    /\ intime' = [intime EXCEPT ![p] = {}]
    /\ UNCHANGED <<clock, sent, stored, pc, stop, online, wire, held, flush,
                   rows, err, torn>>

-----------------------------------------------------------------------------
(* The task that reads the websocket *)

GoOnline(p) ==
    /\ pc[p] = "recording"
    /\ ~stop[p]
    /\ ~online[p]
    /\ online' = [online EXCEPT ![p] = TRUE]
    /\ UNCHANGED <<clock, sent, stored, lock, pc, stop, session, wire, held,
                   flush, rows, err, intime, torn>>

\* The websocket closes, with an error or without; what it carried is lost.
Disconnect(p) ==
    /\ online[p]
    /\ online' = [online EXCEPT ![p] = FALSE]
    /\ wire' = [wire EXCEPT ![p] = {}]
    /\ UNCHANGED <<clock, sent, stored, lock, pc, stop, session, held, flush,
                   rows, err, intime, torn>>

\* The row of bucket b is being written, or is in the table.
Cut(p, b) == b \in Buckets(rows[p]) \/ b \in Buckets(stored)

\* The recorder can still write.
Alive(p) == session[p] = "open" /\ flush[p] # "failed"

\* A message of a closed bucket that comes after its row was cut tears the
\* bucket.  Every other message must end in the table, if the recorder lives.
Deliver(p, m) ==
    LET tears == m.bucket < clock /\ Cut(p, m.bucket)
    IN  /\ pc[p] = "recording"
        /\ ~stop[p]
        /\ m \in wire[p]
        /\ wire' = [wire EXCEPT ![p] = @ \ {m}]
        /\ held' = [held EXCEPT ![p] = @ \cup {m}]
        /\ intime' = IF Alive(p) /\ ~tears
                     THEN [intime EXCEPT ![p] = @ \cup {m}] ELSE intime
        /\ torn' = IF Alive(p) /\ tears
                   THEN torn \cup {m.bucket} ELSE torn
        /\ UNCHANGED <<clock, sent, stored, lock, pc, stop, session, online,
                       flush, rows, err>>

\* The loop sees the stop event; the pong of the heartbeat wakes it at last.
LeaveLoop(p) ==
    /\ pc[p] = "recording"
    /\ stop[p]
    /\ pc' = [pc EXCEPT ![p] = "closing"]
    /\ online' = [online EXCEPT ![p] = FALSE]
    /\ wire' = [wire EXCEPT ![p] = {}]
    /\ UNCHANGED <<clock, sent, stored, lock, stop, session, held, flush, rows,
                   err, intime, torn>>

-----------------------------------------------------------------------------
(* The task that writes the buckets *)

\* Mutant: <= where the code says <.
ClosedOrOpen(p) == {m \in held[p] : m.bucket <= clock}

\* What a flush that is not forced takes.
Closed(p) == {m \in held[p] : m.bucket < clock}

\* Mutant: the task flushes once.
FlushesOnce(p) == "done"

\* The state of the task between two flushes: the loop ends after a stop.
AfterFlush(p) == IF stop[p] THEN "done" ELSE "idle"

\* Mutant: the buckets are popped before the write.
SelectPopped(p) ==
    /\ pc[p] \in {"recording", "closing"}
    /\ flush[p] = "idle"
    /\ rows' = [rows EXCEPT ![p] = Closed(p)]
    /\ held' = [held EXCEPT ![p] = @ \ Closed(p)]
    /\ flush' = [flush EXCEPT ![p] = IF Closed(p) = {} THEN AfterFlush(p)
                                     ELSE "writing"]
    /\ UNCHANGED <<clock, sent, stored, lock, pc, stop, session, online, wire,
                   err, intime, torn>>

\* Mutant: with nothing to write the task waits on, stop or not.
SelectIfAny(p) ==
    /\ pc[p] \in {"recording", "closing"}
    /\ flush[p] = "idle"
    /\ Closed(p) # {}
    /\ rows' = [rows EXCEPT ![p] = Closed(p)]
    /\ flush' = [flush EXCEPT ![p] = "writing"]
    /\ UNCHANGED <<clock, sent, stored, lock, pc, stop, session, online, wire,
                   held, err, intime, torn>>

\* The rows are made at once; then the task awaits the transaction.
Select(p) ==
    /\ pc[p] \in {"recording", "closing"}
    /\ flush[p] = "idle"
    /\ rows' = [rows EXCEPT ![p] = Closed(p)]
    /\ flush' = [flush EXCEPT ![p] = IF Closed(p) = {} THEN AfterFlush(p)
                                     ELSE "writing"]
    /\ UNCHANGED <<clock, sent, stored, lock, pc, stop, session, online, wire,
                   held, err, intime, torn>>

\* The UPSERT replaces the rows it finds.
Upserted(p) == {m \in stored : m.bucket \notin Buckets(rows[p])} \cup rows[p]

\* The transaction commits, and the task forgets the buckets, with what they
\* received while it was waiting.
Written(p) ==
    /\ session[p] = "open"
    /\ stored' = Upserted(p)
    /\ held' = [held EXCEPT ![p] = {m \in @ : m.bucket \notin Buckets(rows[p])}]
    /\ rows' = [rows EXCEPT ![p] = {}]

Commit(p) ==
    /\ flush[p] = "writing"
    /\ pc[p] \in {"recording", "closing"}
    /\ Written(p)
    /\ flush' = [flush EXCEPT ![p] = AfterFlush(p)]
    /\ UNCHANGED <<clock, sent, lock, pc, stop, session, online, wire, err,
                   intime, torn>>

\* The write raises, and ends the task.  The server may have committed it when
\* the connection was lost.  The error is kept in the task until it is joined.
Failed(p) ==
    /\ \/ UNCHANGED <<stored, session, lock>>
       \/ /\ session[p] = "open"
          /\ stored' = Upserted(p)
          /\ session' = [session EXCEPT ![p] = "lost"]
          /\ lock' = Unlocked(p)
    /\ rows' = [rows EXCEPT ![p] = {}]
    /\ intime' = [intime EXCEPT ![p] = {}]

Raise(p) ==
    /\ flush[p] = "writing"
    /\ pc[p] \in {"recording", "closing"}
    /\ Failed(p)
    /\ flush' = [flush EXCEPT ![p] = "failed"]
    /\ UNCHANGED <<clock, sent, pc, stop, online, wire, held, err, torn>>

-----------------------------------------------------------------------------
(* The end of run() *)

\* The flush task is done: the forced flush takes open buckets too.  These are
\* torn if they get more messages, from the next recorder.
FinalFlush(p) ==
    /\ pc[p] = "closing"
    /\ flush[p] = "done"
    /\ pc' = [pc EXCEPT ![p] = "final"]
    /\ rows' = [rows EXCEPT ![p] = held[p]]
    /\ torn' = IF clock \in Buckets(held[p]) THEN torn \cup {clock} ELSE torn
    /\ UNCHANGED <<clock, sent, stored, lock, stop, session, online, wire, held,
                   flush, err, intime>>

\* The flush task had failed: its error leaves run() without a forced flush.
Rethrow(p) ==
    /\ pc[p] = "closing"
    /\ flush[p] = "failed"
    /\ Gone(p)
    /\ err' = [err EXCEPT ![p] = TRUE]
    /\ UNCHANGED <<clock, sent, stored, intime, torn>>

ForcedCommit(p) ==
    /\ pc[p] = "final"
    /\ rows[p] # {}
    /\ Written(p)
    /\ UNCHANGED <<clock, sent, lock, pc, stop, session, online, wire, flush,
                   err, intime, torn>>

ForcedFail(p) ==
    /\ pc[p] = "final"
    /\ rows[p] # {}
    /\ Failed(p)
    /\ err' = [err EXCEPT ![p] = TRUE]
    /\ UNCHANGED <<clock, sent, pc, stop, online, wire, held, flush, torn>>

\* Unlock, close the connection; the supervisor sees its stop event and ends.
Cleanup(p) ==
    /\ pc[p] = "final"
    /\ rows[p] = {}
    /\ Gone(p)
    /\ UNCHANGED <<clock, sent, stored, err, intime, torn>>

-----------------------------------------------------------------------------
Next ==
    \/ Tick
    \/ \E m \in Msgs : Send(m)
    \/ \E p \in Recorders :
          \/ Start(p) \/ Acquire(p) \/ Terminate(p) \/ Kill(p) \/ GiveUp(p)
          \/ LoseSession(p) \/ GoOnline(p) \/ Disconnect(p)
          \/ \E m \in wire[p] : Deliver(p, m)
          \/ LeaveLoop(p) \/ Select(p) \/ Commit(p) \/ Raise(p)
          \/ FinalFlush(p) \/ Rethrow(p) \/ ForcedCommit(p) \/ ForcedFail(p)
          \/ Cleanup(p)

\* The clock goes on; the event loop runs a task that can go on; a write ends,
\* one way or the other.  Nothing is assumed of the exchange, the platform and
\* the network.
Fairness ==
    /\ WF_vars(Tick)
    /\ \A p \in Recorders :
          /\ WF_vars(LeaveLoop(p))
          /\ WF_vars(Select(p))
          /\ WF_vars(Commit(p) \/ Raise(p))
          /\ WF_vars(FinalFlush(p) \/ Rethrow(p))
          /\ WF_vars(ForcedCommit(p) \/ ForcedFail(p))
          /\ WF_vars(Cleanup(p))
          /\ WF_vars(GiveUp(p))

Spec == Init /\ [][Next]_vars /\ Fairness

-----------------------------------------------------------------------------
(* Properties *)

\* Two recorders may both believe that they have the lock, when the first lost
\* its session and has not written since; but two of them can never write.
CanWrite(p) == session[p] = "open"
WritesAreExclusive ==
    \A p, q \in Recorders : CanWrite(p) /\ CanWrite(q) => p = q

\* The rows of microstructure_buckets are written once: whoever rewrites one,
\* after a failed write, a restart or a handover, does so in a torn bucket only.
RowIsWrittenOnce ==
    [][\A b \in 0..LastBucket :
          b \notin torn' /\ RowOf(stored, b) # {}
          => RowOf(stored', b) = RowOf(stored, b)]_vars

\* A message that came before its row was cut is in memory until it is in the
\* table, whatever arrived during the write.  It may be lost in torn buckets,
\* and where the write failed.
InTimeIsKept ==
    \A p \in Recorders : \A m \in intime[p] :
        m \in held[p] \/ m \in stored \/ m.bucket \in torn

\* It does get there: the flush task comes back for it, or the forced flush.
InTimeIsStored ==
    \A p \in Recorders : \A m \in Msgs :
        m \in intime[p] ~> \/ m \in stored
                           \/ m.bucket \in torn
                           \/ m \notin intime[p]

\* A recorder that is told to stop gives the lock up, whether its flush task
\* idles, writes or has failed, so that the next one can have it.
StopFreesLock == \A p \in Recorders : stop[p] ~> lock # p

\* What is held is written, and what is locked comes free.
RecorderLetsGo == InTimeIsStored /\ StopFreesLock

\* "status exposes last message/write/error timestamps and counts"
\* (EVIDENCE_FEATURE_VALIDATION_SPEC.md): a failed write shows in the status.
FlushFailureIsExposed ==
    \A p \in Recorders : flush[p] = "failed" ~> err[p] \/ flush[p] # "failed"

=============================================================================
