----------------------- MODULE Microstructure_proofs -----------------------
(***************************************************************************)
(* Proofs about MicroRecorder, for any processes, messages and clock, and  *)
(* about MicroStudy, for any symbols, buckets and gates of the studies.    *)
(*                                                                         *)
(* What makes the rows safe is not the lock alone.  A recorder that lost   *)
(* its session goes on reading; it is harmless because a session and the   *)
(* lock are one, and a recorder that can still write has, but for torn     *)
(* buckets, no message of a bucket with a row (Fresh), and no message of   *)
(* the rows it writes outside of them (Covered).                           *)
(*                                                                         *)
(* What makes the studies sound is that the row of a signal is computed    *)
(* from buckets that were over when it was journalled: it stays as it is,  *)
(* and the cohort of a strategy that is over can be computed anew.         *)
(***************************************************************************)
EXTENDS MicroRecorder, MicroStudy, Extrema, FunctionTheorems, FiniteSetTheorems, TLAPS

-----------------------------------------------------------------------------
(* The recorder *)

Step(p) ==
    \/ Start(p) \/ Acquire(p) \/ Terminate(p) \/ Kill(p) \/ GiveUp(p)
    \/ LoseSession(p) \/ GoOnline(p) \/ Disconnect(p)
    \/ \E m \in wire[p] : Deliver(p, m)
    \/ LeaveLoop(p) \/ Select(p) \/ Commit(p) \/ Raise(p)
    \/ FinalFlush(p) \/ Rethrow(p) \/ ForcedCommit(p) \/ ForcedFail(p)
    \/ Cleanup(p)

\* A message belongs to a bucket of the clock.
LEMMA MsgBucket ==
    ASSUME NEW m \in Msgs
    PROVE  m.bucket \in 0..LastBucket /\ m.bucket \in Nat
BY BoundAssumption, MsgsAssumption DEF Msg

\* The first state is well typed.
LEMMA TypeInit == Init => TypeOK
BY BoundAssumption
   DEF Init, TypeOK, Steps, FlushStates, Sessions

\* What the end of a process leaves has the right types.
LEMMA TypeGone ==
    ASSUME TypeOK, NEW p \in Recorders, Gone(p)
    PROVE  /\ lock' \in Recorders \cup {Free}
           /\ pc' \in [Recorders -> Steps]
           /\ stop' \in [Recorders -> BOOLEAN]
           /\ session' \in [Recorders -> Sessions]
           /\ online' \in [Recorders -> BOOLEAN]
           /\ wire' \in [Recorders -> SUBSET Msgs]
           /\ held' \in [Recorders -> SUBSET Msgs]
           /\ flush' \in [Recorders -> FlushStates]
           /\ rows' \in [Recorders -> SUBSET Msgs]
           /\ \A q \in Recorders : online'[q] => pc'[q] = "recording"
BY DEF TypeOK, Gone, Unlocked, Steps, FlushStates, Sessions

\* So has a write that succeeds, and one that fails.
LEMMA TypeWritten ==
    ASSUME TypeOK, NEW p \in Recorders, Written(p)
    PROVE  /\ stored' \subseteq Msgs
           /\ held' \in [Recorders -> SUBSET Msgs]
           /\ rows' \in [Recorders -> SUBSET Msgs]
BY DEF TypeOK, Written, Upserted

\* A failure leaves the state well typed.
LEMMA TypeFailed ==
    ASSUME TypeOK, NEW p \in Recorders, Failed(p)
    PROVE  /\ stored' \subseteq Msgs
           /\ session' \in [Recorders -> Sessions]
           /\ lock' \in Recorders \cup {Free}
           /\ rows' \in [Recorders -> SUBSET Msgs]
           /\ intime' \in [Recorders -> SUBSET Msgs]
BY DEF TypeOK, Failed, Upserted, Unlocked, Sessions

\* Every step of a recorder leaves the state well typed.
LEMMA TypeStep ==
    ASSUME TypeOK, NEW p \in Recorders, Step(p)
    PROVE  TypeOK'
<1>1. CASE Start(p)
  BY <1>1 DEF Start, TypeOK, Steps
<1>2. CASE Acquire(p)
  BY <1>2 DEF Acquire, TypeOK, Steps, Sessions
<1>3. CASE Terminate(p)
  BY <1>3 DEF Terminate, TypeOK
<1>4. CASE Kill(p)
  BY <1>4, TypeGone DEF Kill, TypeOK
<1>5. CASE GiveUp(p)
  BY <1>5, TypeGone DEF GiveUp, TypeOK
<1>6. CASE LoseSession(p)
  BY <1>6 DEF LoseSession, Unlocked, TypeOK, Sessions
<1>7. CASE GoOnline(p)
  BY <1>7 DEF GoOnline, TypeOK
<1>8. CASE Disconnect(p)
  BY <1>8 DEF Disconnect, TypeOK
<1>9. ASSUME NEW m \in wire[p], Deliver(p, m)
      PROVE  TypeOK'
  <2>1. m \in Msgs
    BY DEF TypeOK
  <2>2. m.bucket \in 0..LastBucket
    BY <2>1, MsgBucket
  <2> QED
    BY <1>9, <2>1, <2>2 DEF Deliver, TypeOK
<1>10. CASE LeaveLoop(p)
  BY <1>10 DEF LeaveLoop, TypeOK, Steps
<1>11. CASE Select(p)
  BY <1>11 DEF Select, Closed, AfterFlush, TypeOK, FlushStates
<1>12. CASE Commit(p)
  BY <1>12, TypeWritten DEF Commit, AfterFlush, TypeOK, FlushStates
<1>13. CASE Raise(p)
  BY <1>13, TypeFailed DEF Raise, TypeOK, FlushStates
<1>14. CASE FinalFlush(p)
  BY <1>14 DEF FinalFlush, TypeOK, Steps
<1>15. CASE Rethrow(p)
  BY <1>15, TypeGone DEF Rethrow, TypeOK
<1>16. CASE ForcedCommit(p)
  BY <1>16, TypeWritten DEF ForcedCommit, TypeOK
<1>17. CASE ForcedFail(p)
  BY <1>17, TypeFailed DEF ForcedFail, TypeOK
<1>18. CASE Cleanup(p)
  BY <1>18, TypeGone DEF Cleanup, TypeOK
<1> QED
  BY <1>1, <1>2, <1>3, <1>4, <1>5, <1>6, <1>7, <1>8, <1>9, <1>10, <1>11,
     <1>12, <1>13, <1>14, <1>15, <1>16, <1>17, <1>18 DEF Step

\* The next-state relation, one recorder at a time.
LEMMA NextCases ==
    Next <=> \/ Tick
             \/ \E m \in Msgs : Send(m)
             \/ \E p \in Recorders : Step(p)
BY DEF Next, Step

\* Every step leaves the state well typed.
LEMMA TypeNext == TypeOK /\ [Next]_vars => TypeOK'
<1> SUFFICES ASSUME TypeOK, [Next]_vars
             PROVE  TypeOK'
  OBVIOUS
<1>1. CASE Tick
  BY <1>1, BoundAssumption DEF Tick, own, TypeOK
<1>2. ASSUME NEW m \in Msgs, Send(m)
      PROVE  TypeOK'
  BY <1>2 DEF Send, TypeOK
<1>3. ASSUME NEW p \in Recorders, Step(p)
      PROVE  TypeOK'
  BY <1>3, TypeStep
<1>4. CASE UNCHANGED vars
  BY <1>4 DEF vars, own, TypeOK
<1> QED
  BY <1>1, <1>2, <1>3, <1>4, NextCases

\* The types of the model, and that a recorder tells that it is connected only
\* while it records.
THEOREM Typing == Spec => []TypeOK
BY TypeInit, TypeNext, PTL DEF Spec

-----------------------------------------------------------------------------
(* The inductive invariant *)

\* The lock is held by the one open session.
LockIsSession == \A p \in Recorders : session[p] = "open" <=> lock = p

\* Before a process has the lock, it has nothing else.
WaitsEmpty ==
    \A p \in Recorders : pc[p] \in {"off", "retry"} =>
        /\ session[p] = "none"
        /\ held[p] = {} /\ rows[p] = {} /\ wire[p] = {}
        /\ flush[p] = "idle"

\* Rows are written from memory, while a flush waits for its transaction.  The
\* final flush writes all, or was given up.
FlushPhases ==
    \A p \in Recorders :
        /\ rows[p] \subseteq held[p]
        /\ rows[p] # {} => pc[p] = "final" \/ flush[p] = "writing"
        /\ pc[p] = "final" => /\ flush[p] = "done"
                              /\ rows[p] = held[p] \/ intime[p] = {}
        /\ flush[p] = "failed" => intime[p] = {}

\* Messages have timestamps of the past.
SentIsPast ==
    /\ \A m \in sent : m.bucket <= clock
    /\ \A p \in Recorders : wire[p] \subseteq sent /\ held[p] \subseteq sent

\* A row is of a closed bucket, or its bucket is torn.
CutIsPast ==
    /\ \A m \in stored : m.bucket < clock \/ m.bucket \in torn
    /\ \A p \in Recorders : \A m \in rows[p] :
          m.bucket < clock \/ m.bucket \in torn

\* A recorder that can write has no message for a row that is there.
Fresh ==
    \A p \in Recorders : Alive(p) =>
        \A m \in held[p] : \A k \in stored :
            m.bucket = k.bucket => m.bucket \in torn

\* The rows it writes have all its messages of their buckets.
Covered ==
    \A p \in Recorders : Alive(p) =>
        \A m \in rows[p] : \A k \in held[p] :
            m.bucket = k.bucket => k \in rows[p] \/ m.bucket \in torn

Safe ==
    /\ TypeOK
    /\ LockIsSession
    /\ WaitsEmpty
    /\ FlushPhases
    /\ SentIsPast
    /\ CutIsPast
    /\ Fresh
    /\ Covered
    /\ InTimeIsKept

\* The first state is safe.
LEMMA SafeInit == Init => Safe
<1> SUFFICES ASSUME Init
             PROVE  Safe
  OBVIOUS
<1>1. TypeOK
  BY TypeInit
<1> QED
  BY <1>1, FreeAssumption
     DEF Init, Safe, LockIsSession, WaitsEmpty, FlushPhases, SentIsPast,
         CutIsPast, Fresh, Covered, InTimeIsKept

-----------------------------------------------------------------------------
(* Every step of a recorder keeps it *)

\* The action Start keeps the recorder safe.
LEMMA SafeStart ==
    ASSUME Safe, NEW p \in Recorders, Start(p)
    PROVE  Safe'
<1>1. TypeOK'
  BY TypeStep DEF Safe, Step
<1>2. /\ LockIsSession' /\ WaitsEmpty' /\ FlushPhases'
      /\ SentIsPast' /\ CutIsPast' /\ Fresh'
      /\ Covered' /\ InTimeIsKept'
  BY DEF Start, Safe, Alive, LockIsSession, WaitsEmpty, FlushPhases,
         SentIsPast, CutIsPast, Fresh, Covered, InTimeIsKept
<1> QED
  BY <1>1, <1>2 DEF Safe

\* The action Acquire keeps the recorder safe.
LEMMA SafeAcquire ==
    ASSUME Safe, NEW p \in Recorders, Acquire(p)
    PROVE  Safe'
<1>1. TypeOK'
  BY TypeStep DEF Safe, Step
<1>2. /\ WaitsEmpty' /\ FlushPhases' /\ SentIsPast'
      /\ CutIsPast' /\ InTimeIsKept'
  BY DEF Acquire, Safe, TypeOK, WaitsEmpty, FlushPhases, SentIsPast, CutIsPast,
         InTimeIsKept
<1>3. LockIsSession'
  BY FreeAssumption DEF Acquire, Safe, TypeOK, LockIsSession
<1>4. Fresh'
  BY DEF Acquire, Safe, Alive, WaitsEmpty, Fresh
<1>5. Covered'
  BY DEF Acquire, Safe, Alive, WaitsEmpty, Covered
<1> QED
  BY <1>1, <1>2, <1>3, <1>4, <1>5 DEF Safe

\* The action Terminate keeps the recorder safe.
LEMMA SafeTerminate ==
    ASSUME Safe, NEW p \in Recorders, Terminate(p)
    PROVE  Safe'
<1>1. TypeOK'
  BY TypeStep DEF Safe, Step
<1>2. /\ LockIsSession' /\ WaitsEmpty' /\ FlushPhases'
      /\ SentIsPast' /\ CutIsPast' /\ Fresh'
      /\ Covered' /\ InTimeIsKept'
  BY DEF Terminate, Safe, Alive, LockIsSession, WaitsEmpty, FlushPhases,
         SentIsPast, CutIsPast, Fresh, Covered, InTimeIsKept
<1> QED
  BY <1>1, <1>2 DEF Safe

\* The action Kill keeps the recorder safe.
LEMMA SafeKill ==
    ASSUME Safe, NEW p \in Recorders, Kill(p)
    PROVE  Safe'
<1>1. TypeOK'
  BY TypeStep DEF Safe, Step
<1>2. /\ WaitsEmpty' /\ FlushPhases' /\ SentIsPast'
      /\ CutIsPast' /\ Fresh' /\ Covered'
      /\ InTimeIsKept'
  BY DEF Kill, Gone, Safe, TypeOK, Alive, WaitsEmpty, FlushPhases, SentIsPast,
         CutIsPast, Fresh, Covered, InTimeIsKept
<1>3. LockIsSession'
  BY FreeAssumption DEF Kill, Gone, Unlocked, Safe, TypeOK, LockIsSession
<1> QED
  BY <1>1, <1>2, <1>3 DEF Safe

\* The action GiveUp keeps the recorder safe.
LEMMA SafeGiveUp ==
    ASSUME Safe, NEW p \in Recorders, GiveUp(p)
    PROVE  Safe'
<1>1. TypeOK'
  BY TypeStep DEF Safe, Step
<1>2. /\ WaitsEmpty' /\ FlushPhases' /\ SentIsPast'
      /\ CutIsPast' /\ Fresh' /\ Covered'
  BY DEF GiveUp, Gone, Safe, TypeOK, Alive, WaitsEmpty, FlushPhases,
         SentIsPast, CutIsPast, Fresh, Covered
<1>3. LockIsSession'
  BY DEF GiveUp, Gone, Unlocked, Safe, LockIsSession, WaitsEmpty
<1>4. InTimeIsKept'
  BY DEF GiveUp, Gone, Safe, WaitsEmpty, InTimeIsKept
<1> QED
  BY <1>1, <1>2, <1>3, <1>4 DEF Safe

\* The action LoseSession keeps the recorder safe.
LEMMA SafeLoseSession ==
    ASSUME Safe, NEW p \in Recorders, LoseSession(p)
    PROVE  Safe'
<1>1. TypeOK'
  BY TypeStep DEF Safe, Step
<1>2. /\ WaitsEmpty' /\ FlushPhases' /\ SentIsPast'
      /\ CutIsPast' /\ Fresh' /\ InTimeIsKept'
  BY DEF LoseSession, Safe, Alive, WaitsEmpty, FlushPhases, SentIsPast,
         CutIsPast, Fresh, InTimeIsKept
<1>3. LockIsSession'
  BY FreeAssumption, MsgsAssumption
     DEF LoseSession, Unlocked, Safe, TypeOK, Alive, Msg, LockIsSession,
         WaitsEmpty, FlushPhases, SentIsPast, CutIsPast, Fresh, Covered
<1>4. Covered'
  BY FreeAssumption, MsgsAssumption
     DEF LoseSession, Unlocked, Safe, TypeOK, Alive, Msg, LockIsSession,
         WaitsEmpty, FlushPhases, SentIsPast, CutIsPast, Fresh, Covered
<1> QED
  BY <1>1, <1>2, <1>3, <1>4 DEF Safe

\* The action GoOnline keeps the recorder safe.
LEMMA SafeGoOnline ==
    ASSUME Safe, NEW p \in Recorders, GoOnline(p)
    PROVE  Safe'
<1>1. TypeOK'
  BY TypeStep DEF Safe, Step
<1>2. /\ LockIsSession' /\ WaitsEmpty' /\ FlushPhases'
      /\ SentIsPast' /\ CutIsPast' /\ Fresh'
      /\ Covered' /\ InTimeIsKept'
  BY DEF GoOnline, Safe, Alive, LockIsSession, WaitsEmpty, FlushPhases,
         SentIsPast, CutIsPast, Fresh, Covered, InTimeIsKept
<1> QED
  BY <1>1, <1>2 DEF Safe

\* The action Disconnect keeps the recorder safe.
LEMMA SafeDisconnect ==
    ASSUME Safe, NEW p \in Recorders, Disconnect(p)
    PROVE  Safe'
<1>1. TypeOK'
  BY TypeStep DEF Safe, Step
<1>2. /\ LockIsSession' /\ WaitsEmpty' /\ FlushPhases'
      /\ SentIsPast' /\ CutIsPast' /\ Fresh'
      /\ Covered' /\ InTimeIsKept'
  BY DEF Disconnect, Safe, Alive, LockIsSession, WaitsEmpty, FlushPhases,
         SentIsPast, CutIsPast, Fresh, Covered, InTimeIsKept
<1> QED
  BY <1>1, <1>2 DEF Safe

\* The action LeaveLoop keeps the recorder safe.
LEMMA SafeLeaveLoop ==
    ASSUME Safe, NEW p \in Recorders, LeaveLoop(p)
    PROVE  Safe'
<1>1. TypeOK'
  BY TypeStep DEF Safe, Step
<1>2. /\ LockIsSession' /\ WaitsEmpty' /\ FlushPhases'
      /\ SentIsPast' /\ CutIsPast' /\ Fresh'
      /\ Covered' /\ InTimeIsKept'
  BY DEF LeaveLoop, Safe, Alive, LockIsSession, WaitsEmpty, FlushPhases,
         SentIsPast, CutIsPast, Fresh, Covered, InTimeIsKept
<1> QED
  BY <1>1, <1>2 DEF Safe

\* The action Select keeps the recorder safe.
LEMMA SafeSelect ==
    ASSUME Safe, NEW p \in Recorders, Select(p)
    PROVE  Safe'
<1>1. TypeOK'
  BY TypeStep DEF Safe, Step
<1>2. /\ LockIsSession' /\ WaitsEmpty' /\ FlushPhases'
      /\ SentIsPast' /\ CutIsPast' /\ Fresh'
      /\ Covered' /\ InTimeIsKept'
  BY DEF Select, Safe, Closed, AfterFlush, TypeOK, Alive, LockIsSession,
         WaitsEmpty, FlushPhases, SentIsPast, CutIsPast, Fresh, Covered,
         InTimeIsKept
<1> QED
  BY <1>1, <1>2 DEF Safe

\* The session is the only one that is open, so that only this recorder has to
\* be fresh after the write; what it popped is in the rows, or torn.
LEMMA SafeCommit ==
    ASSUME Safe, NEW p \in Recorders, Commit(p)
    PROVE  Safe'
<1>1. TypeOK'
  BY TypeStep DEF Safe, Step
<1>2. /\ LockIsSession' /\ WaitsEmpty' /\ FlushPhases'
      /\ SentIsPast' /\ CutIsPast' /\ Covered'
  BY DEF Commit, Safe, Written, AfterFlush, TypeOK, Upserted, Alive,
         LockIsSession, WaitsEmpty, FlushPhases, SentIsPast, CutIsPast, Covered
<1>3. Fresh'
  BY DEF Commit, Written, Upserted, Buckets, Safe, TypeOK, Alive,
         LockIsSession, Fresh
<1>4. InTimeIsKept'
  BY DEF Commit, Written, Upserted, Buckets, Safe, Alive, FlushPhases, Fresh,
         Covered, InTimeIsKept
<1> QED
  BY <1>1, <1>2, <1>3, <1>4 DEF Safe

\* The action Raise keeps the recorder safe.
LEMMA SafeRaise ==
    ASSUME Safe, NEW p \in Recorders, Raise(p)
    PROVE  Safe'
<1>1. TypeOK'
  BY TypeStep DEF Safe, Step
<1>2. /\ WaitsEmpty' /\ FlushPhases' /\ SentIsPast'
      /\ CutIsPast' /\ Covered'
  BY DEF Raise, Failed, Safe, TypeOK, Upserted, Alive, WaitsEmpty, FlushPhases,
         SentIsPast, CutIsPast, Covered
<1>3. LockIsSession'
  BY FreeAssumption DEF Raise, Failed, Unlocked, Safe, TypeOK, LockIsSession
<1>4. Fresh'
  BY DEF Raise, Failed, Safe, TypeOK, Alive, LockIsSession, Fresh
<1>5. InTimeIsKept'
  BY DEF Raise, Failed, Upserted, Buckets, Safe, Alive, FlushPhases, Fresh,
         InTimeIsKept
<1> QED
  BY <1>1, <1>2, <1>3, <1>4, <1>5 DEF Safe

\* The action FinalFlush keeps the recorder safe.
LEMMA SafeFinalFlush ==
    ASSUME Safe, NEW p \in Recorders, FinalFlush(p)
    PROVE  Safe'
<1>1. TypeOK'
  BY TypeStep DEF Safe, Step
<1>2. /\ LockIsSession' /\ WaitsEmpty' /\ FlushPhases'
      /\ SentIsPast' /\ Fresh' /\ Covered'
      /\ InTimeIsKept'
  BY DEF FinalFlush, Safe, TypeOK, Alive, LockIsSession, WaitsEmpty,
         FlushPhases, SentIsPast, Fresh, Covered, InTimeIsKept
<1>3. CutIsPast'
  BY MsgsAssumption
     DEF FinalFlush, Buckets, Safe, TypeOK, Alive, Msg, FlushPhases,
         SentIsPast, CutIsPast
<1> QED
  BY <1>1, <1>2, <1>3 DEF Safe

\* The action Rethrow keeps the recorder safe.
LEMMA SafeRethrow ==
    ASSUME Safe, NEW p \in Recorders, Rethrow(p)
    PROVE  Safe'
<1>1. TypeOK'
  BY TypeStep DEF Safe, Step
<1>2. /\ WaitsEmpty' /\ FlushPhases' /\ SentIsPast'
      /\ CutIsPast' /\ Fresh' /\ Covered'
  BY DEF Rethrow, Gone, Safe, TypeOK, Alive, WaitsEmpty, FlushPhases,
         SentIsPast, CutIsPast, Fresh, Covered
<1>3. LockIsSession'
  BY FreeAssumption DEF Rethrow, Gone, Unlocked, Safe, TypeOK, LockIsSession
<1>4. InTimeIsKept'
  BY DEF Rethrow, Gone, Safe, FlushPhases, InTimeIsKept
<1> QED
  BY <1>1, <1>2, <1>3, <1>4 DEF Safe

\* The action ForcedCommit keeps the recorder safe.
LEMMA SafeForcedCommit ==
    ASSUME Safe, NEW p \in Recorders, ForcedCommit(p)
    PROVE  Safe'
<1>1. TypeOK'
  BY TypeStep DEF Safe, Step
<1>2. /\ LockIsSession' /\ WaitsEmpty' /\ SentIsPast'
      /\ CutIsPast' /\ Covered'
  BY DEF ForcedCommit, Safe, Written, Upserted, Alive, LockIsSession,
         WaitsEmpty, SentIsPast, CutIsPast, Covered
<1>3. Fresh'
  BY DEF ForcedCommit, Written, Upserted, Buckets, Safe, TypeOK, Alive,
         LockIsSession, Fresh
<1>4. InTimeIsKept'
  BY DEF ForcedCommit, Written, Upserted, Buckets, Safe, Alive, FlushPhases,
         Fresh, InTimeIsKept
\* The final flush wrote all of the memory, so that nothing is left of it.
<1>5. FlushPhases'
  <2>1. pc[p] = "final" /\ flush[p] = "done" /\ flush' = flush /\ pc' = pc
    BY DEF ForcedCommit, Safe, FlushPhases
  <2>2. rows'[p] = {} /\ intime' = intime
    BY DEF ForcedCommit, Written, Safe, TypeOK
  <2>3. held'[p] = {m \in held[p] : m.bucket \notin Buckets(rows[p])}
    BY DEF ForcedCommit, Written, Safe, TypeOK
  <2>4. rows[p] = held[p] => held'[p] = {}
    BY <2>3 DEF Buckets
  <2>5. \A q \in Recorders \ {p} : rows'[q] = rows[q] /\ held'[q] = held[q]
    BY DEF ForcedCommit, Written, Safe, TypeOK
  <2> QED
    BY <2>1, <2>2, <2>4, <2>5 DEF Safe, FlushPhases
<1> QED
  BY <1>1, <1>2, <1>3, <1>4, <1>5 DEF Safe

\* The action ForcedFail keeps the recorder safe.
LEMMA SafeForcedFail ==
    ASSUME Safe, NEW p \in Recorders, ForcedFail(p)
    PROVE  Safe'
<1>1. TypeOK'
  BY TypeStep DEF Safe, Step
<1>2. /\ WaitsEmpty' /\ FlushPhases' /\ SentIsPast'
      /\ CutIsPast' /\ Covered'
  BY DEF ForcedFail, Failed, Safe, TypeOK, Upserted, Alive, WaitsEmpty,
         FlushPhases, SentIsPast, CutIsPast, Covered
<1>3. LockIsSession'
  BY FreeAssumption
     DEF ForcedFail, Failed, Unlocked, Safe, TypeOK, LockIsSession
<1>4. Fresh'
  BY DEF ForcedFail, Failed, Safe, TypeOK, Alive, LockIsSession, Fresh
<1>5. InTimeIsKept'
  BY DEF ForcedFail, Failed, Upserted, Buckets, Safe, Alive, FlushPhases,
         Fresh, InTimeIsKept
<1> QED
  BY <1>1, <1>2, <1>3, <1>4, <1>5 DEF Safe

\* The action Cleanup keeps the recorder safe.
LEMMA SafeCleanup ==
    ASSUME Safe, NEW p \in Recorders, Cleanup(p)
    PROVE  Safe'
<1>1. TypeOK'
  BY TypeStep DEF Safe, Step
<1>2. /\ WaitsEmpty' /\ FlushPhases' /\ SentIsPast'
      /\ CutIsPast' /\ Fresh' /\ Covered'
  BY DEF Cleanup, Gone, Safe, TypeOK, Alive, WaitsEmpty, FlushPhases,
         SentIsPast, CutIsPast, Fresh, Covered
<1>3. LockIsSession'
  BY FreeAssumption DEF Cleanup, Gone, Unlocked, Safe, TypeOK, LockIsSession
<1>4. InTimeIsKept'
  BY DEF Cleanup, Gone, Safe, FlushPhases, InTimeIsKept
<1> QED
  BY <1>1, <1>2, <1>3, <1>4 DEF Safe

\* The message is torn, or no row of its bucket is cut.
LEMMA SafeDeliver ==
    ASSUME Safe, NEW p \in Recorders, NEW m \in wire[p], Deliver(p, m)
    PROVE  Safe'
<1>1. TypeOK'
  BY TypeStep DEF Safe, Step
<1>2. /\ LockIsSession' /\ WaitsEmpty' /\ FlushPhases'
      /\ SentIsPast' /\ CutIsPast' /\ InTimeIsKept'
  BY DEF Deliver, Safe, Alive, TypeOK, LockIsSession, WaitsEmpty, FlushPhases,
         SentIsPast, CutIsPast, InTimeIsKept
<1>3. Fresh'
  BY DEF Deliver, Buckets, Cut, Safe, Alive, CutIsPast, Fresh
<1>4. Covered'
  BY DEF Deliver, Buckets, Cut, Safe, Alive, CutIsPast, Covered
<1> QED
  BY <1>1, <1>2, <1>3, <1>4 DEF Safe

\* Every step of a recorder keeps it safe.
LEMMA SafeStep ==
    ASSUME Safe, NEW p \in Recorders, Step(p)
    PROVE  Safe'
BY SafeStart, SafeAcquire, SafeTerminate, SafeKill, SafeGiveUp,
   SafeLoseSession, SafeGoOnline, SafeDisconnect, SafeDeliver, SafeLeaveLoop,
   SafeSelect, SafeCommit, SafeRaise, SafeFinalFlush, SafeRethrow,
   SafeForcedCommit, SafeForcedFail, SafeCleanup
   DEF Step

\* The clock keeps the recorder safe.
LEMMA SafeTick ==
    ASSUME Safe, Tick
    PROVE  Safe'
<1>1. TypeOK'
  BY TypeNext DEF Safe, Next
<1>2. SentIsPast' /\ CutIsPast'
  <2>1. clock \in Nat /\ clock' = clock + 1
    BY BoundAssumption DEF Tick, Safe, TypeOK
  <2>2. \A m \in Msgs : /\ m.bucket <= clock => m.bucket <= clock'
                        /\ m.bucket < clock => m.bucket < clock'
    BY <2>1, MsgBucket
  <2> QED
    BY <2>2 DEF Tick, own, Safe, TypeOK, SentIsPast, CutIsPast
<1>3. /\ LockIsSession' /\ WaitsEmpty' /\ FlushPhases'
      /\ Fresh' /\ Covered' /\ InTimeIsKept'
  BY DEF Tick, own, Safe, Alive, LockIsSession, WaitsEmpty, FlushPhases, Fresh,
         Covered, InTimeIsKept
<1> QED
  BY <1>1, <1>2, <1>3 DEF Safe

\* A message of the exchange keeps the recorder safe.
LEMMA SafeSend ==
    ASSUME Safe, NEW m \in Msgs, Send(m)
    PROVE  Safe'
<1>1. TypeOK'
  BY TypeNext DEF Safe, Next
<1>2. SentIsPast'
  BY MsgBucket DEF Send, Safe, TypeOK, SentIsPast
<1>3. WaitsEmpty'
  <2>1. \A p \in Recorders : ~online[p] => wire'[p] = wire[p]
    BY DEF Send, Safe, TypeOK
  <2>2. \A p \in Recorders : pc[p] \in {"off", "retry"} => ~online[p]
    BY DEF Safe, TypeOK
  <2> QED
    BY <2>1, <2>2 DEF Send, Safe, WaitsEmpty
<1>4. /\ LockIsSession' /\ FlushPhases' /\ CutIsPast'
      /\ Fresh' /\ Covered' /\ InTimeIsKept'
  BY DEF Send, Safe, Alive, LockIsSession, FlushPhases, CutIsPast, Fresh,
         Covered, InTimeIsKept
<1> QED
  BY <1>1, <1>2, <1>3, <1>4 DEF Safe

\* Every step keeps the recorder safe.
LEMMA SafeNext == Safe /\ [Next]_vars => Safe'
<1> SUFFICES ASSUME Safe, [Next]_vars
             PROVE  Safe'
  OBVIOUS
<1>1. CASE UNCHANGED vars
  <2>1. TypeOK'
    BY TypeNext DEF Safe
  <2> QED
    BY <1>1, <2>1
       DEF vars, own, Safe, Alive, LockIsSession, WaitsEmpty, FlushPhases,
           SentIsPast, CutIsPast, Fresh, Covered, InTimeIsKept
<1> QED
  BY <1>1, SafeTick, SafeSend, SafeStep, NextCases

\* The lock and the one open session are the same, a recorder that can write is
\* fresh, and the rows it writes are whole, but for torn buckets.
THEOREM RecorderSafety == Spec => []Safe
BY SafeInit, SafeNext, PTL DEF Spec

-----------------------------------------------------------------------------
(* What the users of the table rely on *)

\* No two recorders can write at the same time.
THEOREM WritesAreExclusiveHolds == Spec => []WritesAreExclusive
<1>1. Safe => WritesAreExclusive
  BY DEF Safe, LockIsSession, WritesAreExclusive, CanWrite
<1> QED
  BY <1>1, RecorderSafety, PTL

\* A message that came before its row was cut is in memory or in the table.
THEOREM InTimeIsKeptHolds == Spec => []InTimeIsKept
<1>1. Safe => InTimeIsKept
  BY DEF Safe
<1> QED
  BY <1>1, RecorderSafety, PTL

\* A write that replaces a row is a write to a torn bucket: the recorder that
\* writes is alive, so it has no message for a row that is there.
LEMMA UpsertAdds ==
    ASSUME Safe, NEW p \in Recorders, Alive(p), stored' = Upserted(p),
           NEW b, b \notin torn, RowOf(stored, b) # {}
    PROVE  RowOf(stored', b) = RowOf(stored, b)
<1>1. PICK k \in stored : k.bucket = b
  BY DEF RowOf
<1>2. \A m \in rows[p] : m.bucket # b
  BY <1>1 DEF Safe, FlushPhases, Fresh
<1> QED
  BY <1>2 DEF Upserted, Buckets, RowOf

\* What writes the table at all.
LEMMA WhoWrites ==
    ASSUME Safe, [Next]_vars
    PROVE  \/ stored' = stored
           \/ /\ torn' = torn
              /\ \E p \in Recorders : Alive(p) /\ stored' = Upserted(p)
<1>1. ASSUME NEW p \in Recorders, Commit(p) \/ Raise(p)
      PROVE  \/ stored' = stored
             \/ torn' = torn /\ Alive(p) /\ stored' = Upserted(p)
  BY <1>1 DEF Commit, Written, Raise, Failed, Alive
<1>2. ASSUME NEW p \in Recorders, ForcedCommit(p) \/ ForcedFail(p)
      PROVE  \/ stored' = stored
             \/ torn' = torn /\ Alive(p) /\ stored' = Upserted(p)
  BY <1>2 DEF ForcedCommit, Written, ForcedFail, Failed, Alive, Safe, FlushPhases
<1>3. ASSUME NEW p \in Recorders, Step(p),
             ~(Commit(p) \/ Raise(p) \/ ForcedCommit(p) \/ ForcedFail(p))
      PROVE  stored' = stored
  BY <1>3 DEF Step, Start, Acquire, Terminate, Kill, GiveUp, LoseSession,
              GoOnline, Disconnect, Deliver, LeaveLoop, Select, FinalFlush,
              Rethrow, Cleanup
<1>4. ASSUME Tick \/ (\E m \in Msgs : Send(m)) \/ UNCHANGED vars
      PROVE  stored' = stored
  BY <1>4 DEF Tick, Send, vars
<1> QED
  BY <1>1, <1>2, <1>3, <1>4, NextCases

\* A row is written once, unless its bucket is torn.
THEOREM RowIsWrittenOnceHolds == Spec => RowIsWrittenOnce
<1>1. Safe /\ [Next]_vars =>
        [\A b \in 0..LastBucket :
            b \notin torn' /\ RowOf(stored, b) # {}
            => RowOf(stored', b) = RowOf(stored, b)]_vars
  BY WhoWrites, UpsertAdds
<1> QED
  BY <1>1, RecorderSafety, PTL DEF Spec, RowIsWrittenOnce

-----------------------------------------------------------------------------
(* Counting, for the studies of the buckets *)

\* A finite set fits into one that is no smaller.
LEMMA SmallerFits ==
    ASSUME NEW X, NEW Y, IsFiniteSet(X), IsFiniteSet(Y), Cardinality(X) <= Cardinality(Y)
    PROVE  \E f : f \in Injection(X, Y)
<1>1. /\ Cardinality(X) \in Nat /\ Cardinality(Y) \in Nat
      /\ ExistsBijection(1..Cardinality(X), X) /\ ExistsBijection(1..Cardinality(Y), Y)
  BY FS_CardinalityType
<1>2. PICK g \in Bijection(1..Cardinality(X), X) : TRUE
  BY <1>1 DEF ExistsBijection
<1>3. PICK h \in Bijection(1..Cardinality(Y), Y) : TRUE
  BY <1>1 DEF ExistsBijection
<1> DEFINE n == Cardinality(X)
           m == Cardinality(Y)
<1> HIDE DEF n, m
<1>4. n \in Nat /\ m \in Nat /\ n <= m /\ 1..n \subseteq 1..m
  <2>1. n \in Nat /\ m \in Nat /\ n <= m
    BY <1>1 DEF n, m
  <2> QED BY <2>1
<1>5. /\ g \in [1..n -> X] /\ \A x \in X : \E i \in 1..n : g[i] = x
      /\ \A i, j \in 1..n : g[i] = g[j] => i = j
  BY <1>2 DEF Bijection, Injection, Surjection, IsInjective, n
<1>6. h \in [1..m -> Y] /\ \A i, j \in 1..m : h[i] = h[j] => i = j
  BY <1>3 DEF Bijection, Injection, Surjection, IsInjective, m
<1> DEFINE place == [x \in X |-> CHOOSE i \in 1..n : g[i] = x]
           f == [x \in X |-> h[place[x]]]
<1>7. \A x \in X : place[x] \in 1..n /\ place[x] \in 1..m /\ g[place[x]] = x
  BY <1>4, <1>5
<1> HIDE DEF place
<1>8. f \in [X -> Y] /\ \A x, y \in X : f[x] = f[y] => x = y
  BY <1>6, <1>7
<1> QED BY <1>8 DEF Injection, IsInjective

\* What belongs to one of several owners.
Owned(X, owner, s) == {x \in X : owner[x] = s}

\* A set is no larger than another one if no owner has more of it.
LEMMA OwnersCompare ==
    ASSUME NEW X, NEW Y, IsFiniteSet(X), IsFiniteSet(Y), NEW S, NEW a, NEW b,
           \A x \in X : a[x] \in S,
           \A s \in S : Cardinality(Owned(X, a, s)) <= Cardinality(Owned(Y, b, s))
    PROVE  Cardinality(X) <= Cardinality(Y)
<1> DEFINE fit == [s \in S |-> CHOOSE f : f \in Injection(Owned(X, a, s), Owned(Y, b, s))]
<1>1. ASSUME NEW s \in S
      PROVE  fit[s] \in Injection(Owned(X, a, s), Owned(Y, b, s))
  <2>1. Owned(X, a, s) \in SUBSET X /\ Owned(Y, b, s) \in SUBSET Y
    BY DEF Owned
  <2>2. IsFiniteSet(Owned(X, a, s)) /\ IsFiniteSet(Owned(Y, b, s))
    BY <2>1, FS_Subset
  <2>3. \E f : f \in Injection(Owned(X, a, s), Owned(Y, b, s))
    BY <2>2, SmallerFits
  <2> QED BY <2>3
<1> HIDE DEF fit
<1> DEFINE g == [x \in X |-> fit[a[x]][x]]
<1>2. ASSUME NEW x \in X
      PROVE  g[x] \in Y /\ b[g[x]] = a[x]
  <2>1. x \in Owned(X, a, a[x])
    BY DEF Owned
  <2>2. fit[a[x]] \in [Owned(X, a, a[x]) -> Owned(Y, b, a[x])]
    BY <1>1 DEF Injection
  <2>3. g[x] \in Owned(Y, b, a[x])
    BY <2>1, <2>2
  <2> QED BY <2>3 DEF Owned
<1>3. ASSUME NEW x \in X, NEW y \in X, g[x] = g[y]
      PROVE  x = y
  <2>1. a[x] = a[y]
    BY <1>2, <1>3
  <2>2. x \in Owned(X, a, a[x]) /\ y \in Owned(X, a, a[x])
    BY <2>1 DEF Owned
  <2>3. fit[a[x]][x] = fit[a[x]][y]
    BY <1>3, <2>1
  <2>4. fit[a[x]] \in Injection(Owned(X, a, a[x]), Owned(Y, b, a[x]))
    BY <1>1
  <2> QED BY <2>2, <2>3, <2>4 DEF Injection, IsInjective
<1>4. g \in Injection(X, Y)
  BY <1>2, <1>3 DEF Injection, IsInjective
<1> QED BY <1>4, FS_Injection

\* The units of finitely many naturals are finite, and each index has its number
\* of them.
LEMMA UnitsAreCounted ==
    ASSUME NEW S, IsFiniteSet(S), NEW f \in [S -> Nat]
    PROVE  /\ IsFiniteSet(Units(f)) /\ SumOver(f) \in Nat
           /\ \A u \in Units(f) : u = <<u[1], u[2]>> /\ u[1] \in S /\ u[2] \in 1..f[u[1]]
           /\ \A s \in S : \A n \in 1..f[s] : <<s, n>> \in Units(f)
           /\ \A s \in S : Cardinality({u \in Units(f) : u[1] = s}) = f[s]
<1>1. /\ \A u \in Units(f) : u = <<u[1], u[2]>> /\ u[1] \in S /\ u[2] \in 1..f[u[1]]
      /\ \A s \in S : \A n \in 1..f[s] : <<s, n>> \in Units(f)
  BY DEF Units
<1>2. IsFiniteSet(Units(f))
  <2> DEFINE g == [s \in S |-> {s} \X (1..f[s])]
             Parts == {{s} \X (1..f[s]) : s \in S}
  <2>1. g \in Surjection(S, Parts)
    BY DEF Surjection
  <2>2. IsFiniteSet(Parts)
    BY <2>1, FS_Surjection
  <2>3. \A s \in S : IsFiniteSet({s} \X (1..f[s]))
    <3> TAKE s \in S
    <3>1. 1 \in Int /\ f[s] \in Int
      OBVIOUS
    <3>2. IsFiniteSet({s}) /\ IsFiniteSet(1..f[s])
      BY <3>1, FS_Singleton, FS_Interval
    <3> QED BY <3>2, FS_Product
  <2>4. IsFiniteSet(UNION Parts)
    BY <2>2, <2>3, FS_UNION
  <2> QED BY <2>4 DEF Units
<1>3. ASSUME NEW s \in S
      PROVE  Cardinality({u \in Units(f) : u[1] = s}) = f[s]
  <2> DEFINE h == [n \in 1..f[s] |-> <<s, n>>]
             U == {u \in Units(f) : u[1] = s}
  <2>1. \A u \in U : u[2] \in 1..f[s] /\ u = h[u[2]]
    BY <1>1
  <2>2. h \in Bijection(1..f[s], U)
    <3>1. h \in [1..f[s] -> U]
      BY <1>1
    <3>2. \A u \in U : \E n \in 1..f[s] : h[n] = u
      BY <2>1
    <3>3. \A m, n \in 1..f[s] : h[m] = h[n] => m = n
      OBVIOUS
    <3> HIDE DEF h, U
    <3> QED BY <3>1, <3>2, <3>3 DEF Bijection, Injection, Surjection, IsInjective
  <2>3. IsFiniteSet(1..f[s]) /\ Cardinality(1..f[s]) = f[s]
    BY FS_Interval
  <2>4. ExistsBijection(1..f[s], U)
    BY <2>2 DEF ExistsBijection
  <2> QED BY <2>3, <2>4, FS_Bijection
<1>4. SumOver(f) \in Nat
  BY <1>2, FS_CardinalityType DEF SumOver
<1> QED BY <1>1, <1>2, <1>3, <1>4

\* A set is the sum of what its owners have.
LEMMA SumOfOwned ==
    ASSUME NEW S, IsFiniteSet(S), NEW f \in [S -> Nat], NEW X, IsFiniteSet(X), NEW a,
           \A x \in X : a[x] \in S, \A s \in S : f[s] = Cardinality(Owned(X, a, s))
    PROVE  Cardinality(X) = SumOver(f)
<1> DEFINE U == Units(f)
           b == [u \in U |-> u[1]]
<1>1. /\ IsFiniteSet(U) /\ \A u \in U : u[1] \in S
      /\ \A s \in S : Cardinality({u \in U : u[1] = s}) = f[s]
  BY UnitsAreCounted
<1>2. \A s \in S : Owned(U, b, s) = {u \in U : u[1] = s}
  BY DEF Owned
<1> HIDE DEF U
<1>3. /\ \A u \in U : b[u] \in S
      /\ \A s \in S : Cardinality(Owned(U, b, s)) = f[s]
  BY <1>1, <1>2
<1> HIDE DEF b
<1>4. Cardinality(X) \in Nat /\ Cardinality(U) \in Nat
  BY <1>1, FS_CardinalityType
<1>5. \A s \in S : /\ Cardinality(Owned(X, a, s)) <= Cardinality(Owned(U, b, s))
                   /\ Cardinality(Owned(U, b, s)) <= Cardinality(Owned(X, a, s))
  <2> TAKE s \in S
  <2>1. f[s] \in Nat /\ Cardinality(Owned(X, a, s)) = f[s] /\ Cardinality(Owned(U, b, s)) = f[s]
    BY <1>3
  <2> QED BY <2>1
<1>6. Cardinality(X) <= Cardinality(U)
  BY <1>1, <1>5, OwnersCompare
<1>7. Cardinality(U) <= Cardinality(X)
  BY <1>1, <1>3, <1>5, OwnersCompare
<1> QED BY <1>4, <1>6, <1>7 DEF U, SumOver

\* Greater numbers have a greater sum.
LEMMA SumCompares ==
    ASSUME NEW S, IsFiniteSet(S), NEW f \in [S -> Nat], NEW g \in [S -> Nat],
           \A s \in S : f[s] <= g[s]
    PROVE  SumOver(f) <= SumOver(g) /\ ((\E s \in S : f[s] < g[s]) => SumOver(f) < SumOver(g))
<1>1. IsFiniteSet(Units(g)) /\ SumOver(f) \in Nat /\ SumOver(g) \in Nat
  BY UnitsAreCounted
<1>2. Units(f) \in SUBSET Units(g)
  <2>1. ASSUME NEW u \in Units(f) PROVE u \in Units(g)
    <3>1. u = <<u[1], u[2]>> /\ u[1] \in S /\ u[2] \in 1..f[u[1]]
      BY UnitsAreCounted
    <3>2. u[2] \in 1..g[u[1]]
      BY <3>1
    <3>3. <<u[1], u[2]>> \in Units(g)
      BY <3>1, <3>2, UnitsAreCounted
    <3> QED BY <3>1, <3>3
  <2> QED BY <2>1
<1>3. SumOver(f) <= SumOver(g) /\ (SumOver(f) = SumOver(g) => Units(g) = Units(f))
  BY <1>1, <1>2, FS_Subset DEF SumOver
<1>4. ASSUME NEW s \in S, f[s] < g[s]
      PROVE  SumOver(f) < SumOver(g)
  <2>1. g[s] \in 1..g[s] /\ g[s] \notin 1..f[s]
    BY <1>4
  <2>2. <<s, g[s]>> \in Units(g)
    BY <2>1, UnitsAreCounted
  <2>3. <<s, g[s]>> \notin Units(f)
    <3>1. \A u \in Units(f) : u[2] \in 1..f[u[1]]
      BY UnitsAreCounted
    <3> QED BY <2>1, <3>1
  <2> QED BY <1>1, <1>3, <2>2, <2>3
<1> QED BY <1>3, <1>4

\* The sum of sums.
LEMMA SumsAdd ==
    ASSUME NEW S, IsFiniteSet(S), NEW f \in [S -> Nat], NEW g \in [S -> Nat]
    PROVE  SumOver([s \in S |-> f[s] + g[s]]) = SumOver(f) + SumOver(g)
<1> DEFINE h == [s \in S |-> f[s] + g[s]]
           Upper == {u \in Units(h) : u[2] > f[u[1]]}
           up == [u \in Units(g) |-> <<u[1], u[2] + f[u[1]]>>]
<1>1. h \in [S -> Nat] /\ \A s \in S : h[s] = f[s] + g[s]
  OBVIOUS
<1> HIDE DEF h
<1>2. /\ IsFiniteSet(Units(f)) /\ IsFiniteSet(Units(g)) /\ IsFiniteSet(Units(h))
      /\ SumOver(f) \in Nat /\ SumOver(g) \in Nat
  BY <1>1, UnitsAreCounted
<1>3. /\ \A u \in Units(f) : u = <<u[1], u[2]>> /\ u[1] \in S /\ u[2] \in 1..f[u[1]]
      /\ \A u \in Units(g) : u = <<u[1], u[2]>> /\ u[1] \in S /\ u[2] \in 1..g[u[1]]
      /\ \A u \in Units(h) : u = <<u[1], u[2]>> /\ u[1] \in S /\ u[2] \in 1..h[u[1]]
  BY <1>1, UnitsAreCounted
<1>4. /\ \A s \in S : \A n \in 1..f[s] : <<s, n>> \in Units(f)
      /\ \A s \in S : \A n \in 1..g[s] : <<s, n>> \in Units(g)
      /\ \A s \in S : \A n \in 1..h[s] : <<s, n>> \in Units(h)
  BY <1>1, UnitsAreCounted
<1>5. Units(h) = Units(f) \cup Upper /\ Units(f) \cap Upper = {}
  <2>1. ASSUME NEW u \in Units(f) PROVE u \in Units(h) /\ u \notin Upper
    <3>1. u = <<u[1], u[2]>> /\ u[1] \in S /\ u[2] \in 1..f[u[1]] /\ u[2] \in 1..h[u[1]]
      BY <1>1, <1>3
    <3>2. u \in Units(h)
      BY <1>4, <3>1
    <3> QED BY <3>1, <3>2
  <2>2. ASSUME NEW u \in Units(h), u \notin Upper PROVE u \in Units(f)
    <3>1. u = <<u[1], u[2]>> /\ u[1] \in S /\ u[2] \in 1..h[u[1]] /\ ~ (u[2] > f[u[1]])
      BY <1>3, <2>2
    <3>2. u[2] \in 1..f[u[1]]
      BY <1>1, <3>1
    <3> QED BY <1>4, <3>1, <3>2
  <2> QED BY <2>1, <2>2
<1>6. up \in Bijection(Units(g), Upper)
  <2>1. ASSUME NEW u \in Units(g) PROVE up[u] \in Upper
    <3>1. u[1] \in S /\ u[2] \in 1..g[u[1]]
      BY <1>3
    <3>2. u[2] + f[u[1]] \in 1..h[u[1]] /\ u[2] + f[u[1]] > f[u[1]]
      BY <1>1, <3>1
    <3> QED BY <1>4, <3>1, <3>2
  <2>2. ASSUME NEW u \in Units(g), NEW v \in Units(g), up[u] = up[v] PROVE u = v
    <3>1. u = <<u[1], u[2]>> /\ v = <<v[1], v[2]>> /\ u[1] \in S /\ v[1] \in S
      BY <1>3
    <3>2. u[1] = v[1] /\ u[2] + f[u[1]] = v[2] + f[v[1]]
      BY <2>2
    <3>3. u[2] \in Nat /\ v[2] \in Nat /\ f[u[1]] \in Nat
      BY <1>3
    <3>4. u[2] = v[2]
      BY <3>2, <3>3
    <3> QED BY <3>1, <3>2, <3>4
  <2>3. ASSUME NEW u \in Upper PROVE \E v \in Units(g) : up[v] = u
    <3>1. u = <<u[1], u[2]>> /\ u[1] \in S /\ u[2] \in 1..h[u[1]] /\ u[2] > f[u[1]]
      BY <1>3
    <3> DEFINE v == <<u[1], u[2] - f[u[1]]>>
    <3>2. u[2] - f[u[1]] \in 1..g[u[1]] /\ (u[2] - f[u[1]]) + f[u[1]] = u[2]
      BY <1>1, <3>1
    <3>3. v \in Units(g)
      BY <1>4, <3>1, <3>2
    <3>4. up[v] = u
      BY <3>1, <3>2, <3>3
    <3> QED BY <3>3, <3>4
  <2> HIDE DEF up, Upper
  <2>4. up \in [Units(g) -> Upper]
    BY <2>1 DEF up
  <2> QED BY <2>2, <2>3, <2>4 DEF Bijection, Injection, Surjection, IsInjective
<1>7. Upper \in SUBSET Units(h)
  OBVIOUS
<1> HIDE DEF up, Upper
<1>8. ExistsBijection(Units(g), Upper)
  BY <1>6 DEF ExistsBijection
<1>9. IsFiniteSet(Upper) /\ Cardinality(Upper) = SumOver(g)
  BY <1>2, <1>8, FS_Bijection DEF SumOver
<1>10. Cardinality(Units(h)) = Cardinality(Units(f)) + Cardinality(Upper) - Cardinality({})
  BY <1>2, <1>5, <1>9, FS_Union
<1>11. SumOver(h) = SumOver(f) + SumOver(g)
  BY <1>2, <1>9, <1>10, FS_EmptySet DEF SumOver
<1> QED BY <1>11 DEF h
-----------------------------------------------------------------------------
(* The inductive invariant of the studies *)

Signal == [symbol : StudySymbols, opened : Nat, version : 1..2,
           verified : BOOLEAN, closed : BOOLEAN]

FeatureRow == [id : Nat, symbol : StudySymbols, opened : Nat,
               windows : [Windows -> SUBSET Nat]]

Report == [kind : {"none", "effect", "alignment"}, version : 0..2, since : Int, until : Nat,
           rows : SUBSET FeatureRow, counts : [StudySymbols -> Nat],
           todo : SUBSET {"rows", "counts"}, late : Nat]

\* The row of a signal, and the rows and counts of a study.
SignalRow(i) == [id |-> i, symbol |-> listed[i].symbol, opened |-> listed[i].opened,
             windows |-> WindowFeatures(listed[i])]

HasBuckets(i) == AlignedBuckets(listed[i]) # {}

RowsOf(v, a, b) == {SignalRow(i) : i \in {j \in Population(v, a, b) : HasBuckets(j)}}

Symbols(i) == listed[i].symbol

CountsOf(v, a, b) ==
    [s \in StudySymbols |-> Cardinality({i \in Population(v, a, b) : Symbols(i) = s})]

AllStored == \A s \in StudySymbols : Stored(s) # {}

StudyTypes ==
    /\ time \in Nat /\ live \in 1..2
    /\ listed \in Seq(Signal)
    /\ start \in [1..2 -> Nat] /\ start[1] = 1
    /\ report \in Report

\* Signals are of the past, and of versions that ran; one that an unverified build
\* journalled came before the cohort of the second study.
SignalsInOrder ==
    /\ start[2] # 0 => live = 2
    /\ \A i \in 1..Len(listed) :
          /\ listed[i].opened <= time
          /\ listed[i].version <= live
          /\ start[2] # 0 /\ ~ listed[i].verified => listed[i].opened < start[2]

\* The signals that were there when the report began.
Early(v, a, b) == {i \in Population(v, a, b) : i <= Len(listed) - report.late}

\* What a report has read is of its study as it is now: of the first one, whose
\* strategy is over, all of it, and of the second one at least what was there
\* when the report began.
ReportIsOf(v, a, b) ==
    /\ report.version = v /\ report.since = a /\ report.until = b
    /\ <<report.kind, v>> \in Studies
    /\ a = CommonStart /\ b = time
    /\ report.late <= Len(listed)
    /\ report.rows \subseteq RowsOf(v, a, b)
    /\ "counts" \notin report.todo =>
          \A s \in StudySymbols :
              Cardinality({i \in Early(v, a, b) : Symbols(i) = s}) <= report.counts[s]
    /\ v = 1 /\ "rows" \notin report.todo => report.rows = RowsOf(v, a, b)
    /\ v = 1 /\ "counts" \notin report.todo => report.counts = CountsOf(v, a, b)

ReportIsOfStudy ==
    report # NoReport =>
        /\ start[2] # 0 /\ AllStored
        /\ \E v \in 1..2, a, b \in Nat : ReportIsOf(v, a, b)

\* The published cohort is that of the first study up to some time, every signal
\* of which has a row.
PublishedOf(a, b) ==
    /\ a = CommonStart /\ b <= time
    /\ published = EarliestCohort(RowsOf(1, a, b))
    /\ \A i \in Population(1, a, b) : HasBuckets(i)

PublishedIsOfStudy ==
    published # {} => /\ live = 2 /\ AllStored
                      /\ \E a, b \in Nat : PublishedOf(a, b)

StudyInv == StudyTypes /\ SignalsInOrder /\ ReportIsOfStudy /\ PublishedIsOfStudy

-----------------------------------------------------------------------------
(* What a step keeps *)

\* What was stored stays, and what is new is of the bucket that ended.
LEMMA StoredGrows ==
    ASSUME time \in Nat, [StudyNext]_studyVars, NEW s
    PROVE  /\ time' \in Nat /\ time <= time'
           /\ Stored(s) \subseteq Stored(s)'
           /\ \A b \in Stored(s)' : b \in Nat /\ (b < time => b \in Stored(s))
           /\ time' = time => Stored(s)' = Stored(s)
<1>1. CASE NextBucket
  <2>1. /\ time' = time + 1
        /\ \E gone \in SUBSET {f \in Fragile : f[2] = time} : lost' = lost \cup gone
    BY <1>1 DEF NextBucket
  <2>2. PICK gone : (\A f \in gone : f[2] = time) /\ lost' = lost \cup gone
    BY <2>1
  <2>3. \A b \in 0..time - 1 : <<s, b>> \in lost' <=> <<s, b>> \in lost
    <3> TAKE b \in 0..time - 1
    <3>1. <<s, b>>[2] = b /\ b # time
      OBVIOUS
    <3>2. <<s, b>> \notin gone
      BY <2>2, <3>1
    <3> QED BY <2>2, <3>2
  <2> QED BY <2>1, <2>3 DEF Stored
<1>2. CASE ~ NextBucket
  <2>1. time' = time /\ lost' = lost
    BY <1>2 DEF StudyNext, studyVars, Upgrade, Verify, ListSignal, CloseSignal, StartReport,
                LoadRows, LoadCounts, FinishAlignment, FinishEffect
  <2> QED BY <2>1 DEF Stored
<1> QED BY <1>1, <1>2

\* Signals stay but for their outcomes, and one that is new is of the version that
\* runs.
LEMMA SignalsStay ==
    ASSUME StudyTypes, [StudyNext]_studyVars
    PROVE  /\ listed' \in Seq(Signal) /\ Len(listed) <= Len(listed')
           /\ \A i \in 1..Len(listed) :
                 /\ listed'[i].symbol = listed[i].symbol /\ listed'[i].opened = listed[i].opened
                 /\ listed'[i].version = listed[i].version
                 /\ listed'[i].verified = listed[i].verified
           /\ \A i \in Len(listed) + 1..Len(listed') :
                 /\ i = Len(listed) + 1
                 /\ listed'[i].opened <= time /\ listed'[i].version = live
                 /\ listed'[i].verified = Verified
           /\ listed' # listed => time' = time /\ start' = start /\ live' = live
<1>1. ASSUME NEW s \in StudySymbols, NEW opened \in 1..LastTime, NEW v \in 1..2,
             ListSignal(s, opened, v)
      PROVE  /\ listed' = Append(listed, [symbol |-> s, opened |-> opened, version |-> v,
                                          verified |-> Verified, closed |-> FALSE])
             /\ v = live /\ opened <= time /\ opened \in Nat
             /\ time' = time /\ start' = start /\ live' = live
  BY <1>1, StudyAssumption DEF ListSignal
<1>2. CASE \E s \in StudySymbols, opened \in 1..LastTime, v \in 1..2 : ListSignal(s, opened, v)
  <2>1. PICK s \in StudySymbols, opened \in 1..LastTime, v \in 1..2 : ListSignal(s, opened, v)
    BY <1>2
  <2> DEFINE signal == [symbol |-> s, opened |-> opened, version |-> v,
                        verified |-> Verified, closed |-> FALSE]
  <2>2. listed' = Append(listed, signal) /\ v = live /\ opened <= time /\ opened \in Nat
    BY <1>1, <2>1
  <2>3. Verified \in BOOLEAN
    BY DEF Verified
  <2>4. signal \in Signal
    BY <2>2, <2>3 DEF Signal
  <2>5. /\ signal.opened <= time /\ signal.version = live /\ signal.verified = Verified
    BY <2>2
  <2> HIDE DEF signal
  <2>6. /\ listed' \in Seq(Signal) /\ Len(listed') = Len(listed) + 1 /\ Len(listed) \in Nat
        /\ listed'[Len(listed) + 1] = signal /\ \A i \in 1..Len(listed) : listed'[i] = listed[i]
    BY <2>2, <2>4 DEF StudyTypes
  <2>7. time' = time /\ start' = start /\ live' = live
    BY <1>1, <2>1
  <2> QED BY <2>5, <2>6, <2>7
<1>3. CASE \E i \in DOMAIN listed : CloseSignal(i)
  <2>1. PICK i \in DOMAIN listed : CloseSignal(i)
    BY <1>3
  <2>2. listed' = [listed EXCEPT ![i].closed = TRUE]
    BY <2>1 DEF CloseSignal
  <2>3. listed \in Seq(Signal) /\ Len(listed) \in Nat /\ DOMAIN listed = 1..Len(listed)
    BY DEF StudyTypes
  <2> DEFINE n == Len(listed)
             closing == [listed[i] EXCEPT !.closed = TRUE]
  <2>4. /\ listed' = [j \in 1..n |-> IF j = i THEN closing ELSE listed[j]]
        /\ \A j \in 1..n : listed[j] \in Signal
    <3>1. listed' = [j \in DOMAIN listed |-> IF j = i THEN closing ELSE listed[j]]
      BY <2>2
    <3> HIDE DEF closing
    <3> QED BY <2>3, <3>1
  <2>8. /\ closing \in Signal
        /\ closing.symbol = listed[i].symbol /\ closing.opened = listed[i].opened
        /\ closing.version = listed[i].version /\ closing.verified = listed[i].verified
    <3>1. listed[i] \in Signal
      BY <2>3, <2>4
    <3> QED BY <3>1 DEF Signal
  <2> HIDE DEF closing
  <2>5. \A j \in 1..Len(listed) :
            /\ listed'[j] \in Signal
            /\ listed'[j].symbol = listed[j].symbol /\ listed'[j].opened = listed[j].opened
            /\ listed'[j].version = listed[j].version
            /\ listed'[j].verified = listed[j].verified
    BY <2>4, <2>8
  <2>6. listed' \in Seq(Signal) /\ Len(listed') = n
    BY <2>3, <2>4, <2>8
  <2>7. time' = time /\ start' = start /\ live' = live
    BY <2>1 DEF CloseSignal
  <2> QED BY <2>3, <2>5, <2>6, <2>7
<1>4. CASE listed' = listed
  BY <1>4 DEF StudyTypes
<1> QED BY <1>2, <1>3, <1>4 DEF StudyNext, studyVars, NextBucket, Upgrade, Verify, StartReport,
                LoadRows, LoadCounts, FinishAlignment, FinishEffect

\* The start of a study, once it is known, stays.
LEMMA StartsStay ==
    ASSUME StudyTypes, [StudyNext]_studyVars
    PROVE  /\ start' \in [1..2 -> Nat] /\ start'[1] = 1 /\ live' \in 1..2 /\ live <= live'
           /\ start[2] # 0 => start' = start
           /\ start' # start => /\ start'[2] = time + 1 /\ live = 2
                                /\ listed' = listed /\ live' = live /\ time' = time
                                /\ report' = report /\ published' = published
           /\ live' # live => start' = start /\ listed' = listed /\ time' = time
<1>1. CASE Verify
  <2>1. /\ start[2] = 0 /\ live = 2 /\ start' = [start EXCEPT ![2] = time + 1]
        /\ time' = time /\ listed' = listed /\ live' = live
        /\ report' = report /\ published' = published
    BY <1>1 DEF Verify, Verified
  <2> QED BY <2>1 DEF StudyTypes
<1>2. CASE Upgrade
  BY <1>2 DEF Upgrade, StudyTypes
<1>3. CASE start' = start /\ live' = live
  BY <1>3 DEF StudyTypes
<1> QED BY <1>1, <1>2, <1>3 DEF StudyNext, studyVars, NextBucket, ListSignal, CloseSignal,
                StartReport, LoadRows, LoadCounts, FinishAlignment, FinishEffect
\* The row of a signal is computed from buckets that were over when it was
\* journalled: it stays as it is.
LEMMA RowsStay ==
    ASSUME StudyTypes, SignalsInOrder, [StudyNext]_studyVars, NEW i \in 1..Len(listed)
    PROVE  SignalRow(i)' = SignalRow(i) /\ HasBuckets(i)' = HasBuckets(i)
<1>1. /\ listed'[i].symbol = listed[i].symbol /\ listed'[i].opened = listed[i].opened
  BY SignalsStay
<1>2. time \in Nat /\ listed[i].opened \in Nat /\ listed[i].opened <= time
  <2>1. listed[i] \in Signal
    BY DEF StudyTypes
  <2> QED BY <2>1 DEF StudyTypes, Signal, SignalsInOrder
<1>3. /\ time' \in Nat /\ time <= time'
      /\ Stored(listed[i].symbol) \subseteq Stored(listed[i].symbol)'
      /\ \A b \in Stored(listed[i].symbol)' :
            b \in Nat /\ (b < time => b \in Stored(listed[i].symbol))
  <2>1. \A s : /\ time' \in Nat /\ time <= time'
               /\ Stored(s) \subseteq Stored(s)'
               /\ \A b \in Stored(s)' : b \in Nat /\ (b < time => b \in Stored(s))
    BY <1>2, StoredGrows
  <2>2. PICK s : s = listed[i].symbol /\ s = listed'[i].symbol
    BY <1>1
  <2>3. Stored(s) = Stored(listed[i].symbol) /\ Stored(s)' = Stored(listed[i].symbol)'
    BY <1>1, <2>2 DEF Stored
  <2> QED BY <2>1, <2>3
<1>4. AlignedBuckets(listed[i])' = AlignedBuckets(listed[i])
  BY <1>1, <1>2, <1>3 DEF AlignedBuckets
<1>5. WindowFeatures(listed[i])' = WindowFeatures(listed[i])
  BY <1>1, <1>4 DEF WindowFeatures
<1> QED BY <1>1, <1>4, <1>5 DEF SignalRow, HasBuckets

\* The time from which all symbols have buckets stays.
LEMMA CommonStartStays ==
    ASSUME StudyTypes, AllStored, [StudyNext]_studyVars
    PROVE  AllStored' /\ CommonStart' = CommonStart
<1>1. time \in Nat
  BY DEF StudyTypes
<1>2. ASSUME NEW s \in StudySymbols
      PROVE  Stored(s)' # {} /\ Min(Stored(s)') = Min(Stored(s))
  <2>1. /\ Stored(s) \subseteq Stored(s)'
        /\ \A b \in Stored(s)' : b \in Nat /\ (b < time => b \in Stored(s))
    BY <1>1, StoredGrows
  <2>2. Stored(s) # {} /\ \A b \in Stored(s) : b < time
    <3>1. Stored(s) # {}
      BY DEF AllStored
    <3>2. \A b \in Stored(s) : b < time
      BY <1>1 DEF Stored
    <3> QED BY <3>1, <3>2
  <2> DEFINE O == Stored(s)
             N == Stored(s)'
  <2>3. O \in SUBSET Int /\ N \in SUBSET Int /\ N # {} /\ 0 \in Int
        /\ (\A b \in O : 0 <= b) /\ (\A b \in N : 0 <= b)
    BY <2>1, <2>2
  <2> HIDE DEF O, N
  <2>4. Min(O) \in O /\ \A b \in O : Min(O) <= b
    BY <2>2, <2>3, MinOf DEF O
  <2>5. Min(N) \in N /\ \A b \in N : Min(N) <= b
    BY <2>3, MinOf
  <2>6. Min(O) \in N /\ Min(O) < time /\ Min(N) <= Min(O)
    BY <2>1, <2>2, <2>4, <2>5 DEF O, N
  <2>7. Min(N) \in O
    BY <1>1, <2>1, <2>3, <2>4, <2>5, <2>6 DEF O, N
  <2>8. Min(O) = Min(N)
    <3>1. Min(O) \in Int /\ Min(N) \in Int
      BY <2>3, <2>4, <2>5
    <3>2. Min(O) <= Min(N)
      BY <2>4, <2>7
    <3> QED BY <2>6, <3>1, <3>2
  <2> QED BY <2>3, <2>8 DEF O, N
<1>3. {Min(Stored(s)') : s \in StudySymbols} = {Min(Stored(s)) : s \in StudySymbols}
  BY <1>2
<1>4. CommonStart' = CommonStart
  BY <1>3 DEF CommonStart
<1> QED BY <1>2, <1>4 DEF AllStored

\* A study gains signals only while its strategy runs.
LEMMA PopulationStays ==
    ASSUME StudyTypes, SignalsInOrder, [StudyNext]_studyVars, start' = start,
           NEW v \in 1..2, NEW a, NEW b
    PROVE  /\ Population(v, a, b) \subseteq 1..Len(listed)
           /\ Population(v, a, b)' \subseteq 1..Len(listed')
           /\ \A i \in 1..Len(listed) :
                  i \in Population(v, a, b)' <=> i \in Population(v, a, b)
           /\ v # live => Population(v, a, b)' = Population(v, a, b)
<1>1. /\ listed' \in Seq(Signal) /\ Len(listed) \in Nat /\ Len(listed') \in Nat
      /\ Len(listed) <= Len(listed')
      /\ DOMAIN listed = 1..Len(listed) /\ DOMAIN listed' = 1..Len(listed')
      /\ \A i \in 1..Len(listed) :
            /\ listed'[i].opened = listed[i].opened /\ listed'[i].version = listed[i].version
      /\ \A i \in Len(listed) + 1..Len(listed') : listed'[i].version = live
  <2>1. listed' \in Seq(Signal)
    BY SignalsStay
  <2> QED BY <2>1, SignalsStay DEF StudyTypes
<1> DEFINE from == Later(a, start[v])
<1>2. Later(a, start[v])' = from
  BY DEF Later
<1>3. /\ \A i : i \in Population(v, a, b) <=>
                   /\ i \in 1..Len(listed) /\ listed[i].version = v
                   /\ from <= listed[i].opened /\ listed[i].opened < b
      /\ \A i : i \in Population(v, a, b)' <=>
                   /\ i \in 1..Len(listed') /\ listed'[i].version = v
                   /\ from <= listed'[i].opened /\ listed'[i].opened < b
  BY <1>1, <1>2 DEF Population, InCohort
<1> HIDE DEF from
<1>4. \A i \in 1..Len(listed) : i \in 1..Len(listed')
  BY <1>1
<1>5. \A i \in 1..Len(listed) : i \in Population(v, a, b)' <=> i \in Population(v, a, b)
  BY <1>1, <1>3, <1>4
<1>6. \A i \in 1..Len(listed') : i \in 1..Len(listed) \/ i \in Len(listed) + 1..Len(listed')
  BY <1>1
<1>7. ASSUME v # live PROVE Population(v, a, b)' = Population(v, a, b)
  <2>1. ASSUME NEW i \in Population(v, a, b)' PROVE i \in Population(v, a, b)
    <3>1. i \in 1..Len(listed') /\ listed'[i].version = v
      BY <1>3
    <3>2. i \in 1..Len(listed)
      BY <1>1, <1>6, <1>7, <3>1
    <3> QED BY <1>5, <3>2
  <2>2. ASSUME NEW i \in Population(v, a, b) PROVE i \in Population(v, a, b)'
    BY <1>3, <1>5
  <2> QED BY <2>1, <2>2
<1> QED BY <1>3, <1>5, <1>7

\* The rows of a study stay, and all of them if its strategy is over.
LEMMA StudyStays ==
    ASSUME StudyTypes, SignalsInOrder, [StudyNext]_studyVars, start' = start,
           NEW v \in 1..2, NEW a, NEW b
    PROVE  /\ RowsOf(v, a, b) \subseteq RowsOf(v, a, b)'
           /\ v # live => /\ RowsOf(v, a, b)' = RowsOf(v, a, b)
                          /\ CountsOf(v, a, b)' = CountsOf(v, a, b)
                          /\ \A i \in Population(v, a, b)' : HasBuckets(i)' = HasBuckets(i)
<1>1. /\ Population(v, a, b) \subseteq 1..Len(listed)
      /\ \A i \in 1..Len(listed) : i \in Population(v, a, b)' <=> i \in Population(v, a, b)
      /\ v # live => Population(v, a, b)' = Population(v, a, b)
  BY PopulationStays
<1>2. \A i \in 1..Len(listed) : SignalRow(i)' = SignalRow(i) /\ HasBuckets(i)' = HasBuckets(i)
  BY RowsStay
<1>3. \A i \in 1..Len(listed) : Symbols(i)' = Symbols(i)
  BY SignalsStay DEF Symbols
<1>4. RowsOf(v, a, b)' = {SignalRow(i)' : i \in {j \in Population(v, a, b)' : HasBuckets(j)'}}
  BY DEF RowsOf
<1>5. RowsOf(v, a, b) = {SignalRow(i) : i \in {j \in Population(v, a, b) : HasBuckets(j)}}
  BY DEF RowsOf
<1>6. ASSUME NEW r \in RowsOf(v, a, b) PROVE r \in RowsOf(v, a, b)'
  <2>1. PICK i \in Population(v, a, b) : HasBuckets(i) /\ r = SignalRow(i)
    BY <1>5
  <2>2. i \in Population(v, a, b)' /\ HasBuckets(i)' /\ r = SignalRow(i)'
    BY <1>1, <1>2, <2>1
  <2> QED BY <1>4, <2>2
<1>7. CASE v # live
  <2>1. Population(v, a, b)' = Population(v, a, b)
    BY <1>1, <1>7
  <2>2. ASSUME NEW r \in RowsOf(v, a, b)' PROVE r \in RowsOf(v, a, b)
    <3>1. PICK i \in Population(v, a, b)' : HasBuckets(i)' /\ r = SignalRow(i)'
      BY <1>4
    <3>2. i \in Population(v, a, b) /\ HasBuckets(i) /\ r = SignalRow(i)
      BY <1>1, <1>2, <2>1, <3>1
    <3> QED BY <1>5, <3>2
  <2>3. \A s \in StudySymbols :
            {i \in Population(v, a, b)' : Symbols(i)' = s}
                = {i \in Population(v, a, b) : Symbols(i) = s}
    BY <1>1, <1>3, <2>1
  <2>4. CountsOf(v, a, b)' = CountsOf(v, a, b)
    BY <2>3 DEF CountsOf
  <2>5. \A i \in Population(v, a, b)' : HasBuckets(i)' = HasBuckets(i)
    BY <1>1, <1>2, <2>1
  <2> QED BY <1>6, <2>2, <2>4, <2>5
<1> QED BY <1>6, <1>7
-----------------------------------------------------------------------------
(* Rows and cohorts *)

\* The rows of a study are of its signals, finitely many, one of each.
LEMMA RowsAreOfSignals ==
    ASSUME StudyTypes, NEW v, NEW a, NEW b
    PROVE  /\ Population(v, a, b) \subseteq 1..Len(listed) /\ IsFiniteSet(Population(v, a, b))
           /\ IsFiniteSet(RowsOf(v, a, b)) /\ RowsOf(v, a, b) \subseteq FeatureRow
           /\ \A r \in RowsOf(v, a, b) : /\ r.id \in Population(v, a, b) /\ HasBuckets(r.id)
                                         /\ r = SignalRow(r.id) /\ r.symbol = Symbols(r.id)
                                         /\ r.opened = listed[r.id].opened
           /\ \A i \in 1..Len(listed) : Symbols(i) \in StudySymbols
<1>1. /\ listed \in Seq(Signal) /\ Len(listed) \in Nat /\ DOMAIN listed = 1..Len(listed)
      /\ time \in Nat
  BY DEF StudyTypes
<1>2. Population(v, a, b) \in SUBSET (1..Len(listed))
  BY <1>1 DEF Population
<1>3. IsFiniteSet(Population(v, a, b))
  <2>1. 1 \in Int /\ Len(listed) \in Int
    BY <1>1
  <2>2. IsFiniteSet(1..Len(listed))
    BY <2>1, FS_Interval
  <2> QED BY <1>2, <2>2, FS_Subset
<1> DEFINE Members == {i \in Population(v, a, b) : HasBuckets(i)}
           row == [i \in Members |-> SignalRow(i)]
<1>4. row \in Surjection(Members, RowsOf(v, a, b))
  BY DEF RowsOf, Surjection
<1>5. IsFiniteSet(RowsOf(v, a, b))
  BY <1>3, <1>4, FS_Subset, FS_Surjection
<1>6. ASSUME NEW i \in 1..Len(listed)
      PROVE  SignalRow(i) \in FeatureRow /\ Symbols(i) \in StudySymbols
  <2>1. listed[i] \in Signal
    BY <1>1
  <2>2. WindowFeatures(listed[i]) \in [Windows -> SUBSET Nat]
    BY <1>1 DEF WindowFeatures, AlignedBuckets, Stored
  <2> QED BY <2>1, <2>2 DEF SignalRow, Symbols, Signal, FeatureRow
<1>7. ASSUME NEW r \in RowsOf(v, a, b)
      PROVE  /\ r.id \in Population(v, a, b) /\ HasBuckets(r.id)
             /\ r = SignalRow(r.id) /\ r.symbol = Symbols(r.id) /\ r.opened = listed[r.id].opened
             /\ r \in FeatureRow
  <2>1. PICK i \in Population(v, a, b) : HasBuckets(i) /\ r = SignalRow(i)
    BY DEF RowsOf
  <2>2. r.id = i /\ r.symbol = Symbols(i) /\ r.opened = listed[i].opened
    BY <2>1 DEF SignalRow, Symbols
  <2> QED BY <1>2, <1>6, <2>1, <2>2
<1> QED BY <1>2, <1>3, <1>5, <1>6, <1>7

\* The rows of a symbol are as many as its signals with buckets.
LEMMA RowsOfSymbol ==
    ASSUME StudyTypes, NEW v, NEW a, NEW b, NEW s
    PROVE  Cardinality(OfSymbol(RowsOf(v, a, b), s))
               = Cardinality({i \in Population(v, a, b) : HasBuckets(i) /\ Symbols(i) = s})
<1> DEFINE R == OfSymbol(RowsOf(v, a, b), s)
           I == {i \in Population(v, a, b) : HasBuckets(i) /\ Symbols(i) = s}
           id == [r \in R |-> r.id]
<1>1. /\ IsFiniteSet(RowsOf(v, a, b))
      /\ \A r \in RowsOf(v, a, b) : /\ r.id \in Population(v, a, b) /\ HasBuckets(r.id)
                                    /\ r = SignalRow(r.id) /\ r.symbol = Symbols(r.id)
  BY RowsAreOfSignals
<1>2. \A r \in R : r.id \in I /\ r = SignalRow(r.id)
  BY <1>1 DEF OfSymbol
<1>3. \A i \in I : SignalRow(i) \in R /\ SignalRow(i).id = i
  <2> TAKE i \in I
  <2>1. SignalRow(i) \in RowsOf(v, a, b)
    BY DEF RowsOf
  <2>2. SignalRow(i).id = i /\ SignalRow(i).symbol = s
    BY DEF SignalRow, Symbols
  <2> QED BY <2>1, <2>2 DEF OfSymbol
<1> HIDE DEF R, I
<1>4. id \in [R -> I] /\ \A r, q \in R : id[r] = id[q] => r = q
  BY <1>2
<1>5. \A i \in I : \E r \in R : id[r] = i
  <2> TAKE i \in I
  <2>1. SignalRow(i) \in R /\ id[SignalRow(i)] = i
    BY <1>3
  <2> QED BY <2>1
<1>6. id \in Bijection(R, I)
  BY <1>4, <1>5 DEF Bijection, Injection, Surjection, IsInjective
<1>7. IsFiniteSet(R)
  <2>1. R \in SUBSET RowsOf(v, a, b)
    BY DEF R, OfSymbol
  <2> QED BY <1>1, <2>1, FS_Subset
<1>8. Cardinality(I) = Cardinality(R)
  BY <1>6, <1>7, FS_Bijection DEF ExistsBijection
<1> QED BY <1>8 DEF R, I

\* Rows come in an order, and a row that none of some rows is before is before
\* what those are before.
LEMMA RowsAreOrdered ==
    ASSUME NEW p, NEW q, NEW r,
           p.opened \in Nat, q.opened \in Nat, r.opened \in Nat,
           p.id \in Nat, q.id \in Nat, r.id \in Nat
    PROVE  /\ Before(p, q) => ~ Before(q, p)
           /\ ~ Before(p, q) /\ ~ Before(q, r) => ~ Before(p, r)
BY DEF Before

Filled(these) == {r \in these : SampleReady(UpTo(these, r))}

\* What the earliest ready cohort is made of.
LEMMA CohortMembers ==
    ASSUME NEW these
    PROVE  \A q : q \in EarliestCohort(these) <=>
                /\ q \in these /\ Filled(these) # {}
                /\ \A r \in Filled(these) : ~ Before(r, q)
BY DEF EarliestCohort, Filled

\* The earliest ready cohort fills every gate, and it is what the rows begin with.
LEMMA CohortIsReady ==
    ASSUME NEW these, these \subseteq FeatureRow, EarliestCohort(these) # {}
    PROVE  /\ SampleReady(EarliestCohort(these))
           /\ EarliestCohort(these) \subseteq these
           /\ \A r \in EarliestCohort(these), q \in these :
                  ~ Before(r, q) => q \in EarliestCohort(these)
<1>1. \A r \in these : r.opened \in Nat /\ r.id \in Nat
  BY DEF FeatureRow
<1>2. \A q : q \in EarliestCohort(these) <=>
                /\ q \in these /\ Filled(these) # {}
                /\ \A r \in Filled(these) : ~ Before(r, q)
  BY CohortMembers
<1>3. Filled(these) # {} /\ Filled(these) \subseteq these
  BY <1>2 DEF Filled
<1> DEFINE times == {r.opened : r \in Filled(these)}
<1>4. times \in SUBSET Nat /\ times # {}
  BY <1>1, <1>3
<1>5. PICK t \in times : \A u \in times : t <= u
  BY <1>4, LeastNatural
<1> DEFINE ids == {r.id : r \in {q \in Filled(these) : q.opened = t}}
<1>6. ids \in SUBSET Nat /\ ids # {}
  BY <1>1, <1>3
<1>7. PICK n \in ids : \A m \in ids : n <= m
  BY <1>6, LeastNatural
<1>8. PICK end \in Filled(these) : end.opened = t /\ end.id = n
  BY <1>7
<1>9. ASSUME NEW r \in Filled(these) PROVE ~ Before(r, end)
  <2>1. r.opened \in times /\ r.opened \in Nat /\ r.id \in Nat /\ t \in Nat /\ n \in Nat
    BY <1>1, <1>3, <1>4, <1>5, <1>6, <1>7
  <2>2. t <= r.opened
    BY <1>5, <2>1
  <2>3. r.opened = t => n <= r.id
    BY <1>7
  <2> QED BY <1>8, <2>1, <2>2, <2>3 DEF Before
<1>10. EarliestCohort(these) = UpTo(these, end)
  <2>1. ASSUME NEW q \in UpTo(these, end) PROVE q \in EarliestCohort(these)
    <3>1. q \in these /\ ~ Before(end, q)
      BY DEF UpTo
    <3>2. ASSUME NEW r \in Filled(these) PROVE ~ Before(r, q)
      <4>1. ~ Before(r, end) /\ r \in these /\ end \in these
        BY <1>3, <1>9
      <4> QED BY <1>1, <3>1, <4>1, RowsAreOrdered
    <3> QED BY <1>2, <1>3, <3>1, <3>2
  <2>2. ASSUME NEW q \in EarliestCohort(these) PROVE q \in UpTo(these, end)
    BY <1>2 DEF UpTo
  <2> QED BY <2>1, <2>2
<1>11. SampleReady(EarliestCohort(these))
  BY <1>8, <1>10 DEF Filled
<1>12. ASSUME NEW r \in EarliestCohort(these), NEW q \in these, ~ Before(r, q)
       PROVE  q \in EarliestCohort(these)
  <2>1. ASSUME NEW f \in Filled(these) PROVE ~ Before(f, q)
    <3>1. f \in these /\ r \in these /\ ~ Before(f, r)
      BY <1>2, <1>3
    <3> QED BY <1>1, <1>12, <3>1, RowsAreOrdered
  <2> QED BY <1>2, <1>3, <2>1
<1> QED BY <1>2, <1>11, <1>12

\* Later rows do not change a cohort that is ready.
LEMMA CohortStays ==
    ASSUME NEW these, NEW more, these \subseteq more, more \subseteq FeatureRow,
           \A r \in these, q \in more \ these : Before(r, q),
           EarliestCohort(these) # {}
    PROVE  EarliestCohort(more) = EarliestCohort(these)
<1>1. \A r \in more : r.opened \in Nat /\ r.id \in Nat
  BY DEF FeatureRow
<1>2. \A q : q \in EarliestCohort(these) <=>
                /\ q \in these /\ Filled(these) # {}
                /\ \A r \in Filled(these) : ~ Before(r, q)
  BY CohortMembers
<1>3. \A q : q \in EarliestCohort(more) <=>
                /\ q \in more /\ Filled(more) # {}
                /\ \A r \in Filled(more) : ~ Before(r, q)
  BY CohortMembers
<1>4. \A r \in these : UpTo(more, r) = UpTo(these, r)
  BY DEF UpTo
<1>5. /\ Filled(these) # {} /\ Filled(these) \subseteq these
      /\ Filled(these) \subseteq Filled(more) /\ Filled(more) \subseteq more
      /\ \A r \in these : r \in Filled(more) => r \in Filled(these)
  BY <1>2, <1>4 DEF Filled
<1>6. ASSUME NEW q \in EarliestCohort(more) PROVE q \in EarliestCohort(these)
  <2>1. PICK r \in Filled(these) : TRUE
    BY <1>5
  <2>2. ~ Before(r, q) /\ r \in these /\ q \in more
    BY <1>3, <1>5, <2>1
  <2>3. q \in these
    BY <2>2
  <2> QED BY <1>2, <1>3, <1>5, <2>3
<1>7. ASSUME NEW q \in EarliestCohort(these) PROVE q \in EarliestCohort(more)
  <2>1. ASSUME NEW r \in Filled(more) PROVE ~ Before(r, q)
    <3>1. CASE r \in these
      BY <1>2, <1>5, <3>1
    <3>2. CASE r \notin these
      <4>1. Before(q, r) /\ q \in more /\ r \in more
        BY <1>2, <1>5, <3>2
      <4> QED BY <1>1, <4>1, RowsAreOrdered
    <3> QED BY <3>1, <3>2
  <2> QED BY <1>2, <1>3, <1>5, <2>1
<1> QED BY <1>6, <1>7
\* The two readers of each study read its rows and count its signals.
LEMMA ReadersAreOfStudy ==
    ASSUME NEW a, NEW b
    PROVE  /\ FeaturesV3(a, b) = RowsOf(1, a, b) /\ FeaturesV5(a, b) = RowsOf(2, a, b)
           /\ CountsV3(a, b) = CountsOf(1, a, b) /\ CountsV5(a, b) = CountsOf(2, a, b)
<1>1. ASSUME NEW v
      PROVE  /\ FeatureRows(v, Later(a, start[v]), b) = RowsOf(v, a, b)
             /\ SignalCounts(v, Later(a, start[v]), b) = CountsOf(v, a, b)
  <2> DEFINE from == Later(a, start[v])
  <2>1. Population(v, a, b) = {i \in DOMAIN listed : InCohort(listed[i], v, from, b)}
    BY DEF Population
  <2> HIDE DEF from
  <2>2. FeatureRows(v, from, b) = RowsOf(v, a, b)
    BY <2>1 DEF FeatureRows, RowsOf, SignalRow, HasBuckets
  <2>3. \A s : {i \in DOMAIN listed : listed[i].symbol = s /\ InCohort(listed[i], v, from, b)}
                   = {i \in Population(v, a, b) : Symbols(i) = s}
    BY <2>1 DEF Symbols
  <2>4. SignalCounts(v, from, b) = CountsOf(v, a, b)
    BY <2>3 DEF SignalCounts, CountsOf
  <2> QED BY <2>2, <2>4 DEF from
<1> QED BY <1>1 DEF FeaturesV3, FeaturesV5, CountsV3, CountsV5

\* The rows of the reports are of their signals: the coverage of the first study
\* has no gap only if every signal has a row.
LEMMA CoverageIsFull ==
    ASSUME StudyTypes, NEW v, NEW a, NEW b,
           \A s \in StudySymbols :
               CountsOf(v, a, b)[s] <= Cardinality(OfSymbol(RowsOf(v, a, b), s))
    PROVE  \A i \in Population(v, a, b) : HasBuckets(i)
<1> TAKE i \in Population(v, a, b)
<1> DEFINE s == Symbols(i)
           All == {j \in Population(v, a, b) : Symbols(j) = s}
           Some == {j \in Population(v, a, b) : HasBuckets(j) /\ Symbols(j) = s}
<1>1. s \in StudySymbols /\ IsFiniteSet(Population(v, a, b))
  BY RowsAreOfSignals
<1>2. IsFiniteSet(All)
  <2>1. All \in SUBSET Population(v, a, b)
    OBVIOUS
  <2> QED BY <1>1, <2>1, FS_Subset
<1>3. Cardinality(All) <= Cardinality(Some)
  <2>1. CountsOf(v, a, b)[s] = Cardinality(All)
    BY <1>1 DEF CountsOf
  <2>2. Cardinality(OfSymbol(RowsOf(v, a, b), s)) = Cardinality(Some)
    BY RowsOfSymbol
  <2> HIDE DEF s, All, Some
  <2> QED BY <1>1, <2>1, <2>2
<1>4. Some \in SUBSET All
  OBVIOUS
<1>5. i \in All
  OBVIOUS
<1> HIDE DEF All, Some
<1>6. /\ Cardinality(Some) <= Cardinality(All)
      /\ Cardinality(All) = Cardinality(Some) => All = Some
      /\ Cardinality(All) \in Nat /\ Cardinality(Some) \in Nat
  <2>1. IsFiniteSet(Some)
    BY <1>2, <1>4, FS_Subset
  <2> QED BY <1>2, <1>4, <2>1, FS_Subset, FS_CardinalityType
<1>7. i \in Some
  BY <1>3, <1>5, <1>6
<1> QED BY <1>7 DEF Some

\* What a ready coverage says of its numbers.
LEMMA ReadyCoverage ==
    ASSUME NEW these, IsFiniteSet(these), NEW counts \in [StudySymbols -> Nat],
           StudyReady(these, counts)
    PROVE  \A s \in StudySymbols : Cardinality(OfSymbol(these, s)) = counts[s]
<1> TAKE s \in StudySymbols
<1>1. OfSymbol(these, s) \in SUBSET these
  BY DEF OfSymbol
<1>2. Cardinality(OfSymbol(these, s)) \in Nat /\ counts[s] \in Nat
  BY <1>1, FS_Subset, FS_CardinalityType
<1>3. ~ (Cardinality(OfSymbol(these, s)) > counts[s]) /\ ~ (Unaligned(these, counts, s) > 0)
  BY DEF StudyReady, CoverageStatus
<1> QED BY <1>2, <1>3 DEF Unaligned, Later

-----------------------------------------------------------------------------
(* The steps *)

\* Types and the order of the signals.
LEMMA StudyInitHolds == ASSUME StudyInit PROVE StudyInv
<1>1. NoReport \in Report
  BY DEF NoReport, Report
<1>2. StudyTypes
  BY <1>1 DEF StudyInit, StudyTypes
<1>3. SignalsInOrder
  BY DEF StudyInit, SignalsInOrder
<1> QED BY <1>2, <1>3 DEF StudyInit, StudyInv, ReportIsOfStudy, PublishedIsOfStudy

\* The start that every symbol's buckets have in common is a time.
LEMMA CommonStartType ==
    ASSUME StudyTypes, AllStored
    PROVE  CommonStart \in Nat
<1> DEFINE firsts == {Min(Stored(s)) : s \in StudySymbols}
<1>1. time \in Nat
  BY DEF StudyTypes
<1>2. ASSUME NEW s \in StudySymbols PROVE Min(Stored(s)) \in 0..time
  <2>1. Stored(s) \in SUBSET Int /\ 0 \in Int /\ (\A b \in Stored(s) : 0 <= b /\ b \in 0..time)
    BY <1>1 DEF Stored
  <2>2. Stored(s) # {}
    BY DEF AllStored
  <2> QED BY <2>1, <2>2, MinOf
<1>3. /\ firsts \in SUBSET Int /\ firsts # {} /\ time \in Int
      /\ \A x \in firsts : x <= time /\ x \in Nat
  BY <1>1, <1>2, StudyAssumption
<1>4. Max(firsts) \in firsts
  BY <1>3, MaxOf
<1> QED BY <1>3, <1>4 DEF CommonStart

\* The rows and counts that a report loads are of its study.
LEMMA LoadedType ==
    ASSUME StudyTypes, NEW v, NEW a, NEW b
    PROVE  RowsOf(v, a, b) \in SUBSET FeatureRow /\ CountsOf(v, a, b) \in [StudySymbols -> Nat]
<1>1. ASSUME NEW s
      PROVE  Cardinality({i \in Population(v, a, b) : Symbols(i) = s}) \in Nat
  <2>1. IsFiniteSet(Population(v, a, b))
    BY RowsAreOfSignals
  <2>2. {i \in Population(v, a, b) : Symbols(i) = s} \in SUBSET Population(v, a, b)
    OBVIOUS
  <2> QED BY <2>1, <2>2, FS_Subset, FS_CardinalityType
<1>2. CountsOf(v, a, b) \in [StudySymbols -> Nat]
  BY <1>1 DEF CountsOf
<1> QED BY <1>2, RowsAreOfSignals

\* What LoadRows and LoadCounts read is of the study of the report.
LEMMA ReportReads ==
    ASSUME report.version \in 1..2
    PROVE  LET these == IF report.version = 1 THEN FeaturesV3(report.since, report.until)
                                             ELSE FeaturesV5(report.since, report.until)
               numbers == IF report.version = 1 THEN CountsV3(report.since, report.until)
                                               ELSE CountsV5(report.since, report.until)
           IN  /\ these = RowsOf(report.version, report.since, report.until)
               /\ numbers = CountsOf(report.version, report.since, report.until)
<1>1. CASE report.version = 1
  BY <1>1, ReadersAreOfStudy
<1>2. CASE report.version = 2
  BY <1>2, ReadersAreOfStudy
<1> QED BY <1>1, <1>2

\* Types stay.
LEMMA TypesStay ==
    ASSUME StudyInv, [StudyNext]_studyVars
    PROVE  StudyTypes'
<1>1. StudyTypes /\ ReportIsOfStudy
  BY DEF StudyInv
<1>2. /\ time' \in Nat /\ live' \in 1..2 /\ listed' \in Seq(Signal)
      /\ start' \in [1..2 -> Nat] /\ start'[1] = 1
  <2>1. time \in Nat
    BY <1>1 DEF StudyTypes
  <2> QED BY <1>1, <2>1, StoredGrows, SignalsStay, StartsStay
<1>3. report \in Report /\ NoReport \in Report
  BY <1>1 DEF StudyTypes, NoReport, Report
<1>4. ASSUME report # NoReport PROVE report.version \in 1..2
  BY <1>1, <1>4 DEF ReportIsOfStudy, ReportIsOf
<1>5. ASSUME NEW field \in {"rows", "counts"}, field \in report.todo PROVE report # NoReport
  BY <1>5 DEF NoReport
<1>6. report' \in Report
  <2>1. CASE LoadRows
    <3> DEFINE these == RowsOf(report.version, report.since, report.until)
    <3>1. report.version \in 1..2
      BY <1>4, <1>5, <2>1 DEF LoadRows
    <3>2. report' = [report EXCEPT !.rows = these, !.todo = @ \ {"rows"}]
      BY <2>1, <3>1, ReportReads DEF LoadRows
    <3>3. these \in SUBSET FeatureRow
      BY <1>1, LoadedType
    <3> HIDE DEF these
    <3> QED BY <1>3, <3>2, <3>3 DEF Report
  <2>2. CASE LoadCounts
    <3> DEFINE these == CountsOf(report.version, report.since, report.until)
    <3>1. report.version \in 1..2
      BY <1>4, <1>5, <2>2 DEF LoadCounts
    <3>2. report' = [report EXCEPT !.counts = these, !.todo = @ \ {"counts"}]
      BY <2>2, <3>1, ReportReads DEF LoadCounts
    <3>3. these \in [StudySymbols -> Nat]
      BY <1>1, LoadedType
    <3> HIDE DEF these
    <3> QED BY <1>3, <3>2, <3>3 DEF Report
  <2>3. CASE \E study \in Studies : StartReport(study[1], study[2])
    <3>1. PICK study \in Studies : StartReport(study[1], study[2])
      BY <2>3
    <3>2. /\ report' = [NoReport EXCEPT !.kind = study[1], !.version = study[2],
                            !.since = CommonStart, !.until = time, !.todo = {"rows", "counts"}]
          /\ BucketsReady
      BY <3>1 DEF StartReport
    <3>3. AllStored
      BY <3>2 DEF BucketsReady, SymbolReady, AllStored
    <3>4. CommonStart \in Int /\ time \in Nat
      BY <1>1, <3>3, CommonStartType DEF StudyTypes
    <3>5. study[1] \in {"effect", "alignment"} /\ study[2] \in 0..2
      BY DEF Studies
    <3> QED BY <1>3, <3>2, <3>4, <3>5 DEF Report
  <2>4. CASE \E s \in StudySymbols, opened \in 1..LastTime, v \in 1..2 : ListSignal(s, opened, v)
    <3>1. report' = [report EXCEPT !.late = IF report = NoReport THEN 0 ELSE @ + 1]
      BY <2>4 DEF ListSignal
    <3> QED BY <1>3, <3>1 DEF Report
  <2>5. CASE report' \in {report, NoReport}
    BY <1>3, <2>5
  <2> QED BY <2>1, <2>2, <2>3, <2>4, <2>5 DEF StudyNext, studyVars, NextBucket, Upgrade, Verify,
          CloseSignal, FinishAlignment, FinishEffect
<1> QED BY <1>2, <1>6 DEF StudyTypes

\* Signals stay in order.
LEMMA OrderStays ==
    ASSUME StudyInv, [StudyNext]_studyVars
    PROVE  SignalsInOrder'
<1>1. StudyTypes /\ SignalsInOrder
  BY DEF StudyInv
<1>2. time \in Nat /\ time' \in Nat /\ time <= time'
  BY <1>1, StoredGrows DEF StudyTypes
<1>3. /\ start \in [1..2 -> Nat] /\ start' \in [1..2 -> Nat] /\ start'[1] = 1
      /\ live \in 1..2 /\ live' \in 1..2 /\ live <= live'
      /\ start[2] # 0 => start' = start
      /\ start' # start => start'[2] = time + 1 /\ live = 2 /\ listed' = listed
      /\ live' # live => start' = start
  BY <1>1, StartsStay DEF StudyTypes
<1>4. start'[2] # 0 => live' = 2
  BY <1>1, <1>3 DEF SignalsInOrder
<1>5. ASSUME NEW i \in 1..Len(listed')
      PROVE  /\ listed'[i].opened <= time' /\ listed'[i].version <= live'
             /\ start'[2] # 0 /\ ~ listed'[i].verified => listed'[i].opened < start'[2]
  <2>1. Len(listed) \in Nat /\ Len(listed') \in Nat
    BY <1>1, SignalsStay DEF StudyTypes
  <2>2. listed'[i].opened \in Nat /\ listed'[i].version \in 1..2
    <3>1. listed' \in Seq(Signal)
      BY <1>1, SignalsStay
    <3>2. listed'[i] \in Signal
      BY <3>1
    <3> QED BY <3>2 DEF Signal
  <2>3. CASE i \in 1..Len(listed)
    <3>1. /\ listed'[i].opened = listed[i].opened /\ listed'[i].version = listed[i].version
          /\ listed'[i].verified = listed[i].verified
      BY <1>1, <2>3, SignalsStay
    <3>2. /\ listed[i].opened <= time /\ listed[i].version <= live
          /\ start[2] # 0 /\ ~ listed[i].verified => listed[i].opened < start[2]
      BY <1>1, <2>3 DEF SignalsInOrder
    <3>3. listed'[i].opened < time + 1
      BY <1>2, <2>2, <3>1, <3>2
    <3>4. CASE start' = start
      BY <1>2, <1>3, <2>2, <3>1, <3>2, <3>4
    <3>5. CASE start' # start
      BY <1>2, <1>3, <2>2, <3>1, <3>2, <3>3, <3>5
    <3> QED BY <3>4, <3>5
  <2>4. CASE i \notin 1..Len(listed)
    <3>1. i \in Len(listed) + 1..Len(listed')
      BY <2>1, <2>4
    <3>2. /\ listed'[i].opened <= time /\ listed'[i].version = live
          /\ listed'[i].verified = Verified
      BY <1>1, <3>1, SignalsStay
    <3>3. listed' # listed
      BY <2>4
    <3>4. time' = time /\ start' = start /\ live' = live
      BY <1>1, <3>3, SignalsStay
    <3>5. Verified <=> start[2] # 0
      BY DEF Verified
    <3> QED BY <1>3, <2>2, <3>2, <3>4, <3>5
  <2> QED BY <2>3, <2>4
<1> QED BY <1>4, <1>5 DEF SignalsInOrder
\* What a study is does not change with the report.
LEMMA StudyIsSame ==
    ASSUME listed' = listed, time' = time, lost' = lost, start' = start, NEW v, NEW a, NEW b
    PROVE  /\ Population(v, a, b)' = Population(v, a, b)
           /\ RowsOf(v, a, b)' = RowsOf(v, a, b) /\ CountsOf(v, a, b)' = CountsOf(v, a, b)
           /\ CommonStart' = CommonStart /\ AllStored' = AllStored
           /\ \A i : HasBuckets(i)' = HasBuckets(i) /\ Symbols(i)' = Symbols(i)
<1>1. \A s : Stored(s)' = Stored(s)
  BY DEF Stored
<1>2. CommonStart' = CommonStart /\ AllStored' = AllStored
  BY <1>1 DEF CommonStart, AllStored
<1>3. \A i : /\ AlignedBuckets(listed[i])' = AlignedBuckets(listed[i])
             /\ WindowFeatures(listed[i])' = WindowFeatures(listed[i])
  BY <1>1 DEF AlignedBuckets, WindowFeatures
<1>4. \A i : /\ HasBuckets(i)' = HasBuckets(i) /\ Symbols(i)' = Symbols(i)
             /\ SignalRow(i)' = SignalRow(i)
  BY <1>3 DEF HasBuckets, Symbols, SignalRow
<1>5. Population(v, a, b)' = Population(v, a, b)
  BY DEF Population, InCohort, Later
<1>6. RowsOf(v, a, b)' = RowsOf(v, a, b)
  BY <1>4, <1>5 DEF RowsOf
<1>7. CountsOf(v, a, b)' = CountsOf(v, a, b)
  BY <1>4, <1>5 DEF CountsOf
<1> QED BY <1>2, <1>4, <1>5, <1>6, <1>7

\* A report keeps what it has read of its study while signals come.
LEMMA ReportWaits ==
    ASSUME StudyInv, [StudyNext]_studyVars, report # NoReport, time' = time,
           \/ report' = report /\ Len(listed') = Len(listed)
           \/ /\ report' = [report EXCEPT !.late = @ + 1]
              /\ Len(listed') = Len(listed) + 1
    PROVE  ReportIsOfStudy'
<1>1. StudyTypes /\ SignalsInOrder /\ start[2] # 0 /\ AllStored /\ live = 2 /\ start' = start
      /\ report \in Report /\ Len(listed) \in Nat
  BY StartsStay DEF StudyInv, ReportIsOfStudy, SignalsInOrder, StudyTypes
<1>2. PICK v \in 1..2, a \in Nat, b \in Nat : ReportIsOf(v, a, b)
  BY DEF StudyInv, ReportIsOfStudy
<1>3. AllStored' /\ CommonStart' = CommonStart
  BY <1>1, CommonStartStays
<1>4. /\ report'.version = report.version /\ report'.since = report.since
      /\ report'.until = report.until /\ report'.kind = report.kind
      /\ report'.rows = report.rows /\ report'.counts = report.counts
      /\ report'.todo = report.todo
      /\ Len(listed') - report'.late = Len(listed) - report.late
      /\ report.late <= Len(listed) => report'.late <= Len(listed')
      /\ report.late \in Nat
  <2>1. report.late \in Nat
    BY <1>1 DEF Report
  <2>2. \/ report' = report
        \/ report' = [report EXCEPT !.late = @ + 1]
    OBVIOUS
  <2>3. /\ report'.version = report.version /\ report'.since = report.since
        /\ report'.until = report.until /\ report'.kind = report.kind
        /\ report'.rows = report.rows /\ report'.counts = report.counts
        /\ report'.todo = report.todo
    BY <1>1, <2>2 DEF Report
  <2>4. \/ report'.late = report.late /\ Len(listed') = Len(listed)
        \/ report'.late = report.late + 1 /\ Len(listed') = Len(listed) + 1
    BY <1>1 DEF Report
  <2>5. PICK m, n, k, j : /\ m = report.late /\ n = Len(listed) /\ k = report'.late
                          /\ j = Len(listed')
    OBVIOUS
  <2>6. /\ m \in Nat /\ n \in Nat
        /\ (k = m /\ j = n) \/ (k = m + 1 /\ j = n + 1)
    BY <1>1, <2>1, <2>4, <2>5
  <2>7. j - k = n - m /\ (m <= n => k <= j)
    BY <2>6
  <2> QED BY <2>1, <2>3, <2>5, <2>7
<1>5. /\ RowsOf(v, a, b) \subseteq RowsOf(v, a, b)'
      /\ v = 1 => /\ RowsOf(v, a, b)' = RowsOf(v, a, b)
                  /\ CountsOf(v, a, b)' = CountsOf(v, a, b)
  BY <1>1, StudyStays
<1>6. \A s : {i \in Early(v, a, b)' : Symbols(i)' = s} = {i \in Early(v, a, b) : Symbols(i) = s}
  <2>1. /\ Population(v, a, b) \subseteq 1..Len(listed)
        /\ Population(v, a, b)' \subseteq 1..Len(listed')
        /\ \A i \in 1..Len(listed) : i \in Population(v, a, b)' <=> i \in Population(v, a, b)
    BY <1>1, PopulationStays
  <2>2. \A i \in 1..Len(listed) : Symbols(i)' = Symbols(i)
    BY <1>1, SignalsStay DEF Symbols
  <2> DEFINE n == Len(listed) - report.late
  <2>3. n <= Len(listed) /\ n = Len(listed') - report'.late /\ n \in Int
    BY <1>1, <1>4
  <2>4. /\ \A i : i \in Early(v, a, b) <=> i \in Population(v, a, b) /\ i <= n
        /\ \A i : i \in Early(v, a, b)' <=> i \in Population(v, a, b)' /\ i <= n
    <3>1. Early(v, a, b)' = {i \in Population(v, a, b)' : i <= Len(listed') - report'.late}
      BY DEF Early
    <3> HIDE DEF n
    <3> QED BY <2>3, <3>1 DEF Early, n
  <2> HIDE DEF n
  <2>5. \A i \in 1..Len(listed') : i <= n => i \in 1..Len(listed)
    BY <1>1, <2>3
  <2>6. \A i : i \in Early(v, a, b)' <=> i \in Early(v, a, b)
    BY <2>1, <2>4, <2>5
  <2>7. \A i : i \in Early(v, a, b) => Symbols(i)' = Symbols(i)
    BY <2>1, <2>2, <2>4
  <2> QED BY <2>6, <2>7
<1>7. ReportIsOf(v, a, b)'
  <2>1. ReportIsOf(v, a, b)' <=>
          /\ report'.version = v /\ report'.since = a /\ report'.until = b
          /\ <<report'.kind, v>> \in Studies
          /\ a = CommonStart' /\ b = time'
          /\ report'.late <= Len(listed')
          /\ report'.rows \subseteq RowsOf(v, a, b)'
          /\ "counts" \notin report'.todo =>
                \A s \in StudySymbols :
                    Cardinality({i \in Early(v, a, b)' : Symbols(i)' = s}) <= report'.counts[s]
          /\ v = 1 /\ "rows" \notin report'.todo => report'.rows = RowsOf(v, a, b)'
          /\ v = 1 /\ "counts" \notin report'.todo => report'.counts = CountsOf(v, a, b)'
    BY DEF ReportIsOf, Studies
  <2>2. /\ report'.version = v /\ report'.since = a /\ report'.until = b
        /\ <<report'.kind, v>> \in Studies
        /\ a = CommonStart' /\ b = time'
        /\ report'.late <= Len(listed')
    BY <1>2, <1>3, <1>4 DEF ReportIsOf
  <2>3. report'.rows \subseteq RowsOf(v, a, b)'
    BY <1>2, <1>4, <1>5 DEF ReportIsOf
  <2>4. "counts" \notin report'.todo =>
            \A s \in StudySymbols :
                Cardinality({i \in Early(v, a, b)' : Symbols(i)' = s}) <= report'.counts[s]
    BY <1>2, <1>4, <1>6 DEF ReportIsOf
  <2>5. v = 1 /\ "rows" \notin report'.todo => report'.rows = RowsOf(v, a, b)'
    BY <1>2, <1>4, <1>5 DEF ReportIsOf
  <2>6. v = 1 /\ "counts" \notin report'.todo => report'.counts = CountsOf(v, a, b)'
    BY <1>2, <1>4, <1>5 DEF ReportIsOf
  <2> QED BY <2>1, <2>2, <2>3, <2>4, <2>5, <2>6
<1>8. start'[2] # 0
  BY <1>1
<1> QED BY <1>3, <1>7, <1>8 DEF ReportIsOfStudy
\* A report that has read its rows, or its counts, has read those of its study.
LEMMA ReportLoads ==
    ASSUME StudyInv, LoadRows \/ LoadCounts
    PROVE  ReportIsOfStudy'
<1>1. /\ listed' = listed /\ time' = time /\ lost' = lost /\ start' = start
      /\ report \in Report /\ StudyTypes
  BY DEF StudyInv, StudyTypes, LoadRows, LoadCounts
<1>2. report # NoReport
  BY DEF LoadRows, LoadCounts, NoReport
<1>3. PICK v \in 1..2, a \in Nat, b \in Nat : ReportIsOf(v, a, b)
  BY <1>2 DEF StudyInv, ReportIsOfStudy
<1>4. start[2] # 0 /\ AllStored
  BY <1>2 DEF StudyInv, ReportIsOfStudy
<1>5. /\ RowsOf(v, a, b)' = RowsOf(v, a, b) /\ CountsOf(v, a, b)' = CountsOf(v, a, b)
      /\ CommonStart' = CommonStart /\ AllStored' = AllStored
      /\ Population(v, a, b)' = Population(v, a, b)
      /\ \A i : Symbols(i)' = Symbols(i)
  BY <1>1, StudyIsSame
<1>6. report.version = v /\ report.since = a /\ report.until = b /\ report.version \in 1..2
  BY <1>3 DEF ReportIsOf
<1>7. CASE LoadRows
  <2> DEFINE these == RowsOf(v, a, b)
  <2>1. report' = [report EXCEPT !.rows = these, !.todo = @ \ {"rows"}]
    BY <1>6, <1>7, ReportReads DEF LoadRows
  <2> HIDE DEF these
  <2>2. /\ report'.version = v /\ report'.since = a /\ report'.until = b
        /\ report'.kind = report.kind /\ report'.counts = report.counts
        /\ report'.late = report.late /\ report'.rows = these
        /\ "counts" \notin report'.todo => "counts" \notin report.todo
    BY <1>1, <1>6, <2>1 DEF Report
  <2>3. Early(v, a, b)' = Early(v, a, b)
    BY <1>1, <1>5, <2>2 DEF Early
  <2>4. ReportIsOf(v, a, b)'
    BY <1>1, <1>3, <1>5, <2>2, <2>3 DEF ReportIsOf, Studies, these
  <2> QED BY <1>1, <1>4, <1>5, <2>4 DEF ReportIsOfStudy
<1>8. CASE LoadCounts
  <2> DEFINE these == CountsOf(v, a, b)
  <2>1. report' = [report EXCEPT !.counts = these, !.todo = @ \ {"counts"}]
    BY <1>6, <1>8, ReportReads DEF LoadCounts
  <2> HIDE DEF these
  <2>2. /\ report'.version = v /\ report'.since = a /\ report'.until = b
        /\ report'.kind = report.kind /\ report'.counts = these
        /\ report'.late = report.late /\ report'.rows = report.rows
        /\ "rows" \notin report'.todo => "rows" \notin report.todo
    BY <1>1, <1>6, <2>1 DEF Report
  <2>3. Early(v, a, b)' = Early(v, a, b)
    BY <1>1, <1>5, <2>2 DEF Early
  <2>4. ASSUME NEW s \in StudySymbols
        PROVE  Cardinality({i \in Early(v, a, b) : Symbols(i) = s}) <= these[s]
    <3> DEFINE Some == {i \in Early(v, a, b) : Symbols(i) = s}
               All == {i \in Population(v, a, b) : Symbols(i) = s}
    <3>1. Some \in SUBSET All /\ All \in SUBSET Population(v, a, b)
      BY DEF Early
    <3>2. IsFiniteSet(All)
      BY <1>1, <3>1, RowsAreOfSignals, FS_Subset
    <3>3. Cardinality(Some) <= Cardinality(All)
      BY <3>1, <3>2, FS_Subset
    <3>4. these[s] = Cardinality(All)
      BY DEF these, CountsOf
    <3> QED BY <3>3, <3>4
  <2>5. ReportIsOf(v, a, b)'
    BY <1>1, <1>3, <1>5, <2>2, <2>3, <2>4 DEF ReportIsOf, Studies, these
  <2> QED BY <1>1, <1>4, <1>5, <2>5 DEF ReportIsOfStudy
<1> QED BY <1>7, <1>8

\* A report begins with nothing read.
LEMMA ReportBegins ==
    ASSUME StudyInv, NEW study \in Studies, StartReport(study[1], study[2])
    PROVE  ReportIsOfStudy'
<1> DEFINE v == study[2]
           a == CommonStart
           b == time
<1>1. /\ listed' = listed /\ time' = time /\ lost' = lost /\ start' = start
      /\ start[2] # 0 /\ StudyTypes /\ study = <<study[1], v>>
      /\ v \in 1..2 /\ study[1] \in {"effect", "alignment"}
  BY DEF StudyInv, StudyTypes, StartReport, Verified, Studies
<1>2. AllStored
  BY DEF StartReport, BucketsReady, SymbolReady, AllStored
<1>3. a \in Nat /\ b \in Nat
  BY <1>1, <1>2, CommonStartType DEF StudyTypes
<1>4. report' = [NoReport EXCEPT !.kind = study[1], !.version = v,
                     !.since = a, !.until = b, !.todo = {"rows", "counts"}]
  BY DEF StartReport
<1>5. PICK c, d, w : c = a /\ d = b /\ w = v
  OBVIOUS
<1> HIDE DEF a, b, v
<1>6. /\ report'.version = w /\ report'.since = c /\ report'.until = d
      /\ report'.kind = study[1] /\ report'.rows = {} /\ report'.todo = {"rows", "counts"}
      /\ report'.late = 0
  BY <1>4, <1>5 DEF NoReport
<1>7. CommonStart' = CommonStart /\ AllStored' = AllStored
  BY <1>1, StudyIsSame
<1>8. <<report'.kind, w>> \in Studies
  BY <1>1, <1>5, <1>6
<1>9. c = CommonStart' /\ d = time' /\ c \in Nat /\ d \in Nat /\ w \in 1..2
  BY <1>1, <1>3, <1>5, <1>7 DEF a, b
<1>10. report'.late <= Len(listed')
  BY <1>1, <1>6 DEF StudyTypes
<1>11. ReportIsOf(w, c, d)'
  BY <1>6, <1>8, <1>9, <1>10 DEF ReportIsOf, Studies
<1> QED BY <1>1, <1>2, <1>7, <1>9, <1>11 DEF ReportIsOfStudy

\* A report is of its study in every step.
LEMMA ReportStays ==
    ASSUME StudyInv, [StudyNext]_studyVars
    PROVE  ReportIsOfStudy'
<1>1. StudyTypes /\ SignalsInOrder /\ ReportIsOfStudy
  BY DEF StudyInv
<1>2. CASE LoadRows \/ LoadCounts
  BY <1>2, ReportLoads
<1>3. CASE \E study \in Studies : StartReport(study[1], study[2])
  BY <1>3, ReportBegins
<1>4. CASE report' = NoReport
  BY <1>4 DEF ReportIsOfStudy, NoReport
<1>5. CASE report' # NoReport /\ report = NoReport
              /\ ~ \E study \in Studies : StartReport(study[1], study[2])
  <2>1. report' = [report EXCEPT !.late = 0] \/ report' = report
    BY <1>5 DEF StudyNext, studyVars, NextBucket, Upgrade, Verify, ListSignal, CloseSignal,
                LoadRows, LoadCounts, FinishAlignment, FinishEffect, NoReport
  <2>2. [NoReport EXCEPT !.late = 0] = NoReport
    BY DEF NoReport
  <2> QED BY <1>5, <2>1, <2>2
<1>6. CASE /\ report # NoReport /\ report' # NoReport /\ ~ (LoadRows \/ LoadCounts)
  <2>1. live = 2 /\ start[2] # 0
    BY <1>1, <1>6 DEF ReportIsOfStudy, SignalsInOrder
  <2>2. CASE \E s \in StudySymbols, opened \in 1..LastTime, v \in 1..2 : ListSignal(s, opened, v)
    <3>1. /\ report' = [report EXCEPT !.late = @ + 1] /\ time' = time
          /\ \E signal : listed' = Append(listed, signal)
      BY <1>6, <2>2 DEF ListSignal
    <3>2. Len(listed') = Len(listed) + 1
      BY <1>1, <3>1 DEF StudyTypes
    <3> QED BY <1>6, <3>1, <3>2, ReportWaits
  <2>3. CASE \E i \in DOMAIN listed : CloseSignal(i)
    BY <2>1, <2>3 DEF CloseSignal
  <2>4. CASE UNCHANGED studyVars
    BY <1>6, <2>4, ReportWaits DEF studyVars
  <2>5. ~ NextBucket /\ ~ FinishAlignment /\ ~ FinishEffect
    BY <1>6 DEF NextBucket, FinishAlignment, FinishEffect
  <2>6. ~ Upgrade /\ ~ Verify
    BY <2>1 DEF Upgrade, Verify, Verified
  <2>7. \A study \in Studies : ~ StartReport(study[1], study[2])
    BY <1>6 DEF StartReport
  <2> QED BY <1>6, <2>2, <2>3, <2>4, <2>5, <2>6, <2>7 DEF StudyNext
<1> QED BY <1>2, <1>3, <1>4, <1>5, <1>6

\* A cohort of the first study is the same for any later end, unless it was empty.
LEMMA CohortOfLaterEnd ==
    ASSUME StudyTypes, NEW a \in Nat, NEW b \in Nat, NEW c \in Nat, b <= c,
           EarliestCohort(RowsOf(1, a, b)) # {}
    PROVE  EarliestCohort(RowsOf(1, a, c)) = EarliestCohort(RowsOf(1, a, b))
<1> DEFINE these == RowsOf(1, a, b)
           more == RowsOf(1, a, c)
           from == Later(a, start[1])
<1>1. /\ these \subseteq FeatureRow /\ more \subseteq FeatureRow
      /\ \A r \in these : r.id \in Population(1, a, b) /\ r.opened = listed[r.id].opened
      /\ \A r \in more : /\ r.id \in Population(1, a, c) /\ r.opened = listed[r.id].opened
                         /\ HasBuckets(r.id) /\ r = SignalRow(r.id)
  BY RowsAreOfSignals
<1>2. /\ \A i : i \in Population(1, a, b) <=>
                   /\ i \in DOMAIN listed /\ listed[i].version = 1
                   /\ from <= listed[i].opened /\ listed[i].opened < b
      /\ \A i : i \in Population(1, a, c) <=>
                   /\ i \in DOMAIN listed /\ listed[i].version = 1
                   /\ from <= listed[i].opened /\ listed[i].opened < c
  BY DEF Population, InCohort
<1>3. \A i \in DOMAIN listed : listed[i].opened \in Nat
  <2>1. \A i \in DOMAIN listed : listed[i] \in Signal
    BY DEF StudyTypes
  <2> QED BY <2>1 DEF Signal
<1> HIDE DEF from
<1>4. \A i \in Population(1, a, b) : i \in Population(1, a, c)
  <2> TAKE i \in Population(1, a, b)
  <2>1. i \in DOMAIN listed /\ listed[i].opened \in Nat /\ listed[i].opened < b
    BY <1>2, <1>3
  <2>2. listed[i].opened < c
    BY <2>1
  <2> QED BY <1>2, <2>2
<1>5. these \subseteq more
  BY <1>4 DEF RowsOf
<1>6. ASSUME NEW r \in these, NEW q \in more \ these PROVE Before(r, q)
  <2>1. q.id \notin Population(1, a, b)
    <3>1. q \in more /\ q.id \in Population(1, a, b) => SignalRow(q.id) \in these
      BY <1>1 DEF RowsOf
    <3> QED BY <1>1, <3>1
  <2>2. ~ (listed[q.id].opened < b)
    BY <1>1, <1>2, <2>1
  <2>3. r.opened < b /\ r.opened \in Nat
    BY <1>1, <1>2, <1>3
  <2>4. q.opened = listed[q.id].opened /\ q.opened \in Nat
    BY <1>1, <1>2, <1>3
  <2>5. r.opened < q.opened
    BY <2>2, <2>3, <2>4
  <2> QED BY <2>5 DEF Before
<1> HIDE DEF these, more
<1>7. EarliestCohort(these) # {}
  BY DEF these
<1>8. EarliestCohort(more) = EarliestCohort(these)
  BY <1>1, <1>5, <1>6, <1>7, CohortStays
<1> QED BY <1>8 DEF these, more
\* A published cohort stays that of its study.
LEMMA PublishedWaits ==
    ASSUME StudyInv, [StudyNext]_studyVars, published # {}, published' = published
    PROVE  PublishedIsOfStudy'
<1>1. StudyTypes /\ SignalsInOrder /\ live = 2 /\ AllStored
  BY DEF StudyInv, PublishedIsOfStudy
<1>2. PICK a \in Nat, b \in Nat : PublishedOf(a, b)
  BY DEF StudyInv, PublishedIsOfStudy
<1>3. AllStored' /\ CommonStart' = CommonStart /\ live' = 2
  BY <1>1, CommonStartStays, StartsStay
<1>4. time \in Nat /\ time' \in Nat /\ time <= time'
  BY <1>1, StoredGrows DEF StudyTypes
<1>5. ASSUME start' = start
      PROVE  /\ RowsOf(1, a, b)' = RowsOf(1, a, b)
             /\ Population(1, a, b)' = Population(1, a, b)
             /\ \A i \in Population(1, a, b)' : HasBuckets(i)' = HasBuckets(i)
  <2>1. 1 \in 1..2 /\ 1 # live
    BY <1>1
  <2> QED BY <1>1, <1>5, <2>1, StudyStays, PopulationStays
<1>6. /\ RowsOf(1, a, b)' = RowsOf(1, a, b)
      /\ Population(1, a, b)' = Population(1, a, b)
      /\ \A i \in Population(1, a, b)' : HasBuckets(i)' = HasBuckets(i)
  <2>1. CASE start' = start
    BY <1>5, <2>1
  <2>2. CASE start' # start
    <3>1. listed' = listed /\ time' = time /\ start'[1] = start[1]
      BY <1>1, <2>2, StartsStay DEF StudyTypes
    <3>2. Population(1, a, b)' = Population(1, a, b)
      BY <3>1 DEF Population, InCohort, Later
    <3>3. Population(1, a, b) \subseteq 1..Len(listed)
      BY <1>1, RowsAreOfSignals
    <3>4. \A i \in 1..Len(listed) : SignalRow(i)' = SignalRow(i) /\ HasBuckets(i)' = HasBuckets(i)
      BY <1>1, RowsStay
    <3>5. RowsOf(1, a, b)' = RowsOf(1, a, b)
      <4>1. RowsOf(1, a, b)' = {SignalRow(i)' : i \in {j \in Population(1, a, b)' : HasBuckets(j)'}}
        BY DEF RowsOf
      <4>2. {j \in Population(1, a, b)' : HasBuckets(j)'}
                = {j \in Population(1, a, b) : HasBuckets(j)}
        BY <3>2, <3>3, <3>4
      <4>3. \A i \in {j \in Population(1, a, b) : HasBuckets(j)} : SignalRow(i)' = SignalRow(i)
        BY <3>3, <3>4
      <4> QED BY <4>1, <4>2, <4>3 DEF RowsOf
    <3> QED BY <3>2, <3>3, <3>4, <3>5
  <2> QED BY <2>1, <2>2
<1>7. PublishedOf(a, b)'
  <2>1. a = CommonStart' /\ b <= time'
    BY <1>2, <1>3, <1>4 DEF PublishedOf
  <2>2. published' = EarliestCohort(RowsOf(1, a, b)')
    BY <1>2, <1>6 DEF PublishedOf
  <2>3. EarliestCohort(RowsOf(1, a, b)) = EarliestCohort(RowsOf(1, a, b))'
    BY <1>6 DEF EarliestCohort, UpTo, SampleReady, OfSymbol, Before
  <2>4. \A i \in Population(1, a, b)' : HasBuckets(i)'
    BY <1>2, <1>6 DEF PublishedOf
  <2> QED BY <1>2, <2>1, <2>3, <2>4 DEF PublishedOf
<1> QED BY <1>3, <1>7 DEF PublishedIsOfStudy

\* A report on effects that is COMPLETE publishes the cohort of its study, which
\* is the one that was published before.
LEMMA EffectIsOfStudy ==
    ASSUME StudyInv, FinishEffect, published' # published
    PROVE  /\ published = {} /\ live' = 2 /\ AllStored'
           /\ \E a, b \in Nat : PublishedOf(a, b)'
<1>1. /\ StudyTypes /\ Loaded /\ report.kind = "effect" /\ ReportReady
      /\ published' = EarliestCohort(report.rows) /\ published' # {}
      /\ listed' = listed /\ time' = time /\ lost' = lost /\ start' = start /\ live' = live
  BY DEF StudyInv, FinishEffect, Analysed
<1>2. report # NoReport /\ report.todo = {} /\ report \in Report
  BY <1>1 DEF Loaded, StudyTypes
<1>3. PICK v \in 1..2, a \in Nat, b \in Nat : ReportIsOf(v, a, b)
  BY <1>2 DEF StudyInv, ReportIsOfStudy
<1>4. v = 1
  BY <1>1, <1>3 DEF ReportIsOf, Studies
<1>5. /\ report.rows = RowsOf(1, a, b) /\ report.counts = CountsOf(1, a, b)
      /\ a = CommonStart /\ b = time
  BY <1>2, <1>3, <1>4 DEF ReportIsOf
<1>6. AllStored /\ live = 2 /\ time \in Nat
  BY <1>1, <1>2 DEF StudyInv, ReportIsOfStudy, SignalsInOrder, StudyTypes
<1>7. \A i \in Population(1, a, b) : HasBuckets(i)
  <2>1. IsFiniteSet(RowsOf(1, a, b)) /\ CountsOf(1, a, b) \in [StudySymbols -> Nat]
    BY <1>1, RowsAreOfSignals, LoadedType
  <2>2. StudyReady(RowsOf(1, a, b), CountsOf(1, a, b))
    BY <1>1, <1>5 DEF ReportReady
  <2>3. \A s \in StudySymbols : Cardinality(OfSymbol(RowsOf(1, a, b), s)) = CountsOf(1, a, b)[s]
    BY <2>1, <2>2, ReadyCoverage
  <2>4. \A s \in StudySymbols : CountsOf(1, a, b)[s] \in Nat
    BY <2>1
  <2>5. \A s \in StudySymbols :
            CountsOf(1, a, b)[s] <= Cardinality(OfSymbol(RowsOf(1, a, b), s))
    BY <2>3, <2>4
  <2> QED BY <1>1, <2>5, CoverageIsFull
<1>8. published = {}
  <2> SUFFICES ASSUME published # {} PROVE FALSE
    OBVIOUS
  <2>1. PICK c \in Nat, d \in Nat : PublishedOf(c, d)
    BY DEF StudyInv, PublishedIsOfStudy
  <2>2. c = a /\ d <= b /\ published = EarliestCohort(RowsOf(1, a, d))
    BY <1>5, <2>1 DEF PublishedOf
  <2>3. EarliestCohort(RowsOf(1, a, b)) = EarliestCohort(RowsOf(1, a, d))
    BY <1>1, <2>2, CohortOfLaterEnd
  <2> QED BY <1>1, <1>5, <2>2, <2>3
<1>9. /\ RowsOf(1, a, b)' = RowsOf(1, a, b) /\ Population(1, a, b)' = Population(1, a, b)
      /\ CommonStart' = CommonStart /\ AllStored' = AllStored
      /\ \A i : HasBuckets(i)' = HasBuckets(i)
  BY <1>1, StudyIsSame
<1>10. EarliestCohort(RowsOf(1, a, b))' = EarliestCohort(RowsOf(1, a, b))
  BY <1>9 DEF EarliestCohort, UpTo, SampleReady, OfSymbol, Before
<1>11. PublishedOf(a, b)'
  BY <1>1, <1>5, <1>6, <1>7, <1>9, <1>10 DEF PublishedOf
<1> QED BY <1>1, <1>6, <1>8, <1>9, <1>11

\* The inductive invariant of the studies.
LEMMA StudyStep ==
    ASSUME StudyInv, [StudyNext]_studyVars
    PROVE  StudyInv'
<1>1. PublishedIsOfStudy'
  <2>1. CASE published' = published
    BY <2>1, PublishedWaits DEF PublishedIsOfStudy
  <2>2. CASE published' # published
    <3>1. FinishEffect
      BY <2>2 DEF StudyNext, studyVars, NextBucket, Upgrade, Verify, ListSignal, CloseSignal,
                  StartReport, LoadRows, LoadCounts, FinishAlignment
    <3> QED BY <2>2, <3>1, EffectIsOfStudy DEF PublishedIsOfStudy
  <2> QED BY <2>1, <2>2
<1> QED BY <1>1, TypesStay, OrderStays, ReportStays DEF StudyInv

\* Reports are of the studies they are about, and what was published is the
\* cohort of the first study.
THEOREM StudySafety == StudySpec => []StudyInv
<1>1. StudyInit => StudyInv
  BY StudyInitHolds
<1>2. StudyInv /\ [StudyNext]_studyVars => StudyInv'
  BY StudyStep
<1> QED BY <1>1, <1>2, PTL DEF StudySpec
-----------------------------------------------------------------------------
(* What follows for the reports *)

\* What a report has under way is of its study.
LEMMA ReportOf ==
    ASSUME StudyInv, report # NoReport
    PROVE  \E v \in 1..2, a, b \in Nat :
               /\ ReportIsOf(v, a, b) /\ IsFiniteSet(report.rows)
               /\ IsFiniteSet(RowsOf(v, a, b)) /\ report.rows \in SUBSET FeatureRow
               /\ \A r \in report.rows :
                      /\ r \in RowsOf(v, a, b) /\ r.id \in Population(v, a, b)
                      /\ r = SignalRow(r.id) /\ r.symbol \in StudySymbols
               /\ report.counts \in [StudySymbols -> Nat] /\ report.late \in Nat
<1>1. PICK v \in 1..2, a \in Nat, b \in Nat : ReportIsOf(v, a, b)
  BY DEF StudyInv, ReportIsOfStudy
<1>2. /\ IsFiniteSet(RowsOf(v, a, b))
      /\ \A r \in RowsOf(v, a, b) : r.id \in Population(v, a, b) /\ r = SignalRow(r.id)
  BY RowsAreOfSignals DEF StudyInv
<1>3. report.rows \in SUBSET RowsOf(v, a, b)
  BY <1>1 DEF ReportIsOf
<1>4. IsFiniteSet(report.rows)
  BY <1>2, <1>3, FS_Subset
<1>5. /\ report.rows \in SUBSET FeatureRow
      /\ report.counts \in [StudySymbols -> Nat] /\ report.late \in Nat
  BY DEF StudyInv, StudyTypes, Report
<1>6. \A r \in report.rows : r.symbol \in StudySymbols
  BY <1>5 DEF FeatureRow
<1>7. \A r \in report.rows : /\ r \in RowsOf(v, a, b) /\ r.id \in Population(v, a, b)
                             /\ r = SignalRow(r.id)
  BY <1>2, <1>3
<1> QED BY <1>1, <1>2, <1>4, <1>5, <1>6, <1>7

\* A row is of a signal of its study, of buckets that were over when it opened.
LEMMA ForwardHolds ==
    ASSUME StudyInv
    PROVE  SampleIsForward
<1> SUFFICES ASSUME NEW r \in report.rows
             PROVE  /\ listed[r.id].version = report.version
                    /\ report.version = 2 => listed[r.id].verified
                    /\ \A w \in Windows : \A b \in r.windows[w] : b + 1 <= listed[r.id].opened
  BY DEF SampleIsForward
<1>1. report # NoReport
  BY DEF NoReport
<1>2. PICK v \in 1..2, a \in Nat, b \in Nat :
          /\ ReportIsOf(v, a, b) /\ r.id \in Population(v, a, b) /\ r = SignalRow(r.id)
  BY <1>1, ReportOf
<1> DEFINE i == r.id
<1>3. /\ i \in DOMAIN listed /\ listed[i].version = v /\ Later(a, start[v]) <= listed[i].opened
      /\ report.version = v
  BY <1>2 DEF Population, InCohort, ReportIsOf
<1>4. /\ listed[i] \in Signal /\ i \in 1..Len(listed) /\ time \in Nat /\ start[v] \in Nat
  BY <1>2, <1>3 DEF StudyInv, StudyTypes
<1>5. listed[i].opened \in Nat
  BY <1>4 DEF Signal
<1>6. r.windows = WindowFeatures(listed[i])
  BY <1>2 DEF SignalRow
<1> HIDE DEF i
<1>7. start[v] <= listed[i].opened
  BY <1>2, <1>3, <1>4, <1>5 DEF Later
<1>8. v = 2 => listed[i].verified
  <2>1. start[2] # 0
    BY <1>1 DEF StudyInv, ReportIsOfStudy
  <2>2. ~ listed[i].verified => listed[i].opened < start[2]
    BY <1>4, <2>1 DEF StudyInv, SignalsInOrder
  <2> QED BY <1>4, <1>5, <1>7, <2>2
<1>9. ASSUME NEW w \in Windows, NEW d \in r.windows[w] PROVE d + 1 <= listed[i].opened
  <2>1. d \in AlignedBuckets(listed[i])
    BY <1>6 DEF WindowFeatures
  <2>2. d \in 0..time - 1 /\ d < listed[i].opened
    BY <2>1 DEF AlignedBuckets, Stored
  <2> QED BY <1>4, <1>5, <2>2
<1> QED BY <1>3, <1>8, <1>9 DEF i

\* A report that is ready lacks rows of no more signals than came since it began.
LEMMA ReadyHolds ==
    ASSUME StudyInv
    PROVE  ReadyIsExact
<1> SUFFICES ASSUME Loaded, ReportReady
             PROVE  Cardinality(Population(report.version, report.since, report.until))
                        <= Cardinality(report.rows) + report.late
  BY DEF ReadyIsExact
<1>1. report # NoReport /\ report.todo = {} /\ StudyTypes
  BY DEF Loaded, StudyInv
<1>2. PICK v \in 1..2, a \in Nat, b \in Nat :
          /\ ReportIsOf(v, a, b) /\ IsFiniteSet(report.rows)
          /\ \A r \in report.rows : r.symbol \in StudySymbols
          /\ report.counts \in [StudySymbols -> Nat] /\ report.late \in Nat
  BY <1>1, ReportOf
<1> DEFINE All == Population(v, a, b)
           First == Early(v, a, b)
           n == Len(listed)
           Last == {i \in All : i \notin First}
           ofRow == [r \in report.rows |-> r.symbol]
           ofSignal == [i \in First |-> Symbols(i)]
<1>3. /\ All \in SUBSET (1..n) /\ IsFiniteSet(All) /\ \A i \in 1..n : Symbols(i) \in StudySymbols
  BY <1>1, RowsAreOfSignals
<1>4. First \in SUBSET All /\ \A i \in All : i \in First <=> i <= n - report.late
  BY DEF Early
<1>5. IsFiniteSet(First) /\ Cardinality(First) \in Nat
  BY <1>3, <1>4, FS_Subset, FS_CardinalityType
<1>6. \A s \in StudySymbols : Cardinality(OfSymbol(report.rows, s)) = report.counts[s]
  BY <1>2, ReadyCoverage DEF ReportReady
<1>7. \A s \in StudySymbols :
          Cardinality({i \in First : Symbols(i) = s}) <= report.counts[s]
  BY <1>1, <1>2 DEF ReportIsOf
<1>8. n \in Nat /\ report.late \in Nat /\ report.late <= n
  BY <1>1, <1>2 DEF StudyTypes, ReportIsOf
<1> HIDE DEF First, All, n
<1>9. Cardinality(First) <= Cardinality(report.rows)
  <2>1. \A s : /\ Owned(First, ofSignal, s) = {i \in First : Symbols(i) = s}
               /\ Owned(report.rows, ofRow, s) = OfSymbol(report.rows, s)
    BY DEF Owned, OfSymbol
  <2>2. \A i \in First : ofSignal[i] \in StudySymbols
    BY <1>3, <1>4
  <2> HIDE DEF ofSignal, ofRow
  <2>3. \A s \in StudySymbols :
            Cardinality(Owned(First, ofSignal, s)) <= Cardinality(Owned(report.rows, ofRow, s))
    BY <1>6, <1>7, <2>1
  <2> QED BY <1>2, <1>5, <2>2, <2>3, OwnersCompare
<1>10. IsFiniteSet(Last) /\ Cardinality(Last) <= report.late
  <2> DEFINE low == (n - report.late) + 1
  <2>1. low \in Int /\ n \in Int /\ low >= 1
    BY <1>8
  <2>2. IsFiniteSet(low..n) /\ Cardinality(low..n) = IF low > n THEN 0 ELSE n - low + 1
    BY <2>1, FS_Interval
  <2>3. Last \in SUBSET (low..n)
    <3>1. ASSUME NEW i \in Last PROVE i \in low..n
      <4>1. i \in 1..n /\ ~ (i <= n - report.late)
        BY <1>3, <1>4
      <4> QED BY <1>8, <4>1
    <3> QED BY <3>1
  <2>4. Cardinality(low..n) = report.late
    BY <1>8, <2>2
  <2> HIDE DEF Last, low
  <2> QED BY <2>2, <2>3, <2>4, FS_Subset
<1>11. Cardinality(All) = Cardinality(First) + Cardinality(Last) - Cardinality({})
  <2>1. All = First \cup Last /\ First \cap Last = {}
    BY <1>4
  <2> HIDE DEF Last
  <2> QED BY <1>5, <1>10, <2>1, FS_Union
<1>12. Cardinality(Last) \in Nat /\ Cardinality({}) = 0 /\ Cardinality(report.rows) \in Nat
  <2> HIDE DEF Last
  <2> QED BY <1>2, <1>10, FS_CardinalityType, FS_EmptySet
<1>13. report.version = v /\ report.since = a /\ report.until = b
  BY <1>2 DEF ReportIsOf
<1> HIDE DEF Last
<1>14. Cardinality(All) <= Cardinality(report.rows) + report.late
  BY <1>5, <1>8, <1>9, <1>10, <1>11, <1>12
<1> QED BY <1>13, <1>14 DEF All

\* Outcomes are published for a sample that fills every gate and misses no signal.
LEMMA LabelsHold ==
    ASSUME StudyInv
    PROVE  LabelsAreGated
<1> SUFFICES ASSUME published # {}
             PROVE  /\ SampleReady(published)
                    /\ \A r \in published : \A i \in Population(1, CommonStart, r.opened + 1) :
                          ~ Before(r, [opened |-> listed[i].opened, id |-> i])
                              => i \in Ids(published)
  BY DEF LabelsAreGated
<1>1. PICK a \in Nat, b \in Nat : PublishedOf(a, b)
  BY DEF StudyInv, PublishedIsOfStudy
<1> DEFINE these == RowsOf(1, a, b)
<1>2. /\ a = CommonStart /\ published = EarliestCohort(these)
      /\ \A i \in Population(1, a, b) : HasBuckets(i)
  BY <1>1 DEF PublishedOf
<1>3. /\ these \subseteq FeatureRow
      /\ \A r \in these : r.id \in Population(1, a, b) /\ r.opened = listed[r.id].opened
  BY RowsAreOfSignals DEF StudyInv
<1>4. /\ SampleReady(published) /\ published \subseteq these
      /\ \A r \in published, q \in these : ~ Before(r, q) => q \in published
  <2> HIDE DEF these
  <2> QED BY <1>2, <1>3, CohortIsReady
<1>5. ASSUME NEW r \in published, NEW i \in Population(1, a, r.opened + 1),
             ~ Before(r, [opened |-> listed[i].opened, id |-> i])
      PROVE  i \in Ids(published)
  <2>1. i \in DOMAIN listed /\ InCohort(listed[i], 1, Later(a, start[1]), r.opened + 1)
    BY DEF Population
  <2>2. r.opened < b /\ r.opened \in Nat
    <3>1. r \in these /\ r \in FeatureRow
      BY <1>3, <1>4
    <3> QED BY <1>3, <3>1 DEF Population, InCohort, FeatureRow
  <2>3. listed[i].opened \in Nat
    <3>1. listed[i] \in Signal
      BY <2>1 DEF StudyInv, StudyTypes
    <3> QED BY <3>1 DEF Signal
  <2>4. listed[i].opened < b
    BY <2>1, <2>2, <2>3 DEF InCohort
  <2>5. i \in Population(1, a, b)
    BY <2>1, <2>4 DEF Population, InCohort
  <2>6. SignalRow(i) \in these
    BY <1>2, <2>5 DEF RowsOf
  <2>7. SignalRow(i).opened = listed[i].opened /\ SignalRow(i).id = i
    BY DEF SignalRow
  <2>8. ~ Before(r, SignalRow(i))
    BY <1>5, <2>7 DEF Before
  <2>9. SignalRow(i) \in published
    BY <1>4, <2>6, <2>8
  <2> QED BY <2>7, <2>9 DEF Ids
<1> QED BY <1>2, <1>4, <1>5
\* A sum is zero only if every number is.
LEMMA SumIsZero ==
    ASSUME NEW S, IsFiniteSet(S), NEW f \in [S -> Nat]
    PROVE  SumOver(f) = 0 <=> \A s \in S : f[s] = 0
<1> DEFINE zero == [s \in S |-> 0]
<1>1. zero \in [S -> Nat] /\ \A s \in S : zero[s] = 0 /\ zero[s] <= f[s] /\ f[s] \in Nat
  OBVIOUS
<1>2. Units(zero) = {}
  BY DEF Units
<1>3. SumOver(zero) = 0
  BY <1>2, FS_EmptySet DEF SumOver
<1> HIDE DEF zero
<1>4. SumOver(f) \in Nat
  BY UnitsAreCounted
<1>5. (\E s \in S : zero[s] < f[s]) => SumOver(zero) < SumOver(f)
  BY <1>1, SumCompares
<1>6. ASSUME \A s \in S : f[s] = 0 PROVE f = zero
  BY <1>6 DEF zero
<1>7. ASSUME SumOver(f) = 0, NEW s \in S PROVE f[s] = 0
  <2>1. ~ (zero[s] < f[s])
    BY <1>3, <1>5, <1>7
  <2> QED BY <1>1, <2>1
<1> QED BY <1>3, <1>6, <1>7

\* The check in production accepts a report exactly if its statements agree.
LEMMA CheckHolds ==
    ASSUME StudyInv
    PROVE  CheckIsRight
<1> SUFFICES ASSUME Loaded, report.kind = "alignment"
             PROVE  CheckAccepts <=>
                        CoverageStatus(report.rows, report.counts) # "COUNT_INCONSISTENCY"
  BY DEF CheckIsRight
<1>1. report # NoReport /\ IsFiniteSet(StudySymbols)
  BY StudyAssumption DEF Loaded
<1>2. /\ IsFiniteSet(report.rows) /\ report.counts \in [StudySymbols -> Nat]
      /\ \A r \in report.rows : r.symbol \in StudySymbols
  BY <1>1, ReportOf
<1> DEFINE S == StudySymbols
           R == report.rows
           c == report.counts
           have == [s \in S |-> Cardinality(OfSymbol(R, s))]
           lack == [s \in S |-> Unaligned(R, c, s)]
           both == [s \in S |-> have[s] + lack[s]]
           status == CoverageStatus(R, c)
<1>3. have \in [S -> Nat]
  <2>1. \A s \in S : OfSymbol(R, s) \in SUBSET R
    BY DEF OfSymbol
  <2>2. \A s \in S : Cardinality(OfSymbol(R, s)) \in Nat
    BY <1>2, <2>1, FS_Subset, FS_CardinalityType
  <2> QED BY <2>2
<1>4. \A s \in S : /\ c[s] \in Nat /\ have[s] \in Nat
                   /\ lack[s] = IF have[s] > c[s] THEN 0 ELSE c[s] - have[s]
  <2> TAKE s \in S
  <2>1. lack[s] = Later(0, c[s] - have[s])
    BY DEF Unaligned
  <2>2. c[s] \in Nat /\ have[s] \in Nat
    BY <1>2, <1>3
  <2> HIDE DEF have, lack, c
  <2> QED BY <2>1, <2>2 DEF Later
<1>5. lack \in [S -> Nat] /\ both \in [S -> Nat] /\ \A s \in S : both[s] = have[s] + lack[s]
  <2>1. \A s \in S : lack[s] \in Nat /\ have[s] + lack[s] \in Nat
    <3> HIDE DEF have, lack, c
    <3> QED BY <1>4
  <2> QED BY <2>1
<1>6. Cardinality(R) = SumOver(have)
  <2> DEFINE symbol == [r \in R |-> r.symbol]
  <2>1. \A s \in S : have[s] = Cardinality(Owned(R, symbol, s))
    <3>1. \A s \in S : Owned(R, symbol, s) = OfSymbol(R, s)
      BY DEF Owned, OfSymbol
    <3> QED BY <3>1
  <2>2. \A r \in R : symbol[r] \in S
    BY <1>2
  <2> HIDE DEF have, symbol
  <2> QED BY <1>1, <1>2, <1>3, <2>1, <2>2, SumOfOwned
<1>7. SumOver(both) = SumOver(have) + SumOver(lack)
  <2> HIDE DEF have, lack
  <2> QED BY <1>1, <1>3, <1>5, SumsAdd
<1>8. /\ status = "COUNT_INCONSISTENCY" <=> \E s \in S : have[s] > c[s]
      /\ status # "COUNT_INCONSISTENCY" =>
             /\ status = "WAITING_FOR_FORWARD_SIGNALS" <=> \A s \in S : c[s] = 0
             /\ status = "COVERAGE_FAILURE" <=>
                    (\E s \in S : lack[s] > 0) /\ ~ \A s \in S : c[s] = 0
             /\ status \in {"WAITING_FOR_FORWARD_SIGNALS", "COVERAGE_FAILURE", "ALIGNED"}
  BY DEF CoverageStatus
<1>9. /\ SumOver(c) \in Nat /\ SumOver(lack) \in Nat
      /\ SumOver(c) = 0 <=> \A s \in S : c[s] = 0
      /\ SumOver(lack) = 0 <=> \A s \in S : lack[s] = 0
  <2> HIDE DEF lack
  <2> QED BY <1>1, <1>2, <1>5, SumIsZero, UnitsAreCounted
<1>10. CheckAccepts <=>
          /\ SumOver(c) = Cardinality(R) + SumOver(lack)
          /\ SumOver(c) = 0 => status = "WAITING_FOR_FORWARD_SIGNALS"
          /\ SumOver(c) > 0 /\ SumOver(lack) = 0 => status = "ALIGNED"
          /\ SumOver(lack) > 0 => status = "COVERAGE_FAILURE"
          /\ ReportReady => status = "ALIGNED"
  BY DEF CheckAccepts
<1>11. ReportReady => status = "ALIGNED"
  BY DEF ReportReady, StudyReady
<1> HIDE DEF have, lack, both, c, status, R
<1>12. CASE \E s \in S : have[s] > c[s]
  <2>1. \A s \in S : c[s] <= both[s]
    BY <1>4, <1>5
  <2>2. \E s \in S : c[s] < both[s]
    BY <1>4, <1>5, <1>12
  <2>3. SumOver(c) < SumOver(both)
    BY <1>1, <1>2, <1>5, <2>1, <2>2, SumCompares DEF c
  <2>4. SumOver(both) \in Nat
    BY <1>1, <1>5, UnitsAreCounted
  <2>5. SumOver(c) # Cardinality(R) + SumOver(lack)
    BY <1>6, <1>7, <1>9, <2>3, <2>4
  <2> QED BY <1>8, <1>10, <1>12, <2>5 DEF c, R, status
<1>13. CASE ~ \E s \in S : have[s] > c[s]
  <2>1. \A s \in S : both[s] = c[s]
    BY <1>4, <1>5, <1>13
  <2>2. both = c
    BY <1>2, <1>5, <2>1 DEF c
  <2>3. SumOver(c) = Cardinality(R) + SumOver(lack)
    BY <1>6, <1>7, <2>2
  <2>4. SumOver(lack) > 0 => \E s \in S : lack[s] > 0 /\ c[s] # 0
    <3>1. \A s \in S : lack[s] # 0 => lack[s] > 0 /\ c[s] # 0
      BY <1>4, <1>13
    <3> QED BY <1>9, <3>1
  <2>5. SumOver(lack) = 0 => ~ \E s \in S : lack[s] > 0
    BY <1>4, <1>9
  <2>6. status # "COUNT_INCONSISTENCY"
    BY <1>8, <1>13
  <2>7. SumOver(c) > 0 /\ SumOver(lack) = 0 => status = "ALIGNED"
    BY <1>8, <1>9, <2>5, <2>6
  <2>8. SumOver(lack) > 0 => status = "COVERAGE_FAILURE"
    BY <1>8, <2>4, <2>6
  <2>9. SumOver(c) = 0 => status = "WAITING_FOR_FORWARD_SIGNALS"
    BY <1>8, <1>9, <2>6
  <2>10. CheckAccepts
    BY <1>10, <1>11, <2>3, <2>7, <2>8, <2>9
  <2> QED BY <2>6, <2>10 DEF status, R, c
<1> QED BY <1>12, <1>13

\* What is published is never replaced (build_effect_v3_status), though every
\* report computes its cohort anew.
LEMMA FrozenStep ==
    ASSUME StudyInv, [StudyNext]_studyVars
    PROVE  [published # {} => published' = published]_published
<1>1. CASE published' = published
  BY <1>1
<1>2. CASE published' # published
  <2>1. FinishEffect
    BY <1>2 DEF StudyNext, studyVars, NextBucket, Upgrade, Verify, ListSignal, CloseSignal,
                StartReport, LoadRows, LoadCounts, FinishAlignment
  <2> QED BY <1>2, <2>1, EffectIsOfStudy
<1> QED BY <1>1, <1>2

\* The studies of the order-book buckets before the signals: rows look at no
\* bucket that was not over, a ready report misses no more than came meanwhile,
\* outcomes are read for a full sample without a gap, the check in production is
\* right, and the published cohort is final.
THEOREM BucketStudyIsSoundHolds == StudySpec => BucketStudyIsSound
<1>1. StudyInv => SampleIsForward /\ ReadyIsExact /\ LabelsAreGated /\ CheckIsRight
  BY ForwardHolds, ReadyHolds, LabelsHold, CheckHolds
<1>2. StudyInv /\ [StudyNext]_studyVars => [published # {} => published' = published]_published
  BY FrozenStep
<1>3. [][StudyNext]_studyVars /\ []StudyInv => CohortIsFrozen
  BY <1>2, PTL DEF CohortIsFrozen
<1> QED BY <1>1, <1>3, StudySafety, PTL DEF StudySpec, BucketStudyIsSound
=============================================================================
