------------------------- MODULE Governance_proofs --------------------------
(***************************************************************************)
(* Proofs about the registration of research trials and their events, and  *)
(* about the vault of the sealed samples.                                  *)
(***************************************************************************)
EXTENDS ResearchLedger, OosVault, TLAPS

-----------------------------------------------------------------------------
(***************************************************************************)
(* ResearchLedger, for any recorders, builds and stages.                   *)
(***************************************************************************)

\* The end of a call leaves the state well typed.
LEMMA ReleaseTypes ==
    ASSUME TypeOK, NEW c \in Recorders, Release(c)
    PROVE  /\ draft' \in Recorders \cup {None}
           /\ lock' \in Recorders \cup {None}
           /\ pc' \in [Recorders -> Labels]
           /\ req' \in [Recorders -> Event \cup {None}]
           /\ \A d \in Recorders : pc'[d] # "idle" => req'[d] \in Event
           /\ mine' \in [Recorders -> SUBSET Event]
BY DEF TypeOK, Release, Goto, Labels

\* A step that only moves to another label keeps the types.
LEMMA GotoTypes ==
    ASSUME TypeOK, NEW c \in Recorders, NEW l \in Labels,
           Goto(c, l), pc[c] # "idle",
           UNCHANGED <<registry, draft, events, lock, req, mine, acked, crashes>>
    PROVE  TypeOK'
BY DEF TypeOK, Goto

\* A call that raises leaves the state well typed.
LEMMA RaiseTypes ==
    ASSUME TypeOK, NEW c \in Recorders, Raise(c)
    PROVE  TypeOK'
<1>1. Release(c) /\ UNCHANGED <<registry, events, acked, crashes>>
  BY DEF Raise
<1> QED
  BY <1>1, ReleaseTypes DEF TypeOK

\* A call that returns leaves the state well typed.
LEMMA ReturnTypes ==
    ASSUME TypeOK, NEW c \in Recorders, pc[c] # "idle", Return(c)
    PROVE  TypeOK'
<1>1. CASE c \in Transactional
  <2>1. "commit" \in Labels
    BY DEF Labels
  <2> QED
    BY <1>1, <2>1, GotoTypes DEF Return
<1>2. CASE c \notin Transactional
  <2>1. Release(c) /\ acked' = acked \cup {req[c]} /\ UNCHANGED <<registry, events, crashes>>
    BY <1>2 DEF Return
  <2>2. req[c] \in Event
    BY DEF TypeOK
  <2> QED
    BY <2>1, <2>2, ReleaseTypes DEF TypeOK
<1> QED
  BY <1>1, <1>2

\* Every reachable state is well typed; in particular a recorder that works
\* always carries a validated event.
THEOREM LedgerTyping == Spec => []TypeOK
<1>1. Init => TypeOK
  BY CrashAssumption DEF Init, TypeOK, Labels
<1>2. TypeOK /\ [Next]_vars => TypeOK'
  <2> SUFFICES ASSUME TypeOK, [Next]_vars PROVE TypeOK'
    OBVIOUS
  <2>u. CASE UNCHANGED vars
    BY <2>u DEF TypeOK, vars
  <2>n. CASE Next
    <3> PICK c \in Recorders : Step(c) \/ Crash(c)
      BY <2>n DEF Next
    <3>l. /\ "register" \in Labels /\ "schema" \in Labels /\ "readSame" \in Labels
          /\ "readAll" \in Labels /\ "insert" \in Labels /\ "reread" \in Labels
          /\ "commit" \in Labels
      BY DEF Labels
    <3>r. pc[c] # "idle" => req[c] \in Event
      BY DEF TypeOK
    <3>1. CASE Call(c)
      <4>1. PICK r \in Event : req' = [req EXCEPT ![c] = r]
        BY <3>1 DEF Call
      <4>2. /\ pc' = [pc EXCEPT ![c] = "register"]
            /\ UNCHANGED <<registry, draft, events, lock, mine, acked, crashes>>
        BY <3>1 DEF Call, Goto
      <4> QED
        BY <4>1, <4>2, <3>l DEF TypeOK
    <3>2. CASE Register(c)
      <4>1. registry' \in Builds \cup {None} /\ draft' \in Recorders \cup {None}
        <5>1. req[c].build \in Builds
          BY <3>2, <3>r DEF Register, Event
        <5> QED
          BY <3>2, <5>1 DEF Register, TypeOK
      <4>2. /\ pc' = [pc EXCEPT ![c] = "schema"] /\ pc[c] # "idle"
            /\ UNCHANGED <<events, lock, req, mine, acked, crashes>>
        BY <3>2 DEF Register, Goto
      <4> QED
        BY <4>1, <4>2, <3>l DEF TypeOK
    <3>3. CASE OnlyRegister(c)
      <4>1. registry' \in Builds \cup {None}
        <5>1. req[c].build \in Builds
          BY <3>3, <3>r DEF OnlyRegister, Event
        <5> QED
          BY <3>3, <5>1 DEF OnlyRegister, TypeOK
      <4>2. Release(c) /\ UNCHANGED <<events, acked, crashes>>
        BY <3>3 DEF OnlyRegister
      <4> QED
        BY <4>1, <4>2, ReleaseTypes DEF TypeOK
    <3>4. CASE RegistryConflict(c)
      BY <3>4, RaiseTypes DEF RegistryConflict
    <3>5. CASE Schema(c)
      <4>1. lock' \in Recorders \cup {None}
        BY <3>5 DEF Schema, TypeOK
      <4>2. /\ pc' = [pc EXCEPT ![c] = "readSame"] /\ pc[c] # "idle"
            /\ UNCHANGED <<registry, draft, events, req, mine, acked, crashes>>
        BY <3>5 DEF Schema, Goto
      <4> QED
        BY <4>1, <4>2, <3>l DEF TypeOK
    <3>6. CASE ReadSame(c)
      <4>1. pc[c] # "idle"
        BY <3>6 DEF ReadSame
      <4>2. \/ /\ Goto(c, "readAll")
               /\ UNCHANGED <<registry, draft, events, lock, req, mine, acked, crashes>>
            \/ Return(c)
            \/ Raise(c)
        BY <3>6 DEF ReadSame
      <4> QED
        BY <4>1, <4>2, <3>l, GotoTypes, ReturnTypes, RaiseTypes
    <3>7. CASE ReadAll(c)
      <4>1. pc[c] # "idle"
        BY <3>7 DEF ReadAll
      <4>2. \/ /\ Goto(c, "insert")
               /\ UNCHANGED <<registry, draft, events, lock, req, mine, acked, crashes>>
            \/ Raise(c)
        BY <3>7 DEF ReadAll
      <4> QED
        BY <4>1, <4>2, <3>l, GotoTypes, RaiseTypes
    <3>8. CASE Insert(c)
      <4>1. PICK new \in SUBSET {req[c]} :
                IF c \in Transactional
                THEN mine' = [mine EXCEPT ![c] = @ \cup new] /\ UNCHANGED events
                ELSE events' = events \cup new /\ UNCHANGED mine
        BY <3>8 DEF Insert
      <4>2. /\ pc' = [pc EXCEPT ![c] = "reread"] /\ pc[c] # "idle"
            /\ UNCHANGED <<registry, draft, lock, req, acked, crashes>>
        BY <3>8 DEF Insert, Goto
      <4>3. new \subseteq Event
        BY <4>2, <3>r
      <4>4. mine' \in [Recorders -> SUBSET Event] /\ events' \subseteq Event
        BY <4>1, <4>3 DEF TypeOK
      <4> QED
        BY <4>2, <4>4, <3>l DEF TypeOK
    <3>9. CASE Reread(c)
      <4>1. pc[c] # "idle" /\ (Return(c) \/ Raise(c))
        BY <3>9 DEF Reread
      <4> QED
        BY <4>1, ReturnTypes, RaiseTypes
    <3>10. CASE Commit(c)
      <4>1. pc[c] # "idle" /\ Release(c) /\ UNCHANGED crashes
        BY <3>10 DEF Commit
      <4>2. req[c].build \in Builds
        BY <4>1, <3>r DEF Event
      <4>3. /\ registry' \in Builds \cup {None}
            /\ events' \subseteq Event
            /\ acked' \subseteq Event
        BY <3>10, <4>1, <4>2, <3>r DEF Commit, TypeOK
      <4> QED
        BY <4>1, <4>3, ReleaseTypes DEF TypeOK
    <3>11. CASE Crash(c)
      <4>1. Release(c) /\ UNCHANGED <<registry, events, acked>>
        BY <3>11 DEF Crash
      <4>2. crashes' \in 0..MaxCrashes
        BY <3>11, CrashAssumption DEF Crash, TypeOK
      <4> QED
        BY <4>1, <4>2, ReleaseTypes DEF TypeOK
    <3> QED
      BY <3>1, <3>2, <3>3, <3>4, <3>5, <3>6, <3>7, <3>8, <3>9, <3>10, <3>11 DEF Step
  <2> QED
    BY <2>u, <2>n
<1> QED
  BY <1>1, <1>2, PTL DEF Spec

-----------------------------------------------------------------------------
(* The transactions *)

\* What the end of a call does to the recorder and to the others.
LEMMA ReleaseEffect ==
    ASSUME TypeOK, NEW c \in Recorders, Release(c)
    PROVE  /\ pc'[c] = "idle" /\ mine'[c] = {}
           /\ \A d \in Recorders \ {c} :
                 pc'[d] = pc[d] /\ req'[d] = req[d] /\ mine'[d] = mine[d]
           /\ draft' = (IF draft = c THEN None ELSE draft)
           /\ lock' = (IF lock = c THEN None ELSE lock)
BY DEF TypeOK, Release, Goto

\* Ending a call keeps the transactions apart, whether it registered or not.
LEMMA ReleaseKeepsTransactions ==
    ASSUME TypeOK, TransactionInv, NEW c \in Recorders, Release(c),
           registry' = registry \/ (draft = c /\ registry' = req[c].build)
    PROVE  TransactionInv'
<1> USE RecordersAssumption, ReleaseEffect
<1>1. Registered'
  <2> SUFFICES ASSUME NEW d \in Recorders, pc'[d] \in AfterRegister
               PROVE  registry' = req'[d].build \/ draft' = d
    BY DEF Registered
  <2>1. d # c
    BY DEF AfterRegister
  <2>2. registry = req[d].build \/ draft = d
    BY <2>1 DEF TransactionInv, Registered
  <2>3. CASE draft = d
    BY <2>1, <2>3
  <2>4. CASE registry = req[d].build /\ draft # c
    BY <2>1, <2>4
  <2>5. CASE registry = req[d].build /\ draft = c
    <3>1. registry = None
      BY <2>5 DEF TransactionInv, DraftIsAlone
    <3>2. req[d] \in Event
      BY <2>1 DEF TypeOK, AfterRegister
    <3>3. req[d].build \in Builds
      BY <3>2 DEF Event
    <3> QED
      BY <2>5, <3>1, <3>3, BuildsAssumption
  <2> QED
    BY <2>2, <2>3, <2>4, <2>5
<1>2. DraftIsAlone'
  <2> SUFFICES ASSUME draft' # None
               PROVE  registry' = None /\ draft' \in Transactional /\ pc'[draft'] \in AfterRegister
    BY DEF DraftIsAlone
  <2>1. draft # c /\ draft' = draft
    OBVIOUS
  <2>2. registry = None /\ draft \in Transactional /\ pc[draft] \in AfterRegister
    BY <2>1 DEF TransactionInv, DraftIsAlone
  <2> QED
    BY <2>1, <2>2
<1>3. LockIsHeld'
  <2>1. lock' # None => lock' \in Transactional
    BY DEF TransactionInv, LockIsHeld
  <2>2. ASSUME NEW d \in Transactional
        PROVE  pc'[d] \in AfterSchema <=> lock' = d
    <3>1. CASE d = c
      BY <3>1 DEF AfterSchema, AfterRegister
    <3>2. CASE d # c
      BY <3>2 DEF TransactionInv, LockIsHeld
    <3> QED
      BY <3>1, <3>2
  <2> QED
    BY <2>1, <2>2 DEF LockIsHeld
<1>4. MineIsOwn'
  BY DEF TransactionInv, MineIsOwn
<1> QED
  BY <1>1, <1>2, <1>3, <1>4 DEF TransactionInv

\* Moving on inside the part of the call after the schema script.
LEMMA GotoKeepsTransactions ==
    ASSUME TypeOK, TransactionInv, NEW c \in Recorders, NEW l \in AfterSchema,
           Goto(c, l), pc[c] \in AfterSchema \ {"reread", "commit"} \/ l = "commit",
           pc[c] \in AfterSchema,
           UNCHANGED <<registry, draft, lock, req, mine>>
    PROVE  TransactionInv'
<1>1. /\ pc'[c] = l /\ \A d \in Recorders \ {c} : pc'[d] = pc[d]
  BY DEF Goto, TypeOK
<1>2. Registered' /\ DraftIsAlone'
  BY <1>1, RecordersAssumption DEF TransactionInv, Registered, DraftIsAlone, AfterSchema
<1>3. LockIsHeld'
  BY <1>1, RecordersAssumption DEF TransactionInv, LockIsHeld
<1>4. MineIsOwn'
  BY <1>1 DEF TransactionInv, MineIsOwn
<1> QED
  BY <1>2, <1>3, <1>4 DEF TransactionInv

\* A call that returns keeps the lock with the transaction past the schema.
LEMMA ReturnKeepsTransactions ==
    ASSUME TypeOK, TransactionInv, NEW c \in Recorders, pc[c] \in AfterSchema, Return(c)
    PROVE  TransactionInv'
<1>1. CASE c \in Transactional
  <2>1. Goto(c, "commit") /\ UNCHANGED <<registry, draft, lock, req, mine>>
    BY <1>1 DEF Return
  <2>2. "commit" \in AfterSchema
    BY DEF AfterSchema, AfterRegister
  <2> QED
    BY <2>1, <2>2, GotoKeepsTransactions
<1>2. CASE c \notin Transactional
  BY <1>2, ReleaseKeepsTransactions DEF Return
<1> QED
  BY <1>1, <1>2

\* A call that raises gives up only its own lock.
LEMMA RaiseKeepsTransactions ==
    ASSUME TypeOK, TransactionInv, NEW c \in Recorders, Raise(c)
    PROVE  TransactionInv'
BY ReleaseKeepsTransactions DEF Raise

\* Every step keeps the lock with the transaction past the schema.
LEMMA TransactionStep ==
    ASSUME TypeOK, TransactionInv, [Next]_vars PROVE TransactionInv'
<1>u. CASE UNCHANGED vars
  BY <1>u DEF vars, TransactionInv, Registered, DraftIsAlone, LockIsHeld, MineIsOwn
<1>n. CASE Next
  <2> PICK c \in Recorders : Step(c) \/ Crash(c)
    BY <1>n DEF Next
  <2>l. {"readSame", "readAll", "insert", "reread"} \subseteq AfterSchema
    BY DEF AfterSchema, AfterRegister
  <2>1. CASE Call(c)
    <3>1. PICK r \in Event : req' = [req EXCEPT ![c] = r]
      BY <2>1 DEF Call
    <3>2. /\ pc[c] = "idle" /\ pc'[c] = "register"
          /\ \A d \in Recorders \ {c} : pc'[d] = pc[d] /\ req'[d] = req[d]
          /\ UNCHANGED <<registry, draft, lock, mine>>
      BY <2>1, <3>1 DEF Call, Goto, TypeOK
    <3>3. Registered'
      BY <3>2 DEF TransactionInv, Registered, AfterRegister
    <3>4. DraftIsAlone'
      BY <3>2, RecordersAssumption DEF TransactionInv, DraftIsAlone, AfterRegister
    <3>5. LockIsHeld'
      BY <3>2, RecordersAssumption DEF TransactionInv, LockIsHeld, AfterSchema, AfterRegister
    <3>6. MineIsOwn'
      BY <3>2 DEF TransactionInv, MineIsOwn
    <3> QED
      BY <3>3, <3>4, <3>5, <3>6 DEF TransactionInv
  <2>2. CASE Register(c)
    <3>1. /\ pc[c] = "register" /\ pc'[c] = "schema"
          /\ \A d \in Recorders \ {c} : pc'[d] = pc[d]
          /\ UNCHANGED <<lock, req, mine>>
          /\ draft \in {None, c} /\ registry \in {None, req[c].build}
      BY <2>2 DEF Register, Goto, TypeOK
    <3>2. \/ UNCHANGED <<registry, draft>> /\ registry = req[c].build
          \/ UNCHANGED <<registry, draft>> /\ draft = c
          \/ registry = None /\ draft = None /\ draft' = c /\ c \in Transactional
             /\ UNCHANGED registry
          \/ registry = None /\ draft = None /\ registry' = req[c].build /\ UNCHANGED draft
      BY <2>2 DEF Register
    <3>3. ASSUME NEW d \in Recorders \ {c}, pc[d] \in AfterRegister
          PROVE  registry \in Builds \/ draft = d
      <4>1. registry = req[d].build \/ draft = d
        BY <3>3 DEF TransactionInv, Registered
      <4>2. req[d].build \in Builds
        BY <3>3 DEF TypeOK, AfterRegister, Event
      <4> QED
        BY <4>1, <4>2
    <3>4. Registered'
      <4> SUFFICES ASSUME NEW d \in Recorders, pc'[d] \in AfterRegister
                   PROVE  registry' = req'[d].build \/ draft' = d
        BY DEF Registered
      <4>1. CASE d = c
        BY <4>1, <3>1, <3>2
      <4>2. CASE d # c
        BY <4>2, <3>1, <3>2, <3>3, BuildsAssumption, RecordersAssumption
           DEF TransactionInv, Registered
      <4> QED
        BY <4>1, <4>2
    <3>5. DraftIsAlone'
      BY <3>1, <3>2, BuildsAssumption, RecordersAssumption
         DEF TransactionInv, DraftIsAlone, AfterRegister
    <3>6. LockIsHeld'
      BY <3>1, RecordersAssumption DEF TransactionInv, LockIsHeld, AfterSchema, AfterRegister
    <3>7. MineIsOwn'
      BY <3>1 DEF TransactionInv, MineIsOwn
    <3> QED
      BY <3>4, <3>5, <3>6, <3>7 DEF TransactionInv
  <2>3. CASE OnlyRegister(c)
    BY <2>3, ReleaseKeepsTransactions DEF OnlyRegister
  <2>4. CASE RegistryConflict(c)
    BY <2>4, RaiseKeepsTransactions DEF RegistryConflict
  <2>5. CASE Schema(c)
    <3>1. /\ pc[c] = "schema" /\ pc'[c] = "readSame"
          /\ \A d \in Recorders \ {c} : pc'[d] = pc[d]
          /\ UNCHANGED <<registry, draft, req, mine>>
          /\ lock \in {None, c}
          /\ lock' = (IF c \in Transactional THEN c ELSE lock)
      BY <2>5 DEF Schema, Goto, TypeOK, TableFree
    <3>2. Registered' /\ DraftIsAlone'
      BY <3>1, RecordersAssumption DEF TransactionInv, Registered, DraftIsAlone, AfterRegister
    <3>3. LockIsHeld'
      <4>1. lock' # None => lock' \in Transactional
        BY <3>1 DEF TransactionInv, LockIsHeld
      <4>2. ASSUME NEW d \in Transactional PROVE pc'[d] \in AfterSchema <=> lock' = d
        <5>1. pc[d] \in AfterSchema <=> lock = d
          BY DEF TransactionInv, LockIsHeld
        <5>2. CASE d = c
          BY <5>2, <3>1 DEF AfterSchema, AfterRegister
        <5>3. CASE d # c
          <6>1. lock # d
            BY <5>3, <3>1, RecordersAssumption
          <6>2. lock' # d
            BY <5>3, <3>1, <6>1
          <6> QED
            BY <5>1, <5>3, <6>1, <6>2, <3>1, RecordersAssumption
        <5> QED
          BY <5>2, <5>3
      <4> QED
        BY <4>1, <4>2 DEF LockIsHeld
    <3>4. MineIsOwn'
      BY <3>1 DEF TransactionInv, MineIsOwn
    <3> QED
      BY <3>2, <3>3, <3>4 DEF TransactionInv
  <2>6. CASE ReadSame(c)
    <3>1. /\ pc[c] = "readSame"
          /\ \/ Goto(c, "readAll") /\ UNCHANGED <<registry, draft, lock, req, mine>>
             \/ Return(c)
             \/ Raise(c)
      BY <2>6 DEF ReadSame
    <3> QED
      BY <3>1, <2>l, GotoKeepsTransactions, ReturnKeepsTransactions, RaiseKeepsTransactions
  <2>7. CASE ReadAll(c)
    <3>1. /\ pc[c] = "readAll"
          /\ \/ Goto(c, "insert") /\ UNCHANGED <<registry, draft, lock, req, mine>>
             \/ Raise(c)
      BY <2>7 DEF ReadAll
    <3> QED
      BY <3>1, <2>l, GotoKeepsTransactions, RaiseKeepsTransactions
  <2>8. CASE Insert(c)
    <3>1. PICK new \in SUBSET {req[c]} :
              IF c \in Transactional
              THEN mine' = [mine EXCEPT ![c] = @ \cup new] /\ UNCHANGED events
              ELSE events' = events \cup new /\ UNCHANGED mine
      BY <2>8 DEF Insert
    <3>2. /\ pc[c] = "insert" /\ pc'[c] = "reread"
          /\ \A d \in Recorders \ {c} : pc'[d] = pc[d]
          /\ UNCHANGED <<registry, draft, lock, req>>
      BY <2>8 DEF Insert, Goto, TypeOK
    <3>3. Registered' /\ DraftIsAlone'
      BY <3>2, RecordersAssumption DEF TransactionInv, Registered, DraftIsAlone, AfterRegister
    <3>4. LockIsHeld'
      BY <3>2, <2>l, RecordersAssumption DEF TransactionInv, LockIsHeld
    <3>5. MineIsOwn'
      <4> SUFFICES ASSUME NEW d \in Recorders
                   PROVE  /\ mine'[d] \subseteq {req'[d]}
                          /\ mine'[d] # {} => d \in Transactional /\ pc'[d] \in {"reread", "commit"}
        BY DEF MineIsOwn
      <4>1. mine[d] \subseteq {req[d]}
        BY DEF TransactionInv, MineIsOwn
      <4>2. mine[d] # {} => d \in Transactional /\ pc[d] \in {"reread", "commit"}
        BY DEF TransactionInv, MineIsOwn
      <4>3. CASE d = c
        BY <4>1, <4>2, <4>3, <3>1, <3>2 DEF TypeOK
      <4>4. CASE d # c
        BY <4>1, <4>2, <4>4, <3>1, <3>2 DEF TypeOK
      <4> QED
        BY <4>3, <4>4
    <3> QED
      BY <3>3, <3>4, <3>5 DEF TransactionInv
  <2>9. CASE Reread(c)
    <3>1. pc[c] = "reread" /\ (Return(c) \/ Raise(c))
      BY <2>9 DEF Reread
    <3> QED
      BY <3>1, <2>l, ReturnKeepsTransactions, RaiseKeepsTransactions
  <2>10. CASE Commit(c)
    BY <2>10, ReleaseKeepsTransactions DEF Commit
  <2>11. CASE Crash(c)
    BY <2>11, ReleaseKeepsTransactions DEF Crash
  <2> QED
    BY <2>1, <2>2, <2>3, <2>4, <2>5, <2>6, <2>7, <2>8, <2>9, <2>10, <2>11 DEF Step
<1> QED
  BY <1>u, <1>n

\* A transaction past the schema script excludes all others from the ledger,
\* and an uncommitted registration waits alone.
THEOREM TransactionSafety == Spec => []TransactionInv
<1>1. Init => TransactionInv
  BY RecordersAssumption
     DEF Init, TransactionInv, Registered, DraftIsAlone, LockIsHeld, MineIsOwn,
         AfterRegister, AfterSchema
<1>2. TypeOK /\ TransactionInv /\ [Next]_vars => TransactionInv'
  BY TransactionStep
<1> QED
  BY <1>1, <1>2, LedgerTyping, PTL DEF Spec

-----------------------------------------------------------------------------
(* The stored events *)

\* Without a registered build there is no event.
LEMMA NoEventsUnregistered ==
    ASSUME TypeOK, ContentInv, registry = None PROVE events = {}
<1>1. \A r \in events : r.build \in Builds /\ r.build = None
  BY DEF TypeOK, ContentInv, EventsMatchRegistry, Event
<1> QED
  BY <1>1, BuildsAssumption

\* A step that stores nothing keeps the contents, if the recorder that took it
\* reaches the insert only with checked events.
LEMMA QuietStep ==
    ASSUME ContentInv, NEW c \in Recorders,
           UNCHANGED events, acked' \subseteq events, EventsMatchRegistry',
           \A d \in Recorders \ {c} :
               pc'[d] = pc[d] /\ req'[d] = req[d] /\ mine'[d] = mine[d],
           mine'[c] \subseteq mine[c],
           mine'[c] # {} \/ pc'[c] \in {"insert", "commit"} => req'[c] = req[c],
           pc'[c] = "insert" => HasPredecessor(c, events) /\ PromotionReady(c, events),
           pc'[c] = "commit" => req[c] \in events \cup mine'[c]
    PROVE  ContentInv'
<1>1. IsChecked'
  <2> SUFFICES ASSUME NEW d \in Recorders, pc'[d] = "insert" \/ mine'[d] # {}
               PROVE  HasPredecessor(d, events)' /\ PromotionReady(d, events)'
    BY DEF IsChecked
  <2>1. HasPredecessor(d, events) /\ PromotionReady(d, events) /\ req'[d] = req[d]
    BY DEF ContentInv, IsChecked
  <2> QED
    BY <2>1 DEF HasPredecessor, PromotionReady, Stages
<1>2. MineIsNew'
  BY DEF ContentInv, MineIsNew
<1>3. CommitsItsEvent'
  BY DEF ContentInv, CommitsItsEvent, Visible
<1>4. ChainClosed' /\ PromoteHasFullChain' /\ AckedIsStored'
  BY DEF ContentInv, ChainClosed, PromoteHasFullChain, AckedIsStored, Stages
<1> QED
  BY <1>1, <1>2, <1>3, <1>4 DEF ContentInv

\* The end of a call that stores nothing.
LEMMA ReleaseKeepsContents ==
    ASSUME TypeOK, TransactionInv, ContentInv, NEW c \in Recorders, Release(c),
           registry' = registry \/ (draft = c /\ registry' = req[c].build),
           UNCHANGED events, acked' \subseteq events
    PROVE  ContentInv'
<1>1. EventsMatchRegistry'
  <2>1. CASE registry' = registry
    BY <2>1 DEF ContentInv, EventsMatchRegistry
  <2>2. CASE draft = c
    <3>1. registry = None
      BY <2>2, RecordersAssumption DEF TransactionInv, DraftIsAlone
    <3> QED
      BY <3>1, NoEventsUnregistered DEF EventsMatchRegistry
  <2> QED
    BY <2>1, <2>2
<1> QED
  BY <1>1, ReleaseEffect, QuietStep

\* A call that raises stores nothing.
LEMMA RaiseKeepsContents ==
    ASSUME TypeOK, TransactionInv, ContentInv, NEW c \in Recorders, Raise(c)
    PROVE  ContentInv'
<1>1. acked' \subseteq events
  BY DEF Raise, ContentInv, AckedIsStored
<1> QED
  BY <1>1, ReleaseKeepsContents DEF Raise

\* Only an event that is visible to the recorder is returned.
LEMMA ReturnKeepsContents ==
    ASSUME TypeOK, TransactionInv, ContentInv, NEW c \in Recorders,
           req[c] \in Visible(c), Return(c)
    PROVE  ContentInv'
<1>1. CASE c \in Transactional
  <2>1. /\ pc'[c] = "commit" /\ \A d \in Recorders \ {c} : pc'[d] = pc[d]
        /\ UNCHANGED <<registry, draft, events, lock, req, mine, acked, crashes>>
    BY <1>1 DEF Return, Goto, TypeOK
  <2>2. EventsMatchRegistry' /\ acked' \subseteq events
    BY <2>1 DEF ContentInv, EventsMatchRegistry, AckedIsStored
  <2> QED
    BY <2>1, <2>2, QuietStep DEF Visible
<1>2. CASE c \notin Transactional
  <2>1. Release(c) /\ acked' = acked \cup {req[c]} /\ UNCHANGED <<registry, events, crashes>>
    BY <1>2 DEF Return
  <2>2. mine[c] = {}
    BY <1>2 DEF TransactionInv, MineIsOwn
  <2>3. acked' \subseteq events
    BY <2>1, <2>2 DEF Visible, ContentInv, AckedIsStored
  <2> QED
    BY <2>1, <2>3, ReleaseKeepsContents
<1> QED
  BY <1>1, <1>2

\* Only one transaction at a time has rows that are not committed.
LEMMA OthersHaveNone ==
    ASSUME TypeOK, TransactionInv, NEW c \in Recorders, TableFree(c),
           NEW d \in Recorders \ {c}
    PROVE  mine[d] = {}
<1> SUFFICES ASSUME mine[d] # {} PROVE FALSE
  OBVIOUS
<1>1. d \in Transactional /\ pc[d] \in AfterSchema
  BY DEF TransactionInv, MineIsOwn, AfterSchema, AfterRegister
<1>2. lock = d
  BY <1>1 DEF TransactionInv, LockIsHeld
<1> QED
  BY <1>2, RecordersAssumption DEF TableFree

\* One more checked event with a new id.
LEMMA NewEvent ==
    ASSUME TypeOK, ContentInv, NEW c \in Recorders, req[c] \in Event,
           events' = events \cup {req[c]},
           HasPredecessor(c, events), PromotionReady(c, events),
           \A e \in events : e.id # req[c].id
    PROVE  /\ ChainClosed' /\ PromoteHasFullChain'
           /\ \A r, e \in events' : r.id = e.id => r = e
<1>1. Stages(events') = Stages(events) \cup {req[c].stage}
  BY DEF Stages
<1>2. ChainClosed'
  BY <1>1 DEF ContentInv, ChainClosed, HasPredecessor
<1>3. PromoteHasFullChain'
  <2>1. CASE \E r \in events : r.decision = "PROMOTE"
    BY <1>1, <2>1 DEF ContentInv, PromoteHasFullChain
  <2>2. CASE req[c].decision = "PROMOTE"
    BY <1>1, <2>2 DEF PromotionReady, PromoteHasFullChain
  <2> QED
    BY <2>1, <2>2 DEF PromoteHasFullChain
<1>4. \A r, e \in events' : r.id = e.id => r = e
  BY DEF ContentInv, AckedIsStored
<1> QED
  BY <1>2, <1>3, <1>4

\* Checks that were passed stay passed when events are added.
LEMMA ChecksAreStable ==
    ASSUME NEW d \in Recorders, events \subseteq events', req'[d] = req[d],
           HasPredecessor(d, events), PromotionReady(d, events)
    PROVE  HasPredecessor(d, events)' /\ PromotionReady(d, events)'
BY DEF HasPredecessor, PromotionReady, Stages

\* An insert keeps the contents right: its checks hold until then.
LEMMA InsertStep ==
    ASSUME TypeOK, TransactionInv, ContentInv, NEW c \in Recorders, Insert(c)
    PROVE  ContentInv'
<1>1. /\ pc[c] = "insert" /\ pc'[c] = "reread" /\ TableFree(c)
      /\ \A d \in Recorders \ {c} : pc'[d] = pc[d]
      /\ UNCHANGED <<registry, draft, lock, req, acked, crashes>>
  BY DEF Insert, Goto, TypeOK
<1>2. mine[c] = {} /\ req[c] \in Event
  BY <1>1 DEF TransactionInv, MineIsOwn, TypeOK
<1>3. HasPredecessor(c, events) /\ PromotionReady(c, events)
  BY <1>1 DEF ContentInv, IsChecked
<1>4. PICK new \in SUBSET {req[c]} :
          /\ new # {} => ~ Conflicts(c, Visible(c))
          /\ IF c \in Transactional
             THEN mine' = [mine EXCEPT ![c] = @ \cup new] /\ UNCHANGED events
             ELSE events' = events \cup new /\ UNCHANGED mine
  BY DEF Insert
<1>5. new # {} => \A e \in events : e.id # req[c].id
  BY <1>2, <1>4 DEF Conflicts, SameId, Visible
<1>6. \A d \in Recorders \ {c} : mine[d] = {} /\ mine'[d] = {}
  BY <1>1, <1>4, OthersHaveNone DEF TypeOK
<1>7. events \subseteq events'
  BY <1>4
<1>8. IsChecked'
  <2> SUFFICES ASSUME NEW d \in Recorders, pc'[d] = "insert" \/ mine'[d] # {}
               PROVE  HasPredecessor(d, events)' /\ PromotionReady(d, events)'
    BY DEF IsChecked
  <2>1. HasPredecessor(d, events) /\ PromotionReady(d, events)
    BY <1>1, <1>3, <1>6 DEF ContentInv, IsChecked
  <2> QED
    BY <1>1, <1>7, <2>1, ChecksAreStable
<1>9. CommitsItsEvent'
  <2> SUFFICES ASSUME NEW d \in Recorders, pc'[d] = "commit"
               PROVE  req'[d] \in Visible(d)'
    BY DEF CommitsItsEvent
  <2>1. d # c /\ pc[d] = "commit"
    BY <1>1
  <2>2. req[d] \in events
    BY <2>1, <1>6 DEF ContentInv, CommitsItsEvent, Visible
  <2> QED
    BY <1>1, <1>7, <2>2 DEF Visible
<1>10. CASE c \in Transactional
  <2>1. UNCHANGED events /\ mine'[c] = new
    BY <1>2, <1>4, <1>10 DEF TypeOK
  <2>2. MineIsNew'
    BY <1>5, <1>6, <2>1 DEF MineIsNew
  <2>3. ChainClosed' /\ PromoteHasFullChain' /\ AckedIsStored' /\ EventsMatchRegistry'
    BY <1>1, <2>1
       DEF ContentInv, ChainClosed, PromoteHasFullChain, AckedIsStored,
           EventsMatchRegistry, Stages
  <2> QED
    BY <1>8, <1>9, <2>2, <2>3 DEF ContentInv
<1>11. CASE c \notin Transactional
  <2>1. events' = events \cup new /\ mine' = mine
    BY <1>4, <1>11
  <2>2. MineIsNew'
    BY <1>2, <1>6, <2>1 DEF MineIsNew
  <2>3. CASE new = {}
    <3>1. ChainClosed' /\ PromoteHasFullChain' /\ AckedIsStored' /\ EventsMatchRegistry'
      BY <1>1, <2>1, <2>3
         DEF ContentInv, ChainClosed, PromoteHasFullChain, AckedIsStored,
             EventsMatchRegistry, Stages
    <3> QED
      BY <1>8, <1>9, <2>2, <3>1 DEF ContentInv
  <2>4. CASE new = {req[c]}
    <3>1. /\ ChainClosed' /\ PromoteHasFullChain'
          /\ \A r, e \in events' : r.id = e.id => r = e
      BY <1>2, <1>3, <1>5, <2>1, <2>4, NewEvent
    <3>2. AckedIsStored'
      BY <1>1, <1>7, <3>1 DEF ContentInv, AckedIsStored
    <3>3. registry = req[c].build
      BY <1>1, <1>11, RecordersAssumption
         DEF TransactionInv, Registered, DraftIsAlone, AfterRegister
    <3>4. EventsMatchRegistry'
      BY <1>1, <2>1, <2>4, <3>3 DEF ContentInv, EventsMatchRegistry
    <3> QED
      BY <1>8, <1>9, <2>2, <3>1, <3>2, <3>4 DEF ContentInv
  <2> QED
    BY <2>3, <2>4
<1> QED
  BY <1>10, <1>11

\* A commit acknowledges what is stored.
LEMMA CommitStep ==
    ASSUME TypeOK, TransactionInv, ContentInv, NEW c \in Recorders, Commit(c)
    PROVE  ContentInv'
<1>1. /\ pc[c] = "commit" /\ Release(c)
      /\ registry' = IF draft = c THEN req[c].build ELSE registry
      /\ events' = events \cup mine[c] /\ acked' = acked \cup {req[c]}
  BY DEF Commit
<1>2. req[c] \in events \cup mine[c] /\ req[c] \in Event
  BY <1>1 DEF ContentInv, CommitsItsEvent, Visible, TypeOK
<1>3. CASE mine[c] = {}
  <2>1. UNCHANGED events /\ acked' \subseteq events
    BY <1>1, <1>2, <1>3 DEF ContentInv, AckedIsStored
  <2> QED
    BY <1>1, <2>1, ReleaseKeepsContents
<1>4. CASE mine[c] # {}
  <2>1. mine[c] = {req[c]} /\ c \in Transactional
    BY <1>4 DEF TransactionInv, MineIsOwn
  <2>2. TableFree(c)
    BY <1>1, <2>1 DEF TransactionInv, LockIsHeld, TableFree, AfterSchema, AfterRegister
  <2>3. /\ pc'[c] = "idle" /\ mine'[c] = {}
        /\ \A d \in Recorders \ {c} :
              pc'[d] = pc[d] /\ req'[d] = req[d] /\ mine'[d] = {} /\ mine[d] = {}
    BY <1>1, <2>2, OthersHaveNone, ReleaseEffect
  <2>4. HasPredecessor(c, events) /\ PromotionReady(c, events)
        /\ \A e \in events : e.id # req[c].id
    BY <1>4, <2>1 DEF ContentInv, IsChecked, MineIsNew
  <2>5. /\ ChainClosed' /\ PromoteHasFullChain'
        /\ \A r, e \in events' : r.id = e.id => r = e
    BY <1>1, <1>2, <2>1, <2>4, NewEvent
  <2>6. IsChecked'
    <3> SUFFICES ASSUME NEW d \in Recorders, pc'[d] = "insert" \/ mine'[d] # {}
                 PROVE  HasPredecessor(d, events)' /\ PromotionReady(d, events)'
      BY DEF IsChecked
    <3>1. d # c /\ pc[d] = "insert"
      BY <2>3
    <3>2. HasPredecessor(d, events) /\ PromotionReady(d, events)
      BY <3>1 DEF ContentInv, IsChecked
    <3> QED
      BY <1>1, <2>3, <3>1, <3>2, ChecksAreStable
  <2>7. MineIsNew'
    BY <2>3 DEF MineIsNew
  <2>8. CommitsItsEvent'
    <3> SUFFICES ASSUME NEW d \in Recorders, pc'[d] = "commit"
                 PROVE  req'[d] \in Visible(d)'
      BY DEF CommitsItsEvent
    <3>1. d # c /\ pc[d] = "commit"
      BY <2>3
    <3>2. req[d] \in events
      BY <2>3, <3>1 DEF ContentInv, CommitsItsEvent, Visible
    <3> QED
      BY <1>1, <2>3, <3>1, <3>2 DEF Visible
  <2>9. AckedIsStored'
    BY <1>1, <2>1, <2>5 DEF ContentInv, AckedIsStored
  <2>10. EventsMatchRegistry'
    <3>1. CASE draft = c
      <4>1. registry = None
        BY <3>1, RecordersAssumption DEF TransactionInv, DraftIsAlone
      <4>2. events = {}
        BY <4>1, NoEventsUnregistered
      <4> QED
        BY <1>1, <2>1, <3>1, <4>2 DEF EventsMatchRegistry
    <3>2. CASE draft # c
      <4>1. registry = req[c].build
        BY <1>1, <3>2 DEF TransactionInv, Registered, AfterRegister
      <4> QED
        BY <1>1, <2>1, <3>2, <4>1 DEF ContentInv, EventsMatchRegistry
    <3> QED
      BY <3>1, <3>2
  <2> QED
    BY <2>5, <2>6, <2>7, <2>8, <2>9, <2>10 DEF ContentInv
<1> QED
  BY <1>3, <1>4

\* Every step keeps the contents of the ledger right.
LEMMA ContentStep ==
    ASSUME TypeOK, TransactionInv, ContentInv, [Next]_vars PROVE ContentInv'
<1>u. CASE UNCHANGED vars
  BY <1>u
     DEF vars, ContentInv, IsChecked, MineIsNew, CommitsItsEvent, ChainClosed,
         PromoteHasFullChain, AckedIsStored, EventsMatchRegistry, HasPredecessor,
         PromotionReady, Visible, Stages
<1>n. CASE Next
  <2> PICK c \in Recorders : Step(c) \/ Crash(c)
    BY <1>n DEF Next
  <2>a. acked \subseteq events
    BY DEF ContentInv, AckedIsStored
  <2>0. ASSUME UNCHANGED <<registry, events, mine, acked>>,
               \A d \in Recorders \ {c} : pc'[d] = pc[d] /\ req'[d] = req[d],
               mine[c] = {} \/ req'[c] = req[c],
               pc'[c] \notin {"insert", "commit"}
        PROVE  ContentInv'
    <3>1. EventsMatchRegistry'
      BY <2>0 DEF ContentInv, EventsMatchRegistry
    <3> QED
      BY <2>0, <2>a, <3>1, QuietStep
  <2>1. CASE Call(c)
    <3>1. PICK r \in Event : req' = [req EXCEPT ![c] = r]
      BY <2>1 DEF Call
    <3>2. mine[c] = {}
      BY <2>1 DEF Call, TransactionInv, MineIsOwn
    <3> QED
      BY <2>0, <2>1, <3>1, <3>2 DEF Call, Goto, TypeOK
  <2>2. CASE Register(c)
    <3>1. /\ pc'[c] = "schema" /\ \A d \in Recorders \ {c} : pc'[d] = pc[d]
          /\ UNCHANGED <<events, req, mine, acked>>
          /\ registry' = registry \/ registry = None
      BY <2>2 DEF Register, Goto, TypeOK
    <3>2. EventsMatchRegistry'
      BY <3>1, NoEventsUnregistered DEF ContentInv, EventsMatchRegistry
    <3> QED
      BY <2>a, <3>1, <3>2, QuietStep
  <2>3. CASE OnlyRegister(c)
    BY <2>3, <2>a, ReleaseKeepsContents DEF OnlyRegister
  <2>4. CASE RegistryConflict(c)
    BY <2>4, RaiseKeepsContents DEF RegistryConflict
  <2>5. CASE Schema(c)
    BY <2>0, <2>5 DEF Schema, Goto, TypeOK
  <2>6. CASE ReadSame(c)
    <3>1. CASE Goto(c, "readAll") /\ UNCHANGED <<registry, draft, events, lock, req, mine, acked, crashes>>
      BY <2>0, <3>1 DEF Goto, TypeOK
    <3>2. CASE SameId(c, Visible(c)) = {req[c]} /\ Return(c)
      <4>1. req[c] \in Visible(c)
        BY <3>2 DEF SameId
      <4> QED
        BY <3>2, <4>1, ReturnKeepsContents
    <3> QED
      BY <2>6, <3>1, <3>2, RaiseKeepsContents DEF ReadSame
  <2>7. CASE ReadAll(c)
    <3>1. CASE /\ Admissible(c, Visible(c)) /\ Goto(c, "insert")
               /\ UNCHANGED <<registry, draft, events, lock, req, mine, acked, crashes>>
      <4>1. mine[c] = {}
        BY <2>7 DEF ReadAll, TransactionInv, MineIsOwn
      <4>2. HasPredecessor(c, events) /\ PromotionReady(c, events)
        BY <3>1, <4>1 DEF Admissible, Visible
      <4>3. /\ pc'[c] = "insert" /\ \A d \in Recorders \ {c} : pc'[d] = pc[d]
            /\ EventsMatchRegistry'
        BY <3>1 DEF Goto, TypeOK, ContentInv, EventsMatchRegistry
      <4> QED
        BY <2>a, <3>1, <4>2, <4>3, QuietStep
    <3> QED
      BY <2>7, <3>1, RaiseKeepsContents DEF ReadAll
  <2>8. CASE Insert(c)
    BY <2>8, InsertStep
  <2>9. CASE Reread(c)
    <3>1. CASE SameId(c, Visible(c)) = {req[c]} /\ Return(c)
      <4>1. req[c] \in Visible(c)
        BY <3>1 DEF SameId
      <4> QED
        BY <3>1, <4>1, ReturnKeepsContents
    <3> QED
      BY <2>9, <3>1, RaiseKeepsContents DEF Reread
  <2>10. CASE Commit(c)
    BY <2>10, CommitStep
  <2>11. CASE Crash(c)
    BY <2>11, <2>a, ReleaseKeepsContents DEF Crash
  <2> QED
    BY <2>1, <2>2, <2>3, <2>4, <2>5, <2>6, <2>7, <2>8, <2>9, <2>10, <2>11 DEF Step
<1> QED
  BY <1>u, <1>n

\* The contents of the ledger are right whatever mixture of recorders writes.
THEOREM ContentSafety == Spec => []ContentInv
<1>1. Init => ContentInv
  BY DEF Init, ContentInv, IsChecked, MineIsNew, CommitsItsEvent, ChainClosed,
         PromoteHasFullChain, AckedIsStored, EventsMatchRegistry, Stages
<1>2. TypeOK /\ TransactionInv /\ ContentInv /\ [Next]_vars => ContentInv'
  BY ContentStep
<1> QED
  BY <1>1, <1>2, LedgerTyping, TransactionSafety, PTL DEF Spec

\* No lifecycle gate is skipped, whatever the recorders race for, and a PROMOTE
\* decision has all evidence stages behind it; all events carry the manifest
\* of the registry; and what a recorder returned is what the ledger holds
\* under that id.
THEOREM LedgerIsWholeHolds == Spec => []LedgerIsWhole
<1>1. ContentInv => LedgerIsWhole
  BY DEF ContentInv, LedgerIsWhole, ChainIsWhole
<1> QED
  BY <1>1, ContentSafety, PTL

-----------------------------------------------------------------------------
(* All recorders inside transactions *)

\* The events only change when a transaction commits its checked event, and
\* then no other recorder is between its checks and its commit.
LEMMA OnlyCommitStores ==
    ASSUME Transactional = Recorders, TypeOK, TransactionInv, [Next]_vars,
           events' # events
    PROVE  \E c \in Recorders :
               /\ Commit(c) /\ mine[c] = {req[c]} /\ events' = events \cup {req[c]}
               /\ \A d \in Recorders \ {c} : pc[d] # "insert" /\ mine[d] = {}
<1>1. PICK c \in Recorders : Step(c) \/ Crash(c)
  BY DEF Next, vars
<1>2. ~ Insert(c)
  BY DEF Insert
<1>3. Commit(c)
  BY <1>1, <1>2
     DEF Step, Call, Register, OnlyRegister, RegistryConflict, Schema, ReadSame,
         ReadAll, Reread, Crash, Raise, Return
<1>4. mine[c] = {req[c]} /\ events' = events \cup {req[c]}
  BY <1>3 DEF Commit, TransactionInv, MineIsOwn
<1>5. TableFree(c) /\ lock = c
  BY <1>3 DEF Commit, TransactionInv, LockIsHeld, TableFree, AfterSchema, AfterRegister
<1>6. \A d \in Recorders \ {c} : pc[d] # "insert" /\ mine[d] = {}
  BY <1>5, OthersHaveNone DEF TransactionInv, LockIsHeld, AfterSchema, AfterRegister
<1> QED
  BY <1>3, <1>4, <1>6

\* When events and request stay, so do the checks.
LEMMA SerialChecksStay ==
    ASSUME NEW d \in Recorders, UNCHANGED events, req'[d] = req[d],
           SameIdentity(d, events), Monotonic(d, events)
    PROVE  SameIdentity(d, events)' /\ Monotonic(d, events)'
BY DEF SameIdentity, Monotonic, Stages

\* A recorder comes to the insert or to uncommitted rows from checks on the
\* rows it sees.
LEMMA ReachesInsertChecked ==
    ASSUME Transactional = Recorders, TypeOK, TransactionInv, [Next]_vars,
           NEW d \in Recorders, pc'[d] = "insert" \/ mine'[d] # {}
    PROVE  /\ req'[d] = req[d]
           /\ \/ pc[d] = "insert" \/ mine[d] # {}
              \/ SameIdentity(d, events) /\ Monotonic(d, events)
<1>1. CASE UNCHANGED vars
  BY <1>1 DEF vars
<1>2. CASE Next
  <2>1. PICK c \in Recorders : Step(c) \/ Crash(c)
    BY <1>2 DEF Next
  <2>2. CASE c # d
    <3>1. pc'[d] = pc[d] /\ req'[d] = req[d] /\ mine'[d] = mine[d]
      <4>1. CASE Release(c)
        BY <2>2, <4>1, ReleaseEffect
      <4>2. CASE ~ Release(c)
        BY <2>1, <2>2, <4>2
           DEF Step, Call, Register, OnlyRegister, RegistryConflict, Schema, ReadSame,
               ReadAll, Insert, Reread, Commit, Crash, Raise, Return, Goto, TypeOK
      <4> QED
        BY <4>1, <4>2
    <3> QED
      BY <3>1
  <2>3. CASE c = d
    <3>1. ~ Release(c)
      BY <2>3, ReleaseEffect
    <3>2. CASE Insert(c)
      BY <2>3, <3>2 DEF Insert
    <3>3. CASE ReadAll(c)
      <4>1. mine[c] = {}
        BY <3>3 DEF ReadAll, TransactionInv, MineIsOwn
      <4>2. Admissible(c, events) /\ req' = req
        BY <3>1, <3>3, <4>1 DEF ReadAll, Raise, Visible
      <4> QED
        BY <2>3, <4>2 DEF Admissible
    <3>4. CASE ~ Insert(c) /\ ~ ReadAll(c)
      <4>1. mine' = mine /\ pc'[c] # "insert" /\ (req' = req \/ mine[c] = {})
        BY <2>1, <3>1, <3>4
           DEF Step, Call, Register, OnlyRegister, RegistryConflict, Schema, ReadSame,
               Reread, Commit, Crash, Raise, Return, Goto, TypeOK, TransactionInv, MineIsOwn
      <4> QED
        BY <2>3, <4>1
    <3> QED
      BY <3>2, <3>3, <3>4
  <2> QED
    BY <2>2, <2>3
<1> QED
  BY <1>1, <1>2

\* With transactions only, every step keeps all checks true up to the insert.
LEMMA SerialStep ==
    ASSUME Transactional = Recorders, TypeOK, TransactionInv, SerialInv, [Next]_vars
    PROVE  SerialInv'
<1>1. CASE events' = events
  <2>1. ASSUME NEW d \in Recorders, pc'[d] = "insert" \/ mine'[d] # {}
        PROVE  SameIdentity(d, events)' /\ Monotonic(d, events)'
    <3>1. req'[d] = req[d] /\ SameIdentity(d, events) /\ Monotonic(d, events)
      BY <2>1, ReachesInsertChecked DEF SerialInv
    <3> QED
      BY <1>1, <3>1, SerialChecksStay
  <2>2. OneIdentity'
    BY <1>1 DEF SerialInv, OneIdentity
  <2> QED
    BY <2>1, <2>2 DEF SerialInv
<1>2. CASE events' # events
  <2>1. PICK c \in Recorders :
            /\ Commit(c) /\ mine[c] = {req[c]} /\ events' = events \cup {req[c]}
            /\ \A d \in Recorders \ {c} : pc[d] # "insert" /\ mine[d] = {}
    BY <1>2, OnlyCommitStores
  <2>2. Release(c)
    BY <2>1 DEF Commit
  <2>3. \A d \in Recorders : pc'[d] # "insert" /\ mine'[d] = {}
    BY <2>1, <2>2, ReleaseEffect
  <2>4. SameIdentity(c, events)
    BY <2>1 DEF SerialInv
  <2>5. OneIdentity'
    BY <2>1, <2>4 DEF SerialInv, OneIdentity, SameIdentity
  <2> QED
    BY <2>3, <2>5 DEF SerialInv
<1> QED
  BY <1>1, <1>2

\* If every recorder takes the lock, all checks still hold at the insert.
THEOREM SerialSafety ==
    ASSUME Transactional = Recorders PROVE Spec => []SerialInv
<1>1. Init => SerialInv
  BY DEF Init, SerialInv, OneIdentity
<1>2. TypeOK /\ TransactionInv /\ SerialInv /\ [Next]_vars => SerialInv'
  BY SerialStep
<1> QED
  BY <1>1, <1>2, LedgerTyping, TransactionSafety, PTL DEF Spec

\* With all recorders inside transactions, all events of the entity carry one
\* specification and fingerprint.
THEOREM OneIdentityHolds ==
    ASSUME Transactional = Recorders PROVE Spec => []OneIdentity
<1>1. SerialInv => OneIdentity
  BY DEF SerialInv
<1> QED
  BY <1>1, SerialSafety, PTL

\* With all recorders inside transactions, no event is added behind a later
\* one or after the decision.
THEOREM NoRetroactiveEventHolds ==
    ASSUME Transactional = Recorders PROVE Spec => NoRetroactiveEvent
<1> DEFINE Forward == \A r \in events' \ events :
                         \A e \in events : e.stage <= r.stage /\ e.stage # Decision
<1>1. TypeOK /\ TransactionInv /\ SerialInv /\ [Next]_vars => [Forward]_vars
  <2> SUFFICES ASSUME TypeOK, TransactionInv, SerialInv, [Next]_vars,
                      NEW r \in events' \ events, NEW e \in events
               PROVE  e.stage <= r.stage /\ e.stage # Decision
    OBVIOUS
  <2>1. PICK c \in Recorders :
            /\ Commit(c) /\ mine[c] = {req[c]} /\ events' = events \cup {req[c]}
    BY OnlyCommitStores
  <2>2. r = req[c] /\ Monotonic(c, events)
    BY <2>1 DEF SerialInv
  <2> QED
    BY <2>2 DEF Monotonic, Stages
<1> QED
  BY <1>1, LedgerTyping, TransactionSafety, SerialSafety, PTL DEF Spec, NoRetroactiveEvent

-----------------------------------------------------------------------------
(***************************************************************************)
(* OosVault, for any callers, builds and contents.                         *)
(***************************************************************************)

\* Every reachable state is well typed: only whole rows are stored and shown.
THEOREM VaultTyping == VaultSpec => []VaultTypeOK
<1>1. VaultInit => VaultTypeOK
  BY DeathAssumption DEF VaultInit, VaultTypeOK, Statements
<1>2. VaultTypeOK /\ [VaultNext]_vaultVars => VaultTypeOK'
  <2> SUFFICES ASSUME VaultTypeOK, [VaultNext]_vaultVars PROVE VaultTypeOK'
    OBVIOUS
  <2>u. CASE UNCHANGED vaultVars
    BY <2>u DEF VaultTypeOK, vaultVars
  <2>n. CASE VaultNext
    <3> PICK c \in Callers : CallerStep(c)
      BY <2>n DEF VaultNext
    <3>a. MyRow(c) \in Row /\ MyGrant(c) \in Grant /\ call[c].build \in VaultBuilds
      BY DEF VaultTypeOK, VaultCall, MyRow, MyGrant, Row, Grant
    <3>g. ASSUME NEW l \in Statements, Proceed(c, l)
          PROVE  at' \in [Callers -> Statements]
      BY <3>g DEF VaultTypeOK, Proceed
    <3>d. ASSUME Done(c)
          PROVE  at' \in [Callers -> Statements] /\ seen' \in [Callers -> Row \cup {Unset}]
      BY <3>d DEF VaultTypeOK, Done, Proceed, Statements
    <3>l. /\ "idle" \in Statements /\ "sealRegister" \in Statements /\ "sealInsert" \in Statements
          /\ "sealReread" \in Statements /\ "openRead" \in Statements /\ "openInsert" \in Statements
          /\ "openReread" \in Statements /\ "statusVault" \in Statements
          /\ "statusExposure" \in Statements /\ "readExposure" \in Statements /\ "readVault" \in Statements
      BY DEF Statements
    <3>1. CASE Begin(c)
      <4>1. at' \in [Callers -> Statements]
        BY <3>1, <3>g, <3>l DEF Begin
      <4> QED
        BY <3>1, <4>1 DEF Begin, VaultTypeOK
    <3>2. CASE SealRegister(c)
      <4>1. at' \in [Callers -> Statements]
        BY <3>2, <3>g, <3>l DEF SealRegister
      <4> QED
        BY <3>2, <3>a, <4>1 DEF SealRegister, VaultTypeOK
    <3>3. CASE SealInsert(c)
      <4>1. at' \in [Callers -> Statements]
        BY <3>3, <3>g, <3>l DEF SealInsert
      <4> QED
        BY <3>3, <3>a, <4>1 DEF SealInsert, VaultTypeOK
    <3>4. CASE SealReread(c)
      BY <3>4, <3>a, <3>d DEF SealReread, VaultTypeOK
    <3>5. CASE OpenRead(c)
      <4>1. at' \in [Callers -> Statements]
        BY <3>5, <3>g, <3>l DEF OpenRead
      <4> QED
        BY <3>5, <4>1 DEF OpenRead, VaultTypeOK
    <3>6. CASE OpenInsert(c)
      <4>1. at' \in [Callers -> Statements]
        BY <3>6, <3>g, <3>l DEF OpenInsert
      <4> QED
        BY <3>6, <3>a, <4>1 DEF OpenInsert, VaultTypeOK
    <3>7. CASE OpenReread(c)
      BY <3>7, <3>a, <3>d DEF OpenReread, VaultTypeOK
    <3>8. CASE StatusVault(c)
      <4>1. at' \in [Callers -> Statements]
        BY <3>8, <3>g, <3>l DEF StatusVault
      <4> QED
        BY <3>8, <4>1 DEF StatusVault, VaultTypeOK
    <3>9. CASE StatusExposure(c)
      <4> DEFINE Answer == IF seen[c] = Unset THEN {[sealed |-> FALSE, exposed |-> FALSE]}
                           ELSE IF seen[c].build # call[c].build THEN {}
                           ELSE {[sealed |-> TRUE, exposed |-> exposure # Unset]}
      <4>0. Answer \subseteq Report
        <5>1. /\ [sealed |-> FALSE, exposed |-> FALSE] \in Report
              /\ [sealed |-> TRUE, exposed |-> TRUE] \in Report
              /\ [sealed |-> TRUE, exposed |-> FALSE] \in Report
          BY DEF Report
        <5>2. (exposure # Unset) = TRUE \/ (exposure # Unset) = FALSE
          OBVIOUS
        <5>3. [sealed |-> TRUE, exposed |-> exposure # Unset] \in Report
          BY <5>1, <5>2
        <5>4. CASE seen[c] = Unset
          BY <5>1, <5>4
        <5>5. CASE seen[c] # Unset /\ seen[c].build # call[c].build
          BY <5>5
        <5>6. CASE seen[c] # Unset /\ seen[c].build = call[c].build
          BY <5>3, <5>6
        <5> QED
          BY <5>4, <5>5, <5>6
      <4>1. reports' \subseteq Report
        <5>1. reports' = reports \cup Answer
          BY <3>9 DEF StatusExposure
        <5> HIDE DEF Answer
        <5> QED
          BY <4>0, <5>1 DEF VaultTypeOK
      <4> QED
        BY <3>9, <3>d, <4>1 DEF StatusExposure, VaultTypeOK
    <3>10. CASE ReadExposure(c)
      <4>1. at' \in [Callers -> Statements]
        BY <3>10, <3>g, <3>l DEF ReadExposure
      <4> QED
        BY <3>10, <4>1 DEF ReadExposure, VaultTypeOK
    <3>11. CASE ReadVault(c)
      <4>1. shown' \subseteq [to : VaultBuilds, row : Row]
        BY <3>11, <3>a DEF ReadVault, VaultTypeOK
      <4> QED
        BY <3>11, <3>d, <4>1 DEF ReadVault, VaultTypeOK
    <3>12. CASE CallerDies(c)
      <4>1. deaths' \in 0..MaxDeaths
        BY <3>12, DeathAssumption DEF CallerDies, VaultTypeOK
      <4> QED
        BY <3>12, <3>d, <4>1 DEF CallerDies, VaultTypeOK
    <3> QED
      BY <3>1, <3>2, <3>3, <3>4, <3>5, <3>6, <3>7, <3>8, <3>9, <3>10, <3>11, <3>12 DEF CallerStep
  <2> QED
    BY <2>u, <2>n
<1> QED
  BY <1>1, <1>2, PTL DEF VaultSpec

-----------------------------------------------------------------------------
(* The rows never change *)

\* No step changes a row that is stored: there is neither an update nor a
\* delete, and an insert that meets a row does nothing.
LEMMA RowsStay ==
    ASSUME [VaultNext]_vaultVars
    PROVE  /\ vault # Unset => vault' = vault
           /\ exposure # Unset => exposure' = exposure
           /\ trial # Unset => trial' = trial
BY DEF VaultNext, vaultVars, CallerStep, Begin, SealRegister, SealInsert, SealReread, OpenRead,
       OpenInsert, OpenReread, StatusVault, StatusExposure, ReadExposure,
       ReadVault, CallerDies

\* Every step of the vault keeps what the first statement of a call found.
LEMMA VaultStep ==
    ASSUME VaultTypeOK, VaultInv, [VaultNext]_vaultVars PROVE VaultInv'
<1>u. CASE UNCHANGED vaultVars
  BY <1>u DEF vaultVars, VaultInv, FirstReadsHold, AcksAgree, OneTrial, StatusIsNotAhead
<1>n. CASE VaultNext
  <2> PICK c \in Callers : CallerStep(c)
    BY <1>n DEF VaultNext
  <2>s. /\ vault # Unset => vault' = vault
        /\ exposure # Unset => exposure' = exposure
        /\ trial # Unset => trial' = trial
    BY RowsStay
  <2>o. \A d \in Callers \ {c} : at'[d] = at[d] /\ call'[d] = call[d] /\ seen'[d] = seen[d]
    BY DEF CallerStep, Begin, SealRegister, SealInsert, SealReread, OpenRead, OpenInsert,
           OpenReread, StatusVault, StatusExposure, ReadExposure, ReadVault, CallerDies,
           Done, Proceed, VaultTypeOK
  <2>b. \A d \in Callers : call[d].build \in VaultBuilds
    BY DEF VaultTypeOK, VaultCall
  <2>1. FirstReadsHold'
    <3> SUFFICES ASSUME NEW d \in Callers
                 PROVE  /\ at'[d] = "sealInsert" => trial' = call'[d].build
                        /\ at'[d] = "openInsert" =>
                              vault' # Unset /\ vault'.build = call'[d].build
                        /\ at'[d] = "readVault" => exposure' # Unset
                        /\ seen'[d] # Unset => seen'[d] = vault'
      BY DEF FirstReadsHold
    <3>1. /\ at[d] = "sealInsert" => trial = call[d].build /\ trial # Unset
          /\ at[d] = "openInsert" => vault # Unset /\ vault.build = call[d].build
          /\ at[d] = "readVault" => exposure # Unset
          /\ seen[d] # Unset => seen[d] = vault /\ vault # Unset
      BY <2>b, NoneAssumption DEF VaultInv, FirstReadsHold
    <3>2. CASE d # c
      BY <2>o, <2>s, <3>1, <3>2
    <3>3. CASE d = c
      <4>1. at'[c] = "sealInsert" => trial' = call'[c].build
        BY <2>s DEF CallerStep, Begin, SealRegister, SealInsert, SealReread, OpenRead, OpenInsert,
               OpenReread, StatusVault, StatusExposure, ReadExposure, ReadVault, CallerDies,
               Done, Proceed, VaultTypeOK
      <4>2. at'[c] = "openInsert" => vault' # Unset /\ vault'.build = call'[c].build
        BY <2>s DEF CallerStep, Begin, SealRegister, SealInsert, SealReread, OpenRead, OpenInsert,
               OpenReread, StatusVault, StatusExposure, ReadExposure, ReadVault, CallerDies,
               Done, Proceed, VaultTypeOK
      <4>3. at'[c] = "readVault" => exposure' # Unset
        BY <2>s DEF CallerStep, Begin, SealRegister, SealInsert, SealReread, OpenRead, OpenInsert,
               OpenReread, StatusVault, StatusExposure, ReadExposure, ReadVault, CallerDies,
               Done, Proceed, VaultTypeOK
      <4>4. seen'[c] # Unset => seen'[c] = vault'
        <5>1. \/ seen'[c] = Unset \/ seen'[c] = seen[c]
              \/ seen'[c] = vault /\ vault' = vault
          BY DEF CallerStep, Begin, SealRegister, SealInsert, SealReread, OpenRead, OpenInsert,
                 OpenReread, StatusVault, StatusExposure, ReadExposure, ReadVault, CallerDies,
                 Done, Proceed, VaultTypeOK
        <5> QED
          BY <5>1, <2>s, <3>1, <3>3
      <4> QED
        BY <3>3, <4>1, <4>2, <4>3, <4>4
    <3> QED
      BY <3>2, <3>3
  <2>2. AcksAgree'
    <3>1. \A r \in sealAcks' : r \in sealAcks \/ (r = vault /\ vault' = vault /\ r = MyRow(c))
      BY DEF CallerStep, Begin, SealRegister, SealInsert, SealReread, OpenRead, OpenInsert,
             OpenReread, StatusVault, StatusExposure, ReadExposure, ReadVault, CallerDies
    <3>2. \A g \in openAcks' : g \in openAcks \/ (g = exposure /\ exposure' = exposure)
      BY DEF CallerStep, Begin, SealRegister, SealInsert, SealReread, OpenRead, OpenInsert,
             OpenReread, StatusVault, StatusExposure, ReadExposure, ReadVault, CallerDies
    <3>3. ASSUME NEW r \in sealAcks PROVE vault' = r
      <4>1. vault = r /\ r # Unset
        BY NoneAssumption DEF VaultInv, AcksAgree, VaultTypeOK
      <4> QED
        BY <2>s, <4>1
    <3>4. ASSUME NEW g \in openAcks PROVE exposure' = g
      <4>1. exposure = g /\ g # Unset
        BY NoneAssumption DEF VaultInv, AcksAgree, VaultTypeOK
      <4> QED
        BY <2>s, <4>1
    <3> QED
      BY <3>1, <3>2, <3>3, <3>4 DEF AcksAgree
  <2>3. OneTrial'
    <3>1. vault' # Unset => trial' = vault'.build
      <4>1. CASE vault # Unset
        <5>1. vault.build \in VaultBuilds
          BY <4>1 DEF VaultTypeOK, Row
        <5> QED
          BY <2>s, <4>1, <5>1, NoneAssumption DEF VaultInv, OneTrial
      <4>2. CASE vault = Unset /\ vault' # Unset
        <5>1. SealInsert(c)
          BY <4>2 DEF CallerStep, Begin, SealRegister, SealReread, OpenRead, OpenInsert,
             OpenReread, StatusVault, StatusExposure, ReadExposure, ReadVault, CallerDies
        <5>2. trial' = trial /\ vault' = MyRow(c) /\ trial = call[c].build
          BY <4>2, <5>1 DEF SealInsert, VaultInv, FirstReadsHold
        <5> QED
          BY <5>2 DEF MyRow
      <4> QED
        BY <4>1, <4>2
    <3>2. exposure' # Unset => vault' # Unset /\ exposure'.build = vault'.build
      <4>1. CASE exposure # Unset
        BY <2>s, <4>1 DEF VaultInv, OneTrial
      <4>2. CASE exposure = Unset /\ exposure' # Unset
        <5>1. OpenInsert(c)
          BY <4>2 DEF CallerStep, Begin, SealRegister, SealInsert, SealReread, OpenRead,
             OpenReread, StatusVault, StatusExposure, ReadExposure, ReadVault, CallerDies
        <5>2. /\ vault' = vault /\ exposure' = MyGrant(c)
              /\ vault # Unset /\ vault.build = call[c].build
          BY <4>2, <5>1 DEF OpenInsert, VaultInv, FirstReadsHold
        <5> QED
          BY <5>2 DEF MyGrant
      <4> QED
        BY <4>1, <4>2
    <3>3. \A s \in shown' : s.to = s.row.build
      <4>1. CASE shown' = shown
        BY <4>1 DEF VaultInv, OneTrial
      <4>2. CASE shown' # shown
        <5>1. ReadVault(c)
          BY <4>2 DEF CallerStep, Begin, SealRegister, SealInsert, SealReread, OpenRead,
             OpenInsert, OpenReread, StatusVault, StatusExposure, ReadExposure, CallerDies
        <5> QED
          BY <5>1 DEF ReadVault, VaultInv, OneTrial
      <4> QED
        BY <4>1, <4>2
    <3> QED
      BY <3>1, <3>2, <3>3 DEF OneTrial
  <2>4. StatusIsNotAhead'
    <3>1. \A r \in reports' :
              \/ r \in reports
              \/ r.exposed = FALSE /\ r.sealed = FALSE
              \/ r.sealed = TRUE /\ seen[c] # Unset /\ r.exposed = (exposure # Unset)
                 /\ vault' = vault /\ exposure' = exposure
      <4>1. CASE reports' = reports
        BY <4>1
      <4>2. CASE reports' # reports
        <5>1. StatusExposure(c)
          BY <4>2 DEF CallerStep, Begin, SealRegister, SealInsert, SealReread, OpenRead,
             OpenInsert, OpenReread, StatusVault, ReadExposure, ReadVault, CallerDies
        <5> QED
          BY <5>1 DEF StatusExposure
      <4> QED
        BY <4>1, <4>2
    <3>2. seen[c] # Unset => vault # Unset
      BY DEF VaultInv, FirstReadsHold
    <3> QED
      BY <2>s, <3>1, <3>2 DEF VaultInv, StatusIsNotAhead
  <2> QED
    BY <2>1, <2>2, <2>3, <2>4 DEF VaultInv
<1> QED
  BY <1>u, <1>n

\* What the first statement of a call of the vault found holds in its second.
THEOREM VaultSafety == VaultSpec => []VaultInv
<1>1. VaultInit => VaultInv
  BY DEF VaultInit, VaultInv, FirstReadsHold, AcksAgree, OneTrial, StatusIsNotAhead
<1>2. VaultTypeOK /\ VaultInv /\ [VaultNext]_vaultVars => VaultInv'
  BY VaultStep
<1> QED
  BY <1>1, <1>2, VaultTyping, PTL DEF VaultSpec

\* Whoever was told that a seal or an open succeeded was told so about the one
\* row that is stored; the seal, the open and every reader belong to the
\* registered build; the status reports nothing that is not there.
THEOREM OneStoryHolds == VaultSpec => []OneStory
<1>1. VaultInv => OneStory
  BY DEF VaultInv, OneStory
<1> QED
  BY <1>1, VaultSafety, PTL

-----------------------------------------------------------------------------
(* The vault implements the sealed box *)

\* One step of the vault is a step of the box, or leaves the box as it is.
LEMMA BoxStep ==
    ASSUME VaultTypeOK, VaultInv, [VaultNext]_vaultVars PROVE [Box!Next]_(Box!vars)
<1> USE DEF Box!Next, Box!vars, Box!Seal, Box!Open, Box!Show
<1>1. CASE UNCHANGED <<vault, exposure, shown>>
  BY <1>1
<1>2. CASE ~ UNCHANGED <<vault, exposure, shown>>
  <2>1. PICK c \in Callers : SealInsert(c) \/ OpenInsert(c) \/ ReadVault(c)
    BY <1>2 DEF VaultNext, vaultVars, CallerStep, Begin, SealRegister, SealReread, OpenRead, OpenReread,
                StatusVault, StatusExposure, ReadExposure, CallerDies
  <2>2. MyRow(c) \in Row /\ MyGrant(c) \in Grant
    BY DEF VaultTypeOK, VaultCall, MyRow, MyGrant, Row, Grant
  <2>3. CASE SealInsert(c)
    <3>1. vault = Unset /\ vault' = MyRow(c) /\ UNCHANGED <<exposure, shown>>
      BY <1>2, <2>3 DEF SealInsert
    <3> QED
      BY <2>2, <3>1
  <2>4. CASE OpenInsert(c)
    <3>1. /\ vault # Unset /\ exposure = Unset /\ exposure' = MyGrant(c)
          /\ UNCHANGED <<vault, shown>>
      BY <1>2, <2>4 DEF OpenInsert
    <3> QED
      BY <2>2, <3>1
  <2>5. CASE ReadVault(c)
    <3>1. exposure # Unset /\ UNCHANGED <<vault, exposure>>
      BY <2>5 DEF ReadVault, VaultInv, FirstReadsHold
    <3>2. shown' = shown \cup {[to |-> call[c].build, row |-> vault]}
      BY <1>2, <2>5, <3>1 DEF ReadVault
    <3>3. {s.row : s \in shown'} = {s.row : s \in shown} \cup {vault}
      <4> DEFINE r == [to |-> call[c].build, row |-> vault]
      <4>1. r.row = vault
        OBVIOUS
      <4>2. shown' = shown \cup {r}
        BY <3>2
      <4> HIDE DEF r
      <4> QED
        BY <4>1, <4>2
    <3> QED
      BY <3>1, <3>3
  <2> QED
    BY <2>1, <2>3, <2>4, <2>5
<1> QED
  BY <1>1, <1>2

\* The vault implements the box: sealed once, opened once, shown only after.
THEOREM VaultIsBox == VaultSpec => BoxSpec
<1>1. VaultInit => Box!Init
  BY DEF VaultInit, Box!Init
<1>2. VaultTypeOK /\ VaultInv /\ [VaultNext]_vaultVars => [Box!Next]_(Box!vars)
  BY BoxStep
<1> QED
  BY <1>1, <1>2, VaultTyping, VaultSafety, PTL DEF VaultSpec, BoxSpec, Box!Spec

=============================================================================
