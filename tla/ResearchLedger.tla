-------------------------- MODULE ResearchLedger --------------------------
(***************************************************************************)
(* The append-only lifecycle ledger of research_lifecycle_ledger.py for    *)
(* one trial entity, with the trial registry of research_trial_registry.py *)
(* it registers the trial in first.                                        *)
(*                                                                         *)
(* A recorder is one call of record_trial_event or record_feature_event.   *)
(* It makes six SQL statements.  A recorder of Transactional runs inside   *)
(* the transaction of its caller (persist_forward_snapshot of the swing    *)
(* liquidity API): its inserts become visible when that commits, and the   *)
(* DROP TRIGGER of the schema script keeps an ACCESS EXCLUSIVE lock on     *)
(* the ledger table until then.  The others run on a connection in         *)
(* autocommit mode: the lock is gone when the schema script returns.       *)
(*                                                                         *)
(* The evidence stages are numbered in the order of EVENT_ORDER; the stage *)
(* Decision is DECISION_RECORDED.  Payloads are only told apart by what a  *)
(* decision says.                                                          *)
(***************************************************************************)
EXTENDS Naturals, FiniteSets

CONSTANTS
    Recorders,      \* processes that record events
    Transactional,  \* those whose caller opened a transaction
    Builds,         \* fingerprints of the trial manifest in deployed builds
    EventIds,       \* event_id values
    Idents,         \* (entity_spec_version, entity_fingerprint) pairs
    Last,           \* number of evidence stages
    MaxCrashes,     \* bound on the recorders that die
    None            \* no row, no owner of a lock

ASSUME RecordersAssumption == Transactional \subseteq Recorders /\ None \notin Recorders
ASSUME BuildsAssumption == None \notin Builds
ASSUME LastAssumption == Last \in Nat \ {0}
ASSUME CrashAssumption == MaxCrashes \in Nat

VARIABLES
    registry,   \* research_trial_registry: the build that registered, or None
    draft,      \* recorder with an uncommitted row of the registry, or None
    events,     \* committed rows of research_lifecycle_events
    lock,       \* recorder with an exclusive lock on that table, or None
    pc,         \* next statement of a recorder
    req,        \* the event a recorder was called with
    mine,       \* uncommitted rows of a recorder
    acked,      \* events a recorder returned as recorded
    crashes

vars == <<registry, draft, events, lock, pc, req, mine, acked, crashes>>

Evidence == 1..Last
Decision == Last + 1

\* A call, or a row: validate_event_payload admits no other combination.
Event == [id : EventIds, ident : Idents, build : Builds,
          stage : Evidence, decision : {"none"}]
    \cup [id : EventIds, ident : Idents, build : Builds,
          stage : {Decision}, decision : {"PROMOTE", "REJECT"}]

Labels == {"idle", "register", "schema", "readSame", "readAll",
           "insert", "reread", "commit"}

TypeOK ==
    /\ registry \in Builds \cup {None}
    /\ draft \in Recorders \cup {None}
    /\ events \subseteq Event
    /\ lock \in Recorders \cup {None}
    /\ pc \in [Recorders -> Labels]
    /\ req \in [Recorders -> Event \cup {None}]
    /\ \A c \in Recorders : pc[c] # "idle" => req[c] \in Event
    /\ mine \in [Recorders -> SUBSET Event]
    /\ acked \subseteq Event
    /\ crashes \in 0..MaxCrashes

Init ==
    /\ registry = None
    /\ draft = None
    /\ events = {}
    /\ lock = None
    /\ pc = [c \in Recorders |-> "idle"]
    /\ req = [c \in Recorders |-> None]
    /\ mine = [c \in Recorders |-> {}]
    /\ acked = {}
    /\ crashes = 0

Goto(c, label) == pc' = [pc EXCEPT ![c] = label]

\* Rows the statements of c see.
Visible(c) == events \cup mine[c]

\* No other transaction keeps c from the ledger table.
TableFree(c) == lock \in {None, c}

Stages(rows) == {r.stage : r \in rows}

SameId(c, rows) == {r \in rows : r.id = req[c].id}

-----------------------------------------------------------------------------
(* The end of a call *)

\* The transaction of c is rolled back or, in autocommit mode, has nothing to
\* undo.
Release(c) ==
    /\ draft' = IF draft = c THEN None ELSE draft
    /\ lock' = IF lock = c THEN None ELSE lock
    /\ mine' = [mine EXCEPT ![c] = {}]
    /\ req' = [req EXCEPT ![c] = None]
    /\ Goto(c, "idle")

\* A check failed: the call raises, and its caller lets the error end the
\* transaction.
Raise(c) == Release(c) /\ UNCHANGED <<registry, events, acked, crashes>>

\* The call returns the stored event; a transaction still has to commit.
Return(c) ==
    IF c \in Transactional
    THEN /\ Goto(c, "commit")
         /\ UNCHANGED <<registry, draft, events, lock, req, mine, acked, crashes>>
    ELSE /\ acked' = acked \cup {req[c]}
         /\ Release(c)
         /\ UNCHANGED <<registry, events, crashes>>

Commit(c) ==
    /\ pc[c] = "commit"
    /\ registry' = IF draft = c THEN req[c].build ELSE registry
    /\ events' = events \cup mine[c]
    /\ acked' = acked \cup {req[c]}
    /\ Release(c)
    /\ UNCHANGED crashes

-----------------------------------------------------------------------------
(* ensure_trial_registered *)

Call(c) ==
    /\ pc[c] = "idle"
    /\ \E r \in Event : req' = [req EXCEPT ![c] = r]
    /\ Goto(c, "register")
    /\ UNCHANGED <<registry, draft, events, lock, mine, acked, crashes>>

\* Mutant: the stored manifest is not compared with the one of this build.
RegisterUnchecked(c) ==
    /\ pc[c] = "register"
    /\ draft \in {None, c}
    /\ IF registry # None \/ draft = c
       THEN UNCHANGED <<registry, draft>>
       ELSE IF c \in Transactional
       THEN draft' = c /\ UNCHANGED registry
       ELSE registry' = req[c].build /\ UNCHANGED draft
    /\ Goto(c, "schema")
    /\ UNCHANGED <<events, lock, req, mine, acked, crashes>>

\* INSERT ... ON CONFLICT DO NOTHING of the manifest.  It waits for the
\* transaction of another recorder that inserted the same row.
Register(c) ==
    /\ pc[c] = "register"
    /\ draft \in {None, c}
    /\ registry \in {None, req[c].build}
    /\ IF registry # None \/ draft = c
       THEN UNCHANGED <<registry, draft>>
       ELSE IF c \in Transactional
       THEN draft' = c /\ UNCHANGED registry
       ELSE registry' = req[c].build /\ UNCHANGED draft
    /\ Goto(c, "schema")
    /\ UNCHANGED <<events, lock, req, mine, acked, crashes>>

\* A caller that has no event to record commits the registration alone: the
\* capture was there already, or the next milestone has to wait.
OnlyRegister(c) ==
    /\ pc[c] = "schema"
    /\ registry' = IF draft = c THEN req[c].build ELSE registry
    /\ Release(c)
    /\ UNCHANGED <<events, acked, crashes>>

\* Another build registered a different manifest under this revision.
RegistryConflict(c) ==
    /\ pc[c] = "register"
    /\ registry \notin {None, req[c].build}
    /\ Raise(c)

-----------------------------------------------------------------------------
(* _record_event *)

\* Mutant: triggers created IF NOT EXISTS, as the other ledgers do, so that
\* the script takes no lock once they are there.
SchemaNoLock(c) ==
    /\ pc[c] = "schema"
    /\ TableFree(c)
    /\ Goto(c, "readSame")
    /\ UNCHANGED <<registry, draft, events, lock, req, mine, acked, crashes>>

\* LIFECYCLE_LEDGER_SCHEMA_SQL drops and creates the two triggers again.
Schema(c) ==
    /\ pc[c] = "schema"
    /\ TableFree(c)
    /\ lock' = IF c \in Transactional THEN c ELSE lock
    /\ Goto(c, "readSame")
    /\ UNCHANGED <<registry, draft, events, req, mine, acked, crashes>>

\* An exact retry is answered from the stored row, any other use of the
\* event_id raises.
ReadSame(c) ==
    LET same == SameId(c, Visible(c)) IN
    /\ pc[c] = "readSame"
    /\ TableFree(c)
    /\ \/ /\ same = {}
          /\ Goto(c, "readAll")
          /\ UNCHANGED <<registry, draft, events, lock, req, mine, acked, crashes>>
       \/ same = {req[c]} /\ Return(c)
       \/ same \notin {{}, {req[c]}} /\ Raise(c)

SameIdentity(c, rows) == \A r \in rows : r.ident = req[c].ident

Monotonic(c, rows) ==
    /\ Decision \notin Stages(rows)
    /\ \A s \in Stages(rows) : s <= req[c].stage

HasPredecessor(c, rows) ==
    req[c].stage \in 2..Last => req[c].stage - 1 \in Stages(rows)

\* Mutant: promotion does not ask for the last stage.
PromotionReadyOffByOne(c, rows) ==
    req[c].decision = "PROMOTE" => Evidence \ {Last} \subseteq Stages(rows)

PromotionReady(c, rows) ==
    req[c].decision = "PROMOTE" => Evidence \subseteq Stages(rows)

Admissible(c, rows) ==
    /\ SameIdentity(c, rows)
    /\ Monotonic(c, rows)
    /\ HasPredecessor(c, rows)
    /\ PromotionReady(c, rows)

\* All rows of the entity are read once; the checks run on that result.
ReadAll(c) ==
    /\ pc[c] = "readAll"
    /\ TableFree(c)
    /\ \/ /\ Admissible(c, Visible(c))
          /\ Goto(c, "insert")
          /\ UNCHANGED <<registry, draft, events, lock, req, mine, acked, crashes>>
       \/ ~ Admissible(c, Visible(c)) /\ Raise(c)

\* The primary key, and the unique index on decisions.
Conflicts(c, rows) ==
    \/ SameId(c, rows) # {}
    \/ req[c].stage = Decision /\ Decision \in Stages(rows)

\* INSERT ... ON CONFLICT DO NOTHING, whatever happened since the checks.
Insert(c) ==
    LET new == IF Conflicts(c, Visible(c)) THEN {} ELSE {req[c]} IN
    /\ pc[c] = "insert"
    /\ TableFree(c)
    /\ IF c \in Transactional
       THEN mine' = [mine EXCEPT ![c] = @ \cup new] /\ UNCHANGED events
       ELSE events' = events \cup new /\ UNCHANGED mine
    /\ Goto(c, "reread")
    /\ UNCHANGED <<registry, draft, lock, req, acked, crashes>>

\* Mutant: the insert is trusted, and the stored row is not compared.
RereadUnchecked(c) ==
    /\ pc[c] = "reread"
    /\ TableFree(c)
    /\ Return(c)

\* The stored row must be the event of this call.
Reread(c) ==
    LET same == SameId(c, Visible(c)) IN
    /\ pc[c] = "reread"
    /\ TableFree(c)
    /\ \/ same = {req[c]} /\ Return(c)
       \/ same # {req[c]} /\ Raise(c)

\* The process dies or loses its connection: the database rolls back.
Crash(c) ==
    /\ pc[c] # "idle"
    /\ crashes < MaxCrashes
    /\ crashes' = crashes + 1
    /\ Release(c)
    /\ UNCHANGED <<registry, events, acked>>

-----------------------------------------------------------------------------

Step(c) ==
    \/ Call(c) \/ Register(c) \/ OnlyRegister(c) \/ RegistryConflict(c)
    \/ Schema(c) \/ ReadSame(c) \/ ReadAll(c) \/ Insert(c) \/ Reread(c) \/ Commit(c)

Next == \E c \in Recorders : Step(c) \/ Crash(c)

Spec == Init /\ [][Next]_vars

-----------------------------------------------------------------------------
(* What holds for every recorder *)

\* No lifecycle gate is skipped: behind every stored stage is its direct
\* predecessor, although the check and the insert are two statements.
ChainClosed == \A s \in Stages(events) \cap (2..Last) : s - 1 \in Stages(events)

\* A stored PROMOTE decision has the whole evidence chain behind it.
PromoteHasFullChain ==
    (\E r \in events : r.decision = "PROMOTE") => Evidence \subseteq Stages(events)

\* The ledger never holds a stage, or a decision, that its rules do not allow.
ChainIsWhole == ChainClosed /\ PromoteHasFullChain

\* A call that returned stored exactly its event, also as a retry after a lost
\* answer or in a race for the same event_id.
AckedIsStored ==
    /\ acked \subseteq events
    /\ \A r, e \in events : r.id = e.id => r = e

\* The stored events belong to the manifest that registered the trial, although
\* a rolled back transaction takes its registration with it.
EventsMatchRegistry == \A r \in events : r.build = registry

\* The chain is whole, it is the chain of one registered trial, and every
\* recorder was told the truth about it.
LedgerIsWhole == ChainIsWhole /\ EventsMatchRegistry /\ AckedIsStored

-----------------------------------------------------------------------------
(* What holds when all recorders run inside transactions *)

\* Nothing is added behind a later stage, or after the decision.
NoRetroactiveEvent ==
    [][\A r \in events' \ events :
          \A e \in events : e.stage <= r.stage /\ e.stage # Decision]_vars

\* The events of an entity agree on its specification and fingerprint.
OneIdentity == \A r, e \in events : r.ident = e.ident

-----------------------------------------------------------------------------
(* The inductive invariants *)

AfterRegister == {"schema", "readSame", "readAll", "insert", "reread", "commit"}
AfterSchema == AfterRegister \ {"schema"}

\* A recorder past the registration works for the registered manifest, or its
\* transaction is the one that registers it.
Registered ==
    \A c \in Recorders :
        pc[c] \in AfterRegister => registry = req[c].build \/ draft = c

DraftIsAlone ==
    draft # None =>
        /\ registry = None
        /\ draft \in Transactional
        /\ pc[draft] \in AfterRegister

\* The lock on the table is held by the transaction that is past the schema
\* script, and by no other.
LockIsHeld ==
    /\ lock # None => lock \in Transactional
    /\ \A c \in Transactional : pc[c] \in AfterSchema <=> lock = c

MineIsOwn ==
    \A c \in Recorders :
        /\ mine[c] \subseteq {req[c]}
        /\ mine[c] # {} => c \in Transactional /\ pc[c] \in {"reread", "commit"}

\* An event about to be inserted or committed passed checks that no later
\* insert can undo.
IsChecked ==
    \A c \in Recorders :
        pc[c] = "insert" \/ mine[c] # {} =>
            HasPredecessor(c, events) /\ PromotionReady(c, events)

MineIsNew ==
    \A c \in Recorders : \A r \in mine[c] : \A e \in events : r.id # e.id

CommitsItsEvent ==
    \A c \in Recorders : pc[c] = "commit" => req[c] \in Visible(c)

TransactionInv == Registered /\ DraftIsAlone /\ LockIsHeld /\ MineIsOwn

ContentInv ==
    /\ IsChecked /\ MineIsNew /\ CommitsItsEvent
    /\ ChainClosed /\ PromoteHasFullChain /\ AckedIsStored /\ EventsMatchRegistry

\* With all recorders inside transactions, the checks that other inserts could
\* undo still hold at the commit.
SerialInv ==
    /\ \A c \in Recorders :
          pc[c] = "insert" \/ mine[c] # {} =>
              SameIdentity(c, events) /\ Monotonic(c, events)
    /\ OneIdentity

=============================================================================
