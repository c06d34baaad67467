------------------------------ MODULE OosVault ------------------------------
(***************************************************************************)
(* The immutable out-of-sample vault of research_oos_vault.py, for one     *)
(* partition of one trial revision.                                        *)
(*                                                                         *)
(* A caller runs one of the four operations of the library on a connection *)
(* in autocommit mode, so every SQL statement is a step of its own.  The   *)
(* two tables have one row each for the partition, protected by their      *)
(* primary keys and by triggers that reject any change of a row.           *)
(***************************************************************************)
EXTENDS Naturals

CONSTANTS
    Callers,         \* processes that use the library
    VaultBuilds,          \* fingerprints of the trial manifest in deployed builds
    Payloads,        \* (manifest, payload) pairs that may be sealed
    Authorizations,  \* authorizations that may be presented
    Unset,            \* no row
    MaxDeaths       \* bound on the callers that die

ASSUME DeathAssumption == MaxDeaths \in Nat

VARIABLES
    trial,   \* research_trial_registry: the build that registered, or Unset
    vault,      \* the row of research_oos_vault, or Unset
    exposure,   \* the row of research_oos_exposure_events, or Unset
    at,         \* next statement of a caller
    call,       \* the arguments of a caller
    seen,       \* what a caller read in its first statement
    sealAcks,   \* contents a seal reported as stored
    openAcks,   \* authorizations an open reported as stored
    shown,      \* [to, row]: a payload returned to a caller of build to
    reports,    \* answers of oos_partition_status
    deaths

vaultVars == <<trial, vault, exposure, at, call, seen, sealAcks, openAcks,
          shown, reports, deaths>>

\* What is stored for a seal: the content is bound to the manifest of the trial.
Row == [payload : Payloads, build : VaultBuilds]

\* An authorization has to name the trial fingerprint of the build that
\* presents it (validate_open_authorization).
Grant == [auth : Authorizations, build : VaultBuilds]

\* NULL is no stored value.
ASSUME NoneAssumption == Unset \notin VaultBuilds /\ Unset \notin Row /\ Unset \notin Grant

VaultCall == [build : VaultBuilds, payload : Payloads, auth : Authorizations]

Report == [sealed : BOOLEAN, exposed : BOOLEAN]

Statements == {"idle", "sealRegister", "sealInsert", "sealReread",
           "openRead", "openInsert", "openReread",
           "statusVault", "statusExposure", "readExposure", "readVault"}

VaultTypeOK ==
    /\ trial \in VaultBuilds \cup {Unset}
    /\ vault \in Row \cup {Unset}
    /\ exposure \in Grant \cup {Unset}
    /\ at \in [Callers -> Statements]
    /\ call \in [Callers -> VaultCall]
    /\ seen \in [Callers -> Row \cup {Unset}]
    /\ sealAcks \subseteq Row
    /\ openAcks \subseteq Grant
    /\ shown \subseteq [to : VaultBuilds, row : Row]
    /\ reports \subseteq Report
    /\ deaths \in 0..MaxDeaths

VaultInit ==
    /\ trial = Unset
    /\ vault = Unset
    /\ exposure = Unset
    /\ at = [c \in Callers |-> "idle"]
    /\ call \in [Callers -> VaultCall]
    /\ seen = [c \in Callers |-> Unset]
    /\ sealAcks = {}
    /\ openAcks = {}
    /\ shown = {}
    /\ reports = {}
    /\ deaths = 0

Proceed(c, label) == at' = [at EXCEPT ![c] = label]

\* The end of an operation, by an answer or by an exception.
Done(c) == Proceed(c, "idle") /\ seen' = [seen EXCEPT ![c] = Unset]

MyRow(c) == [payload |-> call[c].payload, build |-> call[c].build]
MyGrant(c) == [auth |-> call[c].auth, build |-> call[c].build]

Begin(c) ==
    /\ at[c] = "idle"
    /\ \E a \in VaultCall : call' = [call EXCEPT ![c] = a]
    /\ \E l \in {"sealRegister", "openRead", "statusVault", "readExposure"} : Proceed(c, l)
    /\ UNCHANGED <<trial, vault, exposure, seen, sealAcks, openAcks, shown,
                   reports, deaths>>

-----------------------------------------------------------------------------
(* seal_oos_partition *)

\* ensure_trial_registered: the first build registers, another one raises.
SealRegister(c) ==
    /\ at[c] = "sealRegister"
    /\ trial' = IF trial = Unset THEN call[c].build ELSE trial
    /\ Proceed(c, IF trial' = call[c].build THEN "sealInsert" ELSE "idle")
    /\ UNCHANGED <<vault, exposure, call, seen, sealAcks, openAcks, shown,
                   reports, deaths>>

\* INSERT ... ON CONFLICT DO NOTHING.
SealInsert(c) ==
    /\ at[c] = "sealInsert"
    /\ vault' = IF vault = Unset THEN MyRow(c) ELSE vault
    /\ Proceed(c, "sealReread")
    /\ UNCHANGED <<trial, exposure, call, seen, sealAcks, openAcks, shown,
                   reports, deaths>>

\* Mutant: the row read back is not compared with the arguments.
SealRereadUnchecked(c) ==
    /\ at[c] = "sealReread"
    /\ sealAcks' = sealAcks \cup {MyRow(c)}
    /\ Done(c)
    /\ UNCHANGED <<trial, vault, exposure, call, openAcks, shown, reports, deaths>>

\* The row read back must be the one of this call.
SealReread(c) ==
    /\ at[c] = "sealReread"
    /\ sealAcks' = sealAcks \cup {r \in {MyRow(c)} : vault = r}
    /\ Done(c)
    /\ UNCHANGED <<trial, vault, exposure, call, openAcks, shown, reports, deaths>>

-----------------------------------------------------------------------------
(* authorize_oos_open *)

\* The sealed row must exist and be of the trial of this build.
OpenRead(c) ==
    /\ at[c] = "openRead"
    /\ Proceed(c, IF vault # Unset /\ vault.build = call[c].build
               THEN "openInsert" ELSE "idle")
    /\ UNCHANGED <<trial, vault, exposure, call, seen, sealAcks, openAcks,
                   shown, reports, deaths>>

\* INSERT ... ON CONFLICT DO NOTHING; the foreign key asks for a sealed row.
OpenInsert(c) ==
    /\ at[c] = "openInsert"
    /\ vault # Unset
    /\ exposure' = IF exposure = Unset THEN MyGrant(c) ELSE exposure
    /\ Proceed(c, "openReread")
    /\ UNCHANGED <<trial, vault, call, seen, sealAcks, openAcks, shown,
                   reports, deaths>>

OpenReread(c) ==
    /\ at[c] = "openReread"
    /\ openAcks' = openAcks \cup {g \in {MyGrant(c)} : exposure = g}
    /\ Done(c)
    /\ UNCHANGED <<trial, vault, exposure, call, sealAcks, shown, reports, deaths>>

-----------------------------------------------------------------------------
(* oos_partition_status: two statements, no payload *)

StatusVault(c) ==
    /\ at[c] = "statusVault"
    /\ seen' = [seen EXCEPT ![c] = vault]
    /\ Proceed(c, "statusExposure")
    /\ UNCHANGED <<trial, vault, exposure, call, sealAcks, openAcks, shown,
                   reports, deaths>>

\* Mutant: exposed is answered from the second statement alone.
StatusExposureAlone(c) ==
    /\ at[c] = "statusExposure"
    /\ reports' = reports \cup
           {[sealed |-> seen[c] # Unset, exposed |-> exposure # Unset]}
    /\ Done(c)
    /\ UNCHANGED <<trial, vault, exposure, call, sealAcks, openAcks, shown, deaths>>

\* A row of another trial raises; without a row nothing is exposed, whatever
\* the second statement found.
StatusExposure(c) ==
    /\ at[c] = "statusExposure"
    /\ reports' = reports \cup
           IF seen[c] = Unset THEN {[sealed |-> FALSE, exposed |-> FALSE]}
           ELSE IF seen[c].build # call[c].build THEN {}
           ELSE {[sealed |-> TRUE, exposed |-> exposure # Unset]}
    /\ Done(c)
    /\ UNCHANGED <<trial, vault, exposure, call, sealAcks, openAcks, shown, deaths>>

-----------------------------------------------------------------------------
(* read_exposed_oos_partition *)

\* Mutant: the read path does not ask for an exposure event.
ReadExposureUnchecked(c) ==
    /\ at[c] = "readExposure"
    /\ Proceed(c, "readVault")
    /\ UNCHANGED <<trial, vault, exposure, call, seen, sealAcks, openAcks,
                   shown, reports, deaths>>

ReadExposure(c) ==
    /\ at[c] = "readExposure"
    /\ Proceed(c, IF exposure = Unset THEN "idle" ELSE "readVault")
    /\ UNCHANGED <<trial, vault, exposure, call, seen, sealAcks, openAcks,
                   shown, reports, deaths>>

\* Mutant: the trial fingerprint of the sealed row is not compared.
ReadVaultAnyBuild(c) ==
    /\ at[c] = "readVault"
    /\ shown' = shown \cup {[to |-> call[c].build, row |-> r] : r \in {vault} \cap Row}
    /\ Done(c)
    /\ UNCHANGED <<trial, vault, exposure, call, sealAcks, openAcks, reports, deaths>>

\* A missing row, or one of another trial, raises.
ReadVault(c) ==
    /\ at[c] = "readVault"
    /\ shown' = shown \cup
           {[to |-> call[c].build, row |-> r] :
                r \in {v \in {vault} \cap Row : v.build = call[c].build}}
    /\ Done(c)
    /\ UNCHANGED <<trial, vault, exposure, call, sealAcks, openAcks, reports, deaths>>

\* The caller dies; every statement it made is committed.
CallerDies(c) ==
    /\ at[c] # "idle"
    /\ deaths < MaxDeaths
    /\ deaths' = deaths + 1
    /\ Done(c)
    /\ UNCHANGED <<trial, vault, exposure, call, sealAcks, openAcks, shown, reports>>

-----------------------------------------------------------------------------

CallerStep(c) ==
    \/ Begin(c) \/ SealRegister(c) \/ SealInsert(c) \/ SealReread(c)
    \/ OpenRead(c) \/ OpenInsert(c) \/ OpenReread(c)
    \/ StatusVault(c) \/ StatusExposure(c)
    \/ ReadExposure(c) \/ ReadVault(c) \/ CallerDies(c)

VaultNext == \E c \in Callers : CallerStep(c)

VaultSpec == VaultInit /\ [][VaultNext]_vaultVars

-----------------------------------------------------------------------------
(* Properties *)

\* The vault is a box that is sealed once, opened once, and shows its contents
\* to nobody before (IMMUTABLE_OOS_VAULT_V1.md, model and read contract).
Box == INSTANCE SealedBox WITH
    Contents <- Row,
    Authorizations <- Grant,
    Nothing <- Unset,
    sealed <- vault,
    opener <- exposure,
    shown <- {s.row : s \in shown}

BoxSpec == Box!Spec

\* Any number of callers that were told "sealed" or "opened" were told so for
\* the one row that is stored: a conflicting retry fails closed.
AcksAgree ==
    /\ \A r \in sealAcks : vault = r
    /\ \A g \in openAcks : exposure = g

\* The chain of identities: the open and the readers are of the build that
\* sealed the row, and that build is the registered one.
OneTrial ==
    /\ vault # Unset => trial = vault.build
    /\ exposure # Unset => vault # Unset /\ exposure.build = vault.build
    /\ \A s \in shown : s.to = s.row.build

\* The status, read in two statements, never claims more than there is.
StatusIsNotAhead ==
    \A r \in reports :
        /\ r.exposed => r.sealed
        /\ r.sealed => vault # Unset
        /\ r.exposed => exposure # Unset

\* Callers, readers and observers of one partition are told one story: one
\* content, one build, and no status ahead of it.
OneStory == AcksAgree /\ OneTrial /\ StatusIsNotAhead

-----------------------------------------------------------------------------
(* The inductive invariant *)

\* What a caller found in its first statement is still true in the second.
FirstReadsHold ==
    \A c \in Callers :
        /\ at[c] = "sealInsert" => trial = call[c].build
        /\ at[c] = "openInsert" => vault # Unset /\ vault.build = call[c].build
        /\ at[c] = "readVault" => exposure # Unset
        /\ seen[c] # Unset => seen[c] = vault

VaultInv == FirstReadsHold /\ AcksAgree /\ OneTrial /\ StatusIsNotAhead

=============================================================================
