--------------------------- MODULE Queues_proofs ----------------------------
(***************************************************************************)
(* Proofs about the queues and caches of the workers: the historical       *)
(* replays and their events, the diagnostics with the reports clients      *)
(* read of them, and the flow cache.                                       *)
(***************************************************************************)
EXTENDS BacktestQueue, DiagnosticsQueue, GateReport, EventReplay, FlowCache, Extrema, FiniteSetTheorems, TLAPS

-----------------------------------------------------------------------------
(***************************************************************************)
(* BacktestQueue, for any set of workers, any universe and any values of   *)
(* the bounds.                                                             *)
(***************************************************************************)

\* A worker past the creation of the job works on a job that exists.
LEMMA CurrentJob ==
    ASSUME TypeOK, NEW w \in Workers, pc[w] \notin {"idle", "insertJob"}
    PROVE  cur[w] \in JobIds
  BY BoundsAssumption DEF TypeOK, JobIds

\* Every step of the queue keeps the tables and the local state well typed.
THEOREM BacktestTyping == Spec => []TypeOK
<1> USE SymbolsAssumption, SignalCountAssumption, BoundsAssumption
<1>1. Init => TypeOK
  BY DEF Init, TypeOK, JobIds, NewJob, JobStatus, SymbolStatus, Labels, NoTally,
         NoSignals
<1>2. TypeOK /\ [Next]_vars => TypeOK'
  <2> SUFFICES ASSUME TypeOK, [Next]_vars PROVE TypeOK'
    OBVIOUS
  <2> USE DEF TypeOK, Goto
  <2>1. ASSUME NEW w \in Workers, LookupJob(w) PROVE TypeOK'
    <3>1. cur' \in [Workers -> 0..MaxJobs]
      BY <2>1 DEF LookupJob
    <3>2. pc' \in [Workers -> Labels]
      BY <2>1 DEF LookupJob, Labels
    <3>3. \A v \in Workers : cur'[v] = 0 => pc'[v] \in {"idle", "insertJob"}
      BY <2>1 DEF LookupJob
    <3> QED
      BY <2>1, <3>1, <3>2, <3>3 DEF LookupJob, env
  <2>2. ASSUME NEW w \in Workers, InsertJob(w) PROVE TypeOK'
    <3>1. njobs + 1 \in JobIds
      BY <2>2 DEF InsertJob, JobIds
    <3>2. NewJob \in [status : JobStatus, window : Nat, completed : Nat,
                     failed : Nat, signals : [Symbols -> Nat],
                     finished : BOOLEAN]
      BY DEF NewJob, JobStatus, NoSignals
    <3>3. njobs' \in 0..MaxJobs /\ cur' \in [Workers -> 0..MaxJobs]
      BY <2>2 DEF InsertJob
    <3>4. pc' \in [Workers -> Labels]
      BY <2>2 DEF InsertJob, Labels
    <3>5. \A v \in Workers : cur'[v] = 0 => pc'[v] \in {"idle", "insertJob"}
      BY <2>2 DEF InsertJob
    <3> QED BY <2>2, <3>1, <3>2, <3>3, <3>4, <3>5 DEF InsertJob, env
  <2>3. ASSUME NEW w \in Workers, DuplicateJobKey(w) PROVE TypeOK'
    BY <2>3 DEF DuplicateJobKey, Labels, env
  <2>4. ASSUME NEW w \in Workers, InsertSymbols(w) PROVE TypeOK'
    BY <2>4 DEF InsertSymbols, Labels, SymbolStatus, env
  <2>5. ASSUME NEW w \in Workers, MarkRunning(w) PROVE TypeOK'
    <3>0. cur[w] \in JobIds
      BY <2>5, CurrentJob DEF MarkRunning
    <3>1. job' \in [JobIds -> [status : JobStatus, window : Nat, completed : Nat,
                                 failed : Nat, signals : [Symbols -> Nat],
                                 finished : BOOLEAN]]
      <4> DEFINE r == [job[cur[w]] EXCEPT !.status = "RUNNING"]
      <4>a. job[cur[w]] \in [status : JobStatus, window : Nat, completed : Nat,
                  failed : Nat, signals : [Symbols -> Nat], finished : BOOLEAN]
        BY <3>0
      <4>b. "RUNNING" \in JobStatus
        BY DEF JobStatus
      <4>1. r \in [status : JobStatus, window : Nat, completed : Nat,
                  failed : Nat, signals : [Symbols -> Nat], finished : BOOLEAN]
        BY ONLY <4>a, <4>b
      <4>2. job' = [job EXCEPT ![cur[w]] = r]
        BY <2>5 DEF MarkRunning
      <4> HIDE DEF r
      <4> QED BY <4>1, <4>2
    <3>2. pc' \in [Workers -> Labels]
      BY <2>5, <3>0 DEF MarkRunning, Labels
    <3>3. \A v \in Workers : cur'[v] = 0 => pc'[v] \in {"idle", "insertJob"}
      BY <2>5, <3>0 DEF MarkRunning
    <3> QED
      BY <2>5, <3>1, <3>2, <3>3 DEF MarkRunning, env
  <2>6. ASSUME NEW w \in Workers, ResetStaleSymbols(w) PROVE TypeOK'
    <3>0. cur[w] \in JobIds
      BY <2>6, CurrentJob DEF ResetStaleSymbols
    <3>1. sym' \in [JobIds -> [Symbols -> SymbolStatus]]
      BY <2>6, <3>0 DEF ResetStaleSymbols, SymbolStatus
    <3>2. resets' \in [JobIds -> [Symbols -> Nat]]
      BY <2>6, <3>0 DEF ResetStaleSymbols
    <3>3. stale' \subseteq JobIds \X Symbols
      BY <2>6, <3>0 DEF ResetStaleSymbols
    <3>4. pc' \in [Workers -> Labels]
      BY <2>6, <3>0 DEF ResetStaleSymbols, Labels
    <3>5. \A v \in Workers : cur'[v] = 0 => pc'[v] \in {"idle", "insertJob"}
      BY <2>6, <3>0 DEF ResetStaleSymbols
    <3> QED
      BY <2>6, <3>1, <3>2, <3>3, <3>4, <3>5 DEF ResetStaleSymbols, env
  <2>7. ASSUME NEW w \in Workers, ClaimSymbols(w) PROVE TypeOK'
    <3>1. todo' \in [Workers -> SUBSET Symbols]
      BY <2>7 DEF ClaimSymbols, Claimable, With
    <3>2. pc' \in [Workers -> Labels]
      BY <2>7 DEF ClaimSymbols, Labels
    <3>3. \A v \in Workers : cur'[v] = 0 => pc'[v] \in {"idle", "insertJob"}
      BY <2>7 DEF ClaimSymbols
    <3> QED
      BY <2>7, <3>1, <3>2, <3>3 DEF ClaimSymbols, env
  <2>8. ASSUME NEW w \in Workers, CommitClaim(w) PROVE TypeOK'
    BY <2>8 DEF CommitClaim, Labels, SymbolStatus, env
  <2>9. ASSUME NEW w \in Workers, FetchBtc(w) PROVE TypeOK'
    BY <2>9 DEF FetchBtc, Labels, env
  <2>10. ASSUME NEW w \in Workers, CompleteSymbol(w) PROVE TypeOK'
    <3>0. cur[w] \in JobIds
      BY <2>10, CurrentJob DEF CompleteSymbol, Current
    <3>1. sym' \in [JobIds -> [Symbols -> SymbolStatus]]
      BY <2>10, <3>0 DEF CompleteSymbol, SymbolStatus
    <3>2. signals' \in [JobIds -> [Symbols -> Nat]]
      BY <2>10, <3>0 DEF CompleteSymbol, InsertSignals
    <3>3. todo' \in [Workers -> SUBSET Symbols]
      BY <2>10, <3>0 DEF CompleteSymbol, AfterSymbol
    <3>4. pc' \in [Workers -> Labels]
      BY <2>10, <3>0 DEF CompleteSymbol, AfterSymbol, Labels
    <3>5. \A v \in Workers : cur'[v] = 0 => pc'[v] \in {"idle", "insertJob"}
      BY <2>10, <3>0 DEF CompleteSymbol, AfterSymbol, Current
    <3> QED
      BY <2>10, <3>1, <3>2, <3>3, <3>4, <3>5 DEF CompleteSymbol, env
  <2>11. ASSUME NEW w \in Workers, FailSymbol(w) PROVE TypeOK'
    <3>0. cur[w] \in JobIds
      BY <2>11, CurrentJob DEF FailSymbol, Current
    <3>1. sym' \in [JobIds -> [Symbols -> SymbolStatus]]
      BY <2>11, <3>0 DEF FailSymbol, SymbolStatus
    <3>2. todo' \in [Workers -> SUBSET Symbols]
      BY <2>11, <3>0 DEF FailSymbol, AfterSymbol
    <3>3. pc' \in [Workers -> Labels]
      BY <2>11, <3>0 DEF FailSymbol, AfterSymbol, Labels
    <3>4. \A v \in Workers : cur'[v] = 0 => pc'[v] \in {"idle", "insertJob"}
      BY <2>11, <3>0 DEF FailSymbol, AfterSymbol, Current
    <3> QED
      BY <2>11, <3>1, <3>2, <3>3, <3>4 DEF FailSymbol, env
  <2>12. ASSUME NEW w \in Workers, CountSymbols(w) PROVE TypeOK'
    <3>1. \A st : Cardinality(With(cur[w], st)) \in Nat
      BY FS_Subset, FS_CardinalityType DEF With
    <3> QED BY <2>12, <3>1 DEF CountSymbols, Labels, env
  <2>13. ASSUME NEW w \in Workers, CountSignals(w) PROVE TypeOK'
    <3>0. cur[w] \in JobIds
      BY <2>13, CurrentJob DEF CountSignals
    <3>1. sigTally' \in [Workers -> [Symbols -> Nat]]
      BY <2>13, <3>0 DEF CountSignals
    <3>2. pc' \in [Workers -> Labels]
      BY <2>13, <3>0 DEF CountSignals, Labels
    <3>3. \A v \in Workers : cur'[v] = 0 => pc'[v] \in {"idle", "insertJob"}
      BY <2>13, <3>0 DEF CountSignals
    <3> QED
      BY <2>13, <3>1, <3>2, <3>3 DEF CountSignals, env
  <2>14. ASSUME NEW w \in Workers, SaveCounts(w) PROVE TypeOK'
    <3>0. cur[w] \in JobIds
      BY <2>14, CurrentJob DEF SaveCounts
    <3>1. job' \in [JobIds -> [status : JobStatus, window : Nat, completed : Nat,
                                 failed : Nat, signals : [Symbols -> Nat],
                                 finished : BOOLEAN]]
      <4> DEFINE c == tally[w]
                 r == [status |-> CountedStatus(c), window |-> job[cur[w]].window,
                       completed |-> c.completed, failed |-> c.failed,
                       signals |-> sigTally[w],
                       finished |-> c.open = 0 \/ job[cur[w]].finished]
      <4>1. CountedStatus(c) \in JobStatus
        BY DEF CountedStatus, JobStatus
      <4>2. r \in [status : JobStatus, window : Nat, completed : Nat,
                  failed : Nat, signals : [Symbols -> Nat], finished : BOOLEAN]
        BY <3>0, <4>1
      <4>3. job' = [job EXCEPT ![cur[w]] = r]
        BY <2>14 DEF SaveCounts
      <4> HIDE DEF r
      <4> QED BY <4>2, <4>3
    <3>2. tally' \in [Workers -> [completed : Nat, failed : Nat, open : Nat]]
      BY <2>14, <3>0 DEF SaveCounts, NoTally
    <3>3. sigTally' \in [Workers -> [Symbols -> Nat]]
      BY <2>14, <3>0 DEF SaveCounts, NoSignals
    <3>4. pc' \in [Workers -> Labels]
      BY <2>14, <3>0 DEF SaveCounts, Labels
    <3>5. \A v \in Workers : cur'[v] = 0 => pc'[v] \in {"idle", "insertJob"}
      BY <2>14, <3>0 DEF SaveCounts
    <3> QED
      BY <2>14, <3>1, <3>2, <3>3, <3>4, <3>5 DEF SaveCounts, env
  <2>15. ASSUME NEW w \in Workers, Crash(w) PROVE TypeOK'
    BY <2>15 DEF Crash, Labels, NoTally, NoSignals, env
  <2>16. ASSUME NEW j \in JobIds, NEW s \in Symbols, Expire(j, s) PROVE TypeOK'
    BY <2>16 DEF Expire, env
  <2>17. CASE NextSlot
    BY <2>17 DEF NextSlot
  <2>18. CASE UNCHANGED vars
    BY <2>18 DEF vars, env
  <2> QED
    BY <2>1, <2>2, <2>3, <2>4, <2>5, <2>6, <2>7, <2>8, <2>9, <2>10, <2>11,
       <2>12, <2>13, <2>14, <2>15, <2>16, <2>17, <2>18 DEF Next, Step
<1>3. QED
  BY <1>1, <1>2, PTL DEF Spec

-----------------------------------------------------------------------------
(* Claims *)

\* The claim of a row is exclusive until the row is reset: the locks of an open
\* claim keep its rows PENDING, and a row in work is RUNNING unless reset.
THEOREM ClaimSafety == Spec => []ClaimInv
<1>1. Init => ClaimInv
  BY DEF Init, ClaimInv, HeldRowsExist, ClaimsArePending, ClaimsAreDisjoint, WorkedOnIsRunning,
         OthersHoldNothing, NoDoubleWork, Working
<1>2. TypeOK /\ ClaimInv /\ [Next]_vars => ClaimInv'
  <2> SUFFICES ASSUME TypeOK, ClaimInv, [Next]_vars PROVE ClaimInv'
    OBVIOUS
  <2>1. ASSUME NEW w \in Workers, LookupJob(w) PROVE ClaimInv'
    <3>1. /\ todo[w] = {} /\ pc'[w] \notin Working
          /\ \A v \in Workers \ {w} : pc'[v] = pc[v] /\ cur'[v] = cur[v]
          /\ UNCHANGED <<sym, resets, todo>>
      BY <2>1 DEF LookupJob, Goto, TypeOK, ClaimInv, OthersHoldNothing, Working
    <3>2. ClaimsArePending' /\ WorkedOnIsRunning'
      BY <3>1 DEF ClaimInv, HeldRowsExist, ClaimsArePending, WorkedOnIsRunning, Working
    <3>3. ClaimsAreDisjoint' /\ OthersHoldNothing'
      BY <3>1 DEF ClaimInv, ClaimsAreDisjoint, OthersHoldNothing, Working
    <3>4. NoDoubleWork'
      BY <3>1 DEF ClaimInv, NoDoubleWork
    <3>5. HeldRowsExist'
      BY <3>1 DEF ClaimInv, HeldRowsExist
    <3> QED BY <3>2, <3>3, <3>4, <3>5 DEF ClaimInv
  <2>2. ASSUME NEW w \in Workers, InsertJob(w) PROVE ClaimInv'
    <3>1. /\ todo[w] = {} /\ pc'[w] \notin Working
          /\ \A v \in Workers \ {w} : pc'[v] = pc[v] /\ cur'[v] = cur[v]
          /\ UNCHANGED <<sym, resets, todo>>
      BY <2>2 DEF InsertJob, Goto, TypeOK, ClaimInv, OthersHoldNothing, Working
    <3>2. ClaimsArePending' /\ WorkedOnIsRunning'
      BY <3>1 DEF ClaimInv, HeldRowsExist, ClaimsArePending, WorkedOnIsRunning, Working
    <3>3. ClaimsAreDisjoint' /\ OthersHoldNothing'
      BY <3>1 DEF ClaimInv, ClaimsAreDisjoint, OthersHoldNothing, Working
    <3>4. NoDoubleWork'
      BY <3>1 DEF ClaimInv, NoDoubleWork
    <3>5. HeldRowsExist'
      BY <3>1 DEF ClaimInv, HeldRowsExist
    <3> QED BY <3>2, <3>3, <3>4, <3>5 DEF ClaimInv
  <2>3. ASSUME NEW w \in Workers, DuplicateJobKey(w) PROVE ClaimInv'
    BY <2>3 DEF DuplicateJobKey, Goto, TypeOK, ClaimInv, HeldRowsExist, ClaimsArePending, ClaimsAreDisjoint,
           WorkedOnIsRunning, OthersHoldNothing, NoDoubleWork, Working
  <2>4. ASSUME NEW w \in Workers, InsertSymbols(w) PROVE ClaimInv'
    BY <2>4 DEF InsertSymbols, Goto, TypeOK, ClaimInv, HeldRowsExist, ClaimsArePending, ClaimsAreDisjoint,
           WorkedOnIsRunning, OthersHoldNothing, NoDoubleWork, Working
  <2>5. ASSUME NEW w \in Workers, MarkRunning(w) PROVE ClaimInv'
    BY <2>5 DEF MarkRunning, Goto, TypeOK, ClaimInv, HeldRowsExist, ClaimsArePending, ClaimsAreDisjoint,
           WorkedOnIsRunning, OthersHoldNothing, NoDoubleWork, Working
  <2>6. ASSUME NEW w \in Workers, ResetStaleSymbols(w) PROVE ClaimInv'
    <3> USE <2>6, CurrentJob DEF ResetStaleSymbols, Goto, TypeOK
    <3>1. \A j \in JobIds, s \in Symbols :
             /\ resets'[j][s] = 0 => resets[j][s] = 0 /\ sym'[j][s] = sym[j][s]
             /\ resets[j][s] > 0 => resets'[j][s] > 0
             /\ sym[j][s] = "PENDING" => sym'[j][s] = "PENDING"
      BY DEF With
    <3>2. ClaimsArePending' /\ WorkedOnIsRunning' /\ NoDoubleWork'
      BY <3>1, CurrentJob
         DEF ClaimInv, HeldRowsExist, ClaimsArePending, WorkedOnIsRunning, NoDoubleWork
    <3>3. ClaimsAreDisjoint' /\ OthersHoldNothing'
      BY DEF ClaimInv, ClaimsAreDisjoint, OthersHoldNothing, Working
    <3>4. HeldRowsExist'
      BY DEF With, ClaimInv, HeldRowsExist
    <3> QED BY <3>2, <3>3, <3>4 DEF ClaimInv
  <2>7. ASSUME NEW w \in Workers, ClaimSymbols(w) PROVE ClaimInv'
    <3> DEFINE C == Claimable(w)
    <3>1. /\ C \subseteq Symbols
          /\ \A s \in C : sym[cur[w]][s] = "PENDING"
          /\ \A v \in Workers \ {w} : pc[v] = "commitClaim" /\ cur[v] = cur[w]
                                      => todo[v] \cap C = {}
      BY DEF Claimable, LockedByOthers, With
    <3>2. /\ todo' = [todo EXCEPT ![w] = C]
          /\ pc' = [pc EXCEPT ![w] = IF C = {} THEN "countSymbols"
                                              ELSE "commitClaim"]
          /\ UNCHANGED <<sym, resets, cur>>
          /\ cur[w] \in JobIds
      BY <2>7, CurrentJob DEF ClaimSymbols, Goto
    <3> HIDE DEF C
    <3>3. ClaimsArePending'
      BY <3>1, <3>2 DEF TypeOK, ClaimInv, HeldRowsExist, ClaimsArePending
    <3>4. ClaimsAreDisjoint'
      BY <3>1, <3>2 DEF TypeOK, ClaimInv, ClaimsAreDisjoint
    <3>5. WorkedOnIsRunning' /\ OthersHoldNothing'
      BY <3>1, <3>2 DEF TypeOK, ClaimInv, WorkedOnIsRunning, OthersHoldNothing,
                        Working
    <3>6. \A v \in Workers \ {w} : \A s \in todo[v] \cap C :
             cur[v] = cur[w] => resets[cur[w]][s] > 0
      <4> SUFFICES ASSUME NEW v \in Workers \ {w}, NEW s \in todo[v] \cap C,
                          cur[v] = cur[w]
                   PROVE  resets[cur[w]][s] > 0
        OBVIOUS
      <4>1. pc[v] \in {"fetchBtc", "replay"}
        BY <3>1 DEF ClaimInv, OthersHoldNothing, Working
      <4>2. sym[cur[v]][s] # "RUNNING"
        BY <3>1
      <4>3. resets[cur[v]][s] # 0
        BY <4>1, <4>2 DEF ClaimInv, WorkedOnIsRunning
      <4> QED BY <4>3, <3>1, <3>2 DEF TypeOK
    <3>7. NoDoubleWork'
      BY <3>2, <3>6 DEF TypeOK, ClaimInv, NoDoubleWork
    <3>8. HeldRowsExist'
      BY <3>1, <3>2 DEF TypeOK, ClaimInv, HeldRowsExist
    <3> QED BY <3>3, <3>4, <3>5, <3>7, <3>8 DEF ClaimInv
  <2>8. ASSUME NEW w \in Workers, CommitClaim(w) PROVE ClaimInv'
    <3>1. /\ pc' = [pc EXCEPT ![w] = "fetchBtc"]
          /\ cur[w] \in JobIds
          /\ \A j \in JobIds, s \in Symbols :
                sym'[j][s] = IF j = cur[w] /\ s \in todo[w] THEN "RUNNING"
                                                         ELSE sym[j][s]
          /\ UNCHANGED <<resets, cur, todo>>
      BY <2>8, CurrentJob DEF CommitClaim, Goto, TypeOK
    <3>2. ClaimsArePending'
      <4> SUFFICES ASSUME NEW v \in Workers, pc'[v] = "commitClaim", NEW s \in todo[v]
                   PROVE  sym'[cur[v]][s] = "PENDING"
        BY <3>1 DEF ClaimsArePending
      <4>1. v # w /\ pc[v] = "commitClaim" /\ pc[w] = "commitClaim"
        BY <3>1, <2>8 DEF TypeOK, CommitClaim
      <4>2. cur[v] \in JobIds /\ s \in Symbols
        BY <4>1, CurrentJob DEF TypeOK
      <4>3. ~(cur[v] = cur[w] /\ s \in todo[w])
        BY <4>1 DEF ClaimInv, ClaimsAreDisjoint
      <4> QED BY <3>1, <4>1, <4>2, <4>3 DEF ClaimInv, HeldRowsExist, ClaimsArePending
    <3>3. ClaimsAreDisjoint' /\ OthersHoldNothing' /\ NoDoubleWork'
      BY <3>1 DEF TypeOK, ClaimInv, ClaimsAreDisjoint, OthersHoldNothing,
                  NoDoubleWork, Working
    <3>4. WorkedOnIsRunning'
      <4> SUFFICES ASSUME NEW v \in Workers, pc'[v] \in {"fetchBtc", "replay"},
                          NEW s \in todo[v], resets[cur[v]][s] = 0
                   PROVE  sym'[cur[v]][s] = "RUNNING"
        BY <3>1 DEF WorkedOnIsRunning
      <4>1. pc[v] \notin {"idle", "insertJob"} /\ s \in Symbols
        BY <3>1, <2>8 DEF TypeOK, CommitClaim
      <4>2. cur[v] \in JobIds
        BY <4>1, CurrentJob
      <4> QED BY <3>1, <4>1, <4>2 DEF TypeOK, ClaimInv, WorkedOnIsRunning
    <3>5. HeldRowsExist'
      <4> SUFFICES ASSUME NEW v \in Workers, NEW s \in todo[v]
                   PROVE  sym'[cur[v]][s] # "ABSENT"
        BY <3>1 DEF HeldRowsExist
      <4>1. pc[v] \notin {"idle", "insertJob"} /\ s \in Symbols
        BY DEF TypeOK, ClaimInv, OthersHoldNothing, Working
      <4>2. cur[v] \in JobIds
        BY <4>1, CurrentJob
      <4> QED BY <3>1, <4>1, <4>2 DEF ClaimInv, HeldRowsExist
    <3> QED BY <3>2, <3>3, <3>4, <3>5 DEF ClaimInv
  <2>9. ASSUME NEW w \in Workers, FetchBtc(w) PROVE ClaimInv'
    BY <2>9 DEF FetchBtc, Goto, TypeOK, ClaimInv, HeldRowsExist, ClaimsArePending, ClaimsAreDisjoint,
           WorkedOnIsRunning, OthersHoldNothing, NoDoubleWork, Working
  <2>10. ASSUME NEW w \in Workers, CompleteSymbol(w) PROVE ClaimInv'
    <3> PICK s \in Symbols : Current(w, s) /\ AfterSymbol(w, s)
                     /\ sym' = [sym EXCEPT ![cur[w]][s] = "COMPLETED"]
                     /\ UNCHANGED <<resets, cur>>
      BY <2>10 DEF CompleteSymbol
    <3> USE DEF Current, AfterSymbol, Goto, TypeOK
    <3>1. ClaimsArePending'
      BY DEF ClaimInv, HeldRowsExist, ClaimsArePending, LockedByOthers
    <3>2. ClaimsAreDisjoint' /\ OthersHoldNothing'
      BY DEF ClaimInv, ClaimsAreDisjoint, OthersHoldNothing, Working
    <3>3. WorkedOnIsRunning' /\ NoDoubleWork'
      BY DEF ClaimInv, WorkedOnIsRunning, NoDoubleWork
    <3>4. HeldRowsExist'
      BY DEF ClaimInv, HeldRowsExist
    <3> QED BY <3>1, <3>2, <3>3, <3>4 DEF ClaimInv
  <2>11. ASSUME NEW w \in Workers, FailSymbol(w) PROVE ClaimInv'
    <3> PICK s \in Symbols : Current(w, s) /\ AfterSymbol(w, s)
                     /\ sym' = [sym EXCEPT ![cur[w]][s] = "FAILED"]
                     /\ UNCHANGED <<resets, cur>>
      BY <2>11 DEF FailSymbol
    <3> USE DEF Current, AfterSymbol, Goto, TypeOK
    <3>1. ClaimsArePending'
      BY DEF ClaimInv, HeldRowsExist, ClaimsArePending, LockedByOthers
    <3>2. ClaimsAreDisjoint' /\ OthersHoldNothing'
      BY DEF ClaimInv, ClaimsAreDisjoint, OthersHoldNothing, Working
    <3>3. WorkedOnIsRunning' /\ NoDoubleWork'
      BY DEF ClaimInv, WorkedOnIsRunning, NoDoubleWork
    <3>4. HeldRowsExist'
      BY DEF ClaimInv, HeldRowsExist
    <3> QED BY <3>1, <3>2, <3>3, <3>4 DEF ClaimInv
  <2>12. ASSUME NEW w \in Workers, CountSymbols(w) PROVE ClaimInv'
    BY <2>12 DEF CountSymbols, Goto, TypeOK, ClaimInv, HeldRowsExist, ClaimsArePending, ClaimsAreDisjoint,
           WorkedOnIsRunning, OthersHoldNothing, NoDoubleWork, Working
  <2>13. ASSUME NEW w \in Workers, CountSignals(w) PROVE ClaimInv'
    BY <2>13 DEF CountSignals, Goto, TypeOK, ClaimInv, HeldRowsExist, ClaimsArePending, ClaimsAreDisjoint,
           WorkedOnIsRunning, OthersHoldNothing, NoDoubleWork, Working
  <2>14. ASSUME NEW w \in Workers, SaveCounts(w) PROVE ClaimInv'
    BY <2>14 DEF SaveCounts, Goto, TypeOK, ClaimInv, HeldRowsExist, ClaimsArePending, ClaimsAreDisjoint,
           WorkedOnIsRunning, OthersHoldNothing, NoDoubleWork, Working
  <2>15. ASSUME NEW w \in Workers, Crash(w) PROVE ClaimInv'
    BY <2>15 DEF Crash, Goto, TypeOK, ClaimInv, HeldRowsExist, ClaimsArePending, ClaimsAreDisjoint,
           WorkedOnIsRunning, OthersHoldNothing, NoDoubleWork, Working
  <2>16. ASSUME NEW j \in JobIds, NEW s \in Symbols, Expire(j, s) PROVE ClaimInv'
    BY <2>16 DEF Expire, ClaimInv, HeldRowsExist, ClaimsArePending, ClaimsAreDisjoint,
           WorkedOnIsRunning, OthersHoldNothing, NoDoubleWork
  <2>17. CASE NextSlot
    BY <2>17 DEF NextSlot, ClaimInv, HeldRowsExist, ClaimsArePending, ClaimsAreDisjoint,
           WorkedOnIsRunning, OthersHoldNothing, NoDoubleWork
  <2>18. CASE UNCHANGED vars
    BY <2>18 DEF vars, ClaimInv, HeldRowsExist, ClaimsArePending, ClaimsAreDisjoint,
           WorkedOnIsRunning, OthersHoldNothing, NoDoubleWork
  <2> QED
    BY <2>1, <2>2, <2>3, <2>4, <2>5, <2>6, <2>7, <2>8, <2>9, <2>10, <2>11, <2>12, <2>13, <2>14, <2>15, <2>16, <2>17, <2>18 DEF Next, Step
<1>3. QED
  BY <1>1, <1>2, BacktestTyping, PTL DEF Spec

\* Two workers share a row only after it was reset (claim_symbols).
THEOREM NoDoubleWorkHolds == Spec => []NoDoubleWork
  BY ClaimSafety, PTL DEF ClaimInv

-----------------------------------------------------------------------------
(* What a step does to the rows and to the signals *)

\* No statement takes a row out of COMPLETED or FAILED except into the other
\* one; the claim cannot, because its rows are still PENDING when it commits.
LEMMA StepKeepsDone ==
    ASSUME TypeOK, ClaimInv, [Next]_vars, NEW j \in JobIds, NEW s \in Symbols,
           sym[j][s] \in Done
    PROVE  sym'[j][s] \in Done
<1> USE DEF Done
<1>1. ASSUME NEW w \in Workers, InsertSymbols(w) PROVE sym'[j][s] \in Done
  BY <1>1 DEF InsertSymbols, TypeOK
<1>2. ASSUME NEW w \in Workers, ResetStaleSymbols(w) PROVE sym'[j][s] \in Done
  BY <1>2 DEF ResetStaleSymbols, With, TypeOK
<1>3. ASSUME NEW w \in Workers, CommitClaim(w) PROVE sym'[j][s] \in Done
  BY <1>3 DEF CommitClaim, ClaimInv, ClaimsArePending, TypeOK
<1>4. ASSUME NEW w \in Workers, CompleteSymbol(w) PROVE sym'[j][s] \in Done
  BY <1>4 DEF CompleteSymbol, TypeOK
<1>5. ASSUME NEW w \in Workers, FailSymbol(w) PROVE sym'[j][s] \in Done
  BY <1>5 DEF FailSymbol, TypeOK
<1>6. CASE UNCHANGED sym
  BY <1>6
<1> QED
  BY <1>1, <1>2, <1>3, <1>4, <1>5, <1>6
     DEF Next, Step, vars, LookupJob, InsertJob, DuplicateJobKey, MarkRunning,
         ClaimSymbols, FetchBtc, CountSymbols, CountSignals, SaveCounts, Crash,
         Expire, NextSlot

\* A done row is never handed out again.
THEOREM DoneIsFinalHolds == Spec => DoneIsFinal
<1>1. TypeOK /\ ClaimInv /\ [Next]_vars =>
        [\A j \in JobIds, s \in Symbols :
            sym[j][s] \in Done => sym'[j][s] \in Done]_vars
  BY StepKeepsDone
<1> QED
  BY <1>1, BacktestTyping, ClaimSafety, PTL DEF Spec, DoneIsFinal

\* Signals are written once, with the completion of their row.
LEMMA StepKeepsSignals ==
    ASSUME TypeOK, ClaimInv, SignalsAreWhole, [Next]_vars
    PROVE  /\ SignalsAreWhole'
           /\ \A j \in JobIds :
                 signals[j] = SignalCount => signals'[j] = SignalCount
<1> USE SignalCountAssumption
<1>1. ASSUME NEW w \in Workers, CompleteSymbol(w)
      PROVE  /\ SignalsAreWhole'
             /\ \A j \in JobIds :
                   signals[j] = SignalCount => signals'[j] = SignalCount
  <2> PICK s \in Symbols :
           /\ Current(w, s)
           /\ signals' = [signals EXCEPT ![cur[w]][s] =
                             IF @ = 0 THEN SignalCount[s] ELSE @]
           /\ sym' = [sym EXCEPT ![cur[w]][s] = "COMPLETED"]
    BY <1>1 DEF CompleteSymbol, InsertSignals
  <2>1. cur[w] \in JobIds
    BY CurrentJob DEF Current
  <2>2. signals'[cur[w]][s] = SignalCount[s]
    BY <2>1 DEF TypeOK, SignalsAreWhole
  <2>3. \A j \in JobIds, r \in Symbols :
           <<j, r>> # <<cur[w], s>> =>
              signals'[j][r] = signals[j][r] /\ sym'[j][r] = sym[j][r]
    BY <2>1 DEF TypeOK
  <2>4. sym'[cur[w]][s] = "COMPLETED"
    BY <2>1 DEF TypeOK
  <2>5. SignalsAreWhole'
    BY <2>2, <2>3, <2>4 DEF SignalsAreWhole, Done
  <2>6. ASSUME NEW j \in JobIds, signals[j] = SignalCount
        PROVE  signals'[j] = SignalCount
    BY <2>1, <2>6 DEF TypeOK
  <2> QED BY <2>5, <2>6
<1>2. ASSUME UNCHANGED signals,
             \A j \in JobIds, s \in Symbols :
                /\ sym'[j][s] = "COMPLETED" => sym[j][s] = "COMPLETED"
                /\ sym'[j][s] \notin Done => sym[j][s] \notin Done
      PROVE  /\ SignalsAreWhole'
             /\ \A j \in JobIds :
                   signals[j] = SignalCount => signals'[j] = SignalCount
  BY <1>2 DEF SignalsAreWhole
<1>3. \A j \in JobIds, s \in Symbols : sym'[j][s] \notin Done => sym[j][s] \notin Done
  BY StepKeepsDone
<1>4. ASSUME NEW w \in Workers,
             \/ InsertSymbols(w) \/ ResetStaleSymbols(w) \/ CommitClaim(w)
             \/ FailSymbol(w)
      PROVE  /\ UNCHANGED signals
             /\ \A j \in JobIds, s \in Symbols :
                   sym'[j][s] = "COMPLETED" => sym[j][s] = "COMPLETED"
  <2>1. CASE InsertSymbols(w)
    BY <2>1 DEF InsertSymbols, TypeOK
  <2>2. CASE ResetStaleSymbols(w)
    BY <2>2 DEF ResetStaleSymbols, With, TypeOK
  <2>3. CASE CommitClaim(w)
    BY <2>3 DEF CommitClaim, TypeOK
  <2>4. CASE FailSymbol(w)
    BY <2>4 DEF FailSymbol, TypeOK
  <2> QED BY <1>4, <2>1, <2>2, <2>3, <2>4
<1>5. CASE UNCHANGED <<signals, sym>>
  BY <1>5, <1>2
<1> QED
  BY <1>1, <1>2, <1>3, <1>4, <1>5
     DEF Next, Step, vars, LookupJob, InsertJob, DuplicateJobKey, MarkRunning,
         ClaimSymbols, FetchBtc, CountSymbols, CountSignals, SaveCounts, Crash,
         Expire, NextSlot

\* Replays by several workers leave exactly the signals of one replay.
THEOREM SignalsAreWholeHolds == Spec => []SignalsAreWhole
<1>1. Init => SignalsAreWhole
  BY SignalCountAssumption DEF Init, SignalsAreWhole, NoSignals, Done
<1>2. TypeOK /\ ClaimInv /\ SignalsAreWhole /\ [Next]_vars => SignalsAreWhole'
  BY StepKeepsSignals
<1> QED
  BY <1>1, <1>2, BacktestTyping, ClaimSafety, PTL DEF Spec

-----------------------------------------------------------------------------
(* The record of a job *)

\* COMPLETED and FAILED rows are counted apart.
LEMMA CountsAddUp ==
    ASSUME NEW j
    PROVE  /\ \A st : Cardinality(With(j, st)) \in Nat
           /\ Cardinality(With(j, {"COMPLETED"})) + Cardinality(With(j, {"FAILED"}))
                 = Cardinality(With(j, Done))
<1> DEFINE C == With(j, {"COMPLETED"})
           F == With(j, {"FAILED"})
<1>1. \A st : IsFiniteSet(With(j, st)) /\ Cardinality(With(j, st)) \in Nat
  BY SymbolsAssumption, FS_Subset, FS_CardinalityType DEF With
<1>2. C \cap F = {} /\ C \cup F = With(j, Done)
  BY DEF With, Done
<1>3. Cardinality(C \cup F) = Cardinality(C) + Cardinality(F) - Cardinality(C \cap F)
  BY <1>1, FS_Union
<1>4. Cardinality(C \cap F) = 0
  BY <1>2, FS_EmptySet
<1>5. Cardinality(C) \in Nat /\ Cardinality(F) \in Nat
  BY <1>1
<1> HIDE DEF C, F
<1>6. Cardinality(C) + Cardinality(F) = Cardinality(With(j, Done))
  BY <1>2, <1>3, <1>4, <1>5
<1> QED BY <1>1, <1>6 DEF C, F

\* The number of done rows never shrinks, and a worked-off job stays so.
LEMMA DoneGrows ==
    ASSUME TypeOK, ClaimInv, [Next]_vars, NEW j \in JobIds
    PROVE  /\ Cardinality(With(j, Done)) <= Cardinality(With(j, Done)')
           /\ Cardinality(With(j, Done)') \in Nat
           /\ With(j, Done) = Symbols => With(j, Done)' = Symbols
<1>1. With(j, Done) \subseteq With(j, Done)' /\ With(j, Done)' \subseteq Symbols
  BY StepKeepsDone DEF With
<1>2. IsFiniteSet(With(j, Done)')
  BY <1>1, SymbolsAssumption, FS_Subset
<1> QED BY <1>1, <1>2, FS_Subset, FS_CardinalityType

\* A count of all symbols finds every row COMPLETED.
LEMMA FullCount ==
    ASSUME NEW j, Cardinality(With(j, {"COMPLETED"})) = Cardinality(Symbols)
    PROVE  \A s \in Symbols : sym[j][s] = "COMPLETED"
<1>1. With(j, {"COMPLETED"}) \subseteq Symbols
  BY DEF With
<1>2. With(j, {"COMPLETED"}) = Symbols
  BY <1>1, SymbolsAssumption, FS_Subset
<1> QED BY <1>2 DEF With

\* The rows of a job are inserted by one statement.
LEMMA RowsStayTogether ==
    ASSUME TypeOK, ClaimInv, RowsAppearTogether, [Next]_vars
    PROVE  RowsAppearTogether'
<1> USE DEF RowsAppearTogether
<1>1. ASSUME NEW w \in Workers, InsertSymbols(w) PROVE RowsAppearTogether'
  BY <1>1 DEF InsertSymbols, TypeOK
<1>2. ASSUME NEW w \in Workers, ResetStaleSymbols(w) PROVE RowsAppearTogether'
  BY <1>2 DEF ResetStaleSymbols, With, TypeOK
<1>3. ASSUME NEW w \in Workers, CommitClaim(w) PROVE RowsAppearTogether'
  BY <1>3 DEF CommitClaim, ClaimInv, ClaimsArePending, TypeOK
<1>4. ASSUME NEW w \in Workers, NEW s \in Symbols, Current(w, s),
             NEW st \in Done, sym' = [sym EXCEPT ![cur[w]][s] = st]
      PROVE  RowsAppearTogether'
  <2>1. cur[w] \in JobIds /\ sym[cur[w]][s] # "ABSENT"
    BY <1>4, CurrentJob DEF Current, ClaimInv, HeldRowsExist
  <2> QED BY <1>4, <2>1 DEF TypeOK, Done
<1>5. CASE UNCHANGED sym
  BY <1>5
<1> QED
  BY <1>1, <1>2, <1>3, <1>4, <1>5
     DEF Next, Step, vars, LookupJob, InsertJob, DuplicateJobKey, MarkRunning,
         ClaimSymbols, FetchBtc, CountSymbols, CountSignals, SaveCounts, Crash,
         Expire, NextSlot, CompleteSymbol, FailSymbol, Done

\* What a worker counted stays a lower bound while the others go on.
LEMMA TallyKept ==
    ASSUME TypeOK, ClaimInv, SignalsAreWhole, [Next]_vars, NEW w \in Workers,
           pc[w] \in {"countSignals", "saveCounts"}, TallyIsOldTruth(w),
           pc'[w] = pc[w], cur'[w] = cur[w], tally'[w] = tally[w],
           sigTally'[w] = sigTally[w]
    PROVE  TallyIsOldTruth(w)'
<1> DEFINE j == cur[w]
<1>1. j \in JobIds /\ tally[w].completed \in Nat /\ tally[w].failed \in Nat
  BY CurrentJob DEF TypeOK
<1>2. /\ Cardinality(With(j, Done)) <= Cardinality(With(j, Done)')
      /\ Cardinality(With(j, Done)') \in Nat /\ Cardinality(With(j, Done)) \in Nat
      /\ With(j, Done) = Symbols => With(j, Done)' = Symbols
  BY <1>1, DoneGrows, CountsAddUp
<1>3. signals[j] = SignalCount => signals'[j] = SignalCount
  BY <1>1, StepKeepsSignals
<1>4. With(cur[w], Done)' = With(j, Done)'
  BY DEF With
<1> QED BY <1>1, <1>2, <1>3, <1>4 DEF TallyIsOldTruth

\* A count is true when it is made.
LEMMA TallyMade ==
    ASSUME TypeOK, SignalsAreWhole, RowsAppearTogether,
           NEW w \in Workers, CountSymbols(w)
    PROVE  TallyIsOldTruth(w)'
<1> DEFINE j == cur[w]
<1>1. /\ tally'[w] = [completed |-> Cardinality(With(j, {"COMPLETED"})),
                     failed |-> Cardinality(With(j, {"FAILED"})),
                     open |-> Cardinality(With(j, {"PENDING", "RUNNING"}))]
      /\ pc'[w] = "countSignals"
      /\ UNCHANGED <<sym, signals, cur>>
      /\ j \in JobIds
  BY CurrentJob DEF CountSymbols, Goto, TypeOK
<1>2. /\ tally'[w].completed + tally'[w].failed = Cardinality(With(j, Done))
      /\ Cardinality(With(j, Done)) \in Nat
  BY <1>1, CountsAddUp
<1>3. ASSUME tally'[w].open = 0
      PROVE  With(j, Done) = Symbols \/ tally'[w].completed + tally'[w].failed = 0
  <2>1. With(j, {"PENDING", "RUNNING"}) = {}
    <3>1. IsFiniteSet(With(j, {"PENDING", "RUNNING"}))
      BY SymbolsAssumption, FS_Subset DEF With
    <3> QED BY <1>1, <1>3, <3>1, FS_EmptySet
  <2>2. CASE \A s \in Symbols : sym[j][s] = "ABSENT"
    <3>1. With(j, Done) = {}
      BY <2>2 DEF With, Done
    <3> QED BY <3>1, <1>2, FS_EmptySet
  <2>3. CASE \A s \in Symbols : sym[j][s] # "ABSENT"
    BY <2>1, <2>3, <1>1 DEF With, Done, TypeOK, SymbolStatus
  <2> QED BY <1>1, <2>2, <2>3 DEF RowsAppearTogether
<1>4. ASSUME tally'[w].completed = Cardinality(Symbols)
      PROVE  signals[j] = SignalCount
  <2>1. \A s \in Symbols : sym[j][s] = "COMPLETED"
    BY <1>1, <1>4, FullCount
  <2> QED BY <1>1, <2>1, SignalCountAssumption DEF SignalsAreWhole, TypeOK
<1>5. With(cur[w], Done)' = With(j, Done)
  BY <1>1 DEF With
<1> QED BY <1>1, <1>2, <1>3, <1>4, <1>5 DEF TallyIsOldTruth

\* What a worker has counted was true when it counted, and is a lower bound now.
LEMMA TalliesStay ==
    ASSUME TypeOK, ClaimInv, SignalsAreWhole, RowsAppearTogether,
           TalliesAreOldTruths, [Next]_vars
    PROVE  TalliesAreOldTruths'
<1> SUFFICES ASSUME NEW v \in Workers, pc'[v] \in {"countSignals", "saveCounts"}
             PROVE  TallyIsOldTruth(v)'
  BY DEF TalliesAreOldTruths
<1>1. CASE CountSymbols(v)
  BY <1>1, TallyMade
<1>2. CASE CountSignals(v)
  <2>1. /\ pc[v] = "countSignals" /\ cur'[v] = cur[v] /\ tally'[v] = tally[v]
        /\ sigTally'[v] = signals[cur[v]]
        /\ UNCHANGED <<sym, signals, cur>>
    BY <1>2 DEF CountSignals, TypeOK
  <2>2. TallyIsOldTruth(v)
    BY <2>1 DEF TalliesAreOldTruths
  <2>3. With(cur[v], Done)' = With(cur[v], Done)
    BY <2>1 DEF With
  <2> QED BY <2>1, <2>2, <2>3 DEF TallyIsOldTruth
<1>3. CASE ~CountSymbols(v) /\ ~CountSignals(v)
  <2>1. /\ pc'[v] = pc[v] /\ cur'[v] = cur[v] /\ tally'[v] = tally[v]
        /\ sigTally'[v] = sigTally[v]
    <3>1. ASSUME NEW w \in Workers, Step(w) \/ Crash(w), v # w
          PROVE  /\ pc'[v] = pc[v] /\ cur'[v] = cur[v] /\ tally'[v] = tally[v]
                 /\ sigTally'[v] = sigTally[v]
      BY <3>1 DEF Step, LookupJob, InsertJob, DuplicateJobKey, InsertSymbols,
           MarkRunning, ResetStaleSymbols, ClaimSymbols, CommitClaim, FetchBtc,
           CompleteSymbol, FailSymbol, AfterSymbol, CountSymbols, CountSignals,
           SaveCounts, Crash, Goto, TypeOK
    <3>2. ~(Step(v) \/ Crash(v))
      BY <1>3 DEF Step, LookupJob, InsertJob, DuplicateJobKey, InsertSymbols,
           MarkRunning, ResetStaleSymbols, ClaimSymbols, CommitClaim, FetchBtc,
           CompleteSymbol, FailSymbol, AfterSymbol, SaveCounts, Crash, Goto, TypeOK
    <3> QED BY <3>1, <3>2 DEF Next, Expire, NextSlot, vars
  <2>2. TallyIsOldTruth(v)
    BY <2>1 DEF TalliesAreOldTruths
  <2> QED BY <2>1, <2>2, TallyKept
<1> QED BY <1>1, <1>2, <1>3

\* The part of the invariant that is about the job record.
RecordTrue(j) ==
    /\ job[j].completed + job[j].failed <= Cardinality(With(j, Done))
    /\ job[j].status \in Terminal =>
          With(j, Done) = Symbols \/ job[j].completed + job[j].failed = 0
    /\ job[j].completed = Cardinality(Symbols) => job[j].signals = SignalCount

\* The record of every job is true if and only if the reports are honest.
LEMMA RecordIsReport ==
    (\A j \in JobIds : RecordTrue(j))
        <=> ReportedIsDone /\ TerminalIsAllOrNothing /\ FullReportHasAllSignals
  BY DEF RecordTrue, ReportedIsDone, TerminalIsAllOrNothing, FullReportHasAllSignals

\* A new record reports nothing, and the universe is not empty.
LEMMA NewRecord ==
    ASSUME NEW j, job[j] = NewJob
    PROVE  RecordTrue(j)
<1>1. Cardinality(Symbols) \in Nat /\ Cardinality(Symbols) # 0
  BY SymbolsAssumption, FS_EmptySet, FS_CardinalityType
<1>2. Cardinality(With(j, Done)) \in Nat
  BY CountsAddUp
<1> QED BY <1>1, <1>2 DEF RecordTrue, NewJob, Terminal

\* The record of a job stays true if its numbers do not change.
LEMMA RecordKept ==
    ASSUME TypeOK, ClaimInv, [Next]_vars, NEW j \in JobIds, RecordTrue(j),
           job'[j].completed = job[j].completed, job'[j].failed = job[j].failed,
           job'[j].signals = job[j].signals,
           job'[j].status \in Terminal => job[j].status \in Terminal
    PROVE  RecordTrue(j)'
<1>1. job[j].completed \in Nat /\ job[j].failed \in Nat
  BY DEF TypeOK
<1>2. /\ Cardinality(With(j, Done)) <= Cardinality(With(j, Done)')
      /\ Cardinality(With(j, Done)') \in Nat /\ Cardinality(With(j, Done)) \in Nat
      /\ With(j, Done) = Symbols => With(j, Done)' = Symbols
  BY DoneGrows, CountsAddUp
<1> QED BY <1>1, <1>2 DEF RecordTrue

\* Every step keeps the records true.
LEMMA RecordsStay ==
    ASSUME TypeOK, ClaimInv, TalliesAreOldTruths,
           \A j \in JobIds : RecordTrue(j), [Next]_vars
    PROVE  \A j \in JobIds : RecordTrue(j)'
<1> SUFFICES ASSUME NEW j \in JobIds PROVE RecordTrue(j)'
  OBVIOUS
<1>1. ASSUME NEW w \in Workers, InsertJob(w), j = njobs + 1 PROVE RecordTrue(j)'
  <2>1. job'[j] = NewJob /\ With(j, Done)' = With(j, Done)
    BY <1>1 DEF InsertJob, TypeOK, With
  <2>2. Cardinality(Symbols) \in Nat /\ Cardinality(Symbols) # 0
    BY SymbolsAssumption, FS_EmptySet, FS_CardinalityType
  <2>3. Cardinality(With(j, Done)) \in Nat
    BY CountsAddUp
  <2> QED BY <2>1, <2>2, <2>3 DEF RecordTrue, NewJob, Terminal
<1>2. ASSUME NEW w \in Workers, MarkRunning(w) PROVE RecordTrue(j)'
  <2>1. /\ job'[j].completed = job[j].completed /\ job'[j].failed = job[j].failed
        /\ job'[j].signals = job[j].signals
        /\ job'[j].status \in Terminal => job[j].status \in Terminal
    BY <1>2, CurrentJob DEF MarkRunning, TypeOK, Terminal
  <2> QED BY <2>1, RecordKept
<1>3. ASSUME NEW w \in Workers, SaveCounts(w), j = cur[w] PROVE RecordTrue(j)'
  <2>1. /\ job'[j].status = CountedStatus(tally[w])
        /\ job'[j].completed = tally[w].completed
        /\ job'[j].failed = tally[w].failed
        /\ job'[j].signals = sigTally[w]
        /\ With(j, Done)' = With(j, Done)
        /\ pc[w] = "saveCounts"
    BY <1>3 DEF SaveCounts, TypeOK, With
  <2>2. TallyIsOldTruth(w)
    BY <2>1 DEF TalliesAreOldTruths
  <2>3. CountedStatus(tally[w]) \in Terminal => tally[w].open = 0
    BY DEF CountedStatus, Terminal, TypeOK
  <2> QED BY <1>3, <2>1, <2>2, <2>3 DEF TallyIsOldTruth, RecordTrue
<1>4. CASE job'[j] = job[j]
  BY <1>4, RecordKept
<1>5. ASSUME NEW w \in Workers, InsertJob(w), j # njobs + 1 PROVE job'[j] = job[j]
  BY <1>5 DEF InsertJob, TypeOK
<1>6. ASSUME NEW w \in Workers, SaveCounts(w), j # cur[w] PROVE job'[j] = job[j]
  BY <1>6 DEF SaveCounts, TypeOK
<1>7. ASSUME [Next]_vars, \A w \in Workers : ~InsertJob(w) /\ ~MarkRunning(w)
                                                 /\ ~SaveCounts(w)
      PROVE  job' = job
  BY <1>7 DEF Next, Step, vars, LookupJob, DuplicateJobKey, InsertSymbols,
      ResetStaleSymbols, ClaimSymbols, CommitClaim, FetchBtc, CompleteSymbol,
      FailSymbol, CountSymbols, CountSignals, Crash, Expire, NextSlot
<1> QED BY <1>1, <1>2, <1>3, <1>4, <1>5, <1>6, <1>7

\* The record never runs ahead of the queue, and a full report is complete.
THEOREM ReportSafety == Spec => []ReportInv
<1>1. Init => ReportInv
  <2> SUFFICES ASSUME Init PROVE ReportInv
    OBVIOUS
  <2>1. SignalsAreWhole
    BY SignalCountAssumption DEF Init, SignalsAreWhole, NoSignals, Done
  <2>2. RowsAppearTogether
    BY DEF Init, RowsAppearTogether
  <2>3. TalliesAreOldTruths
    BY DEF Init, TalliesAreOldTruths
  <2>4. \A j \in JobIds : RecordTrue(j)
    BY NewRecord DEF Init
  <2> QED BY <2>1, <2>2, <2>3, <2>4, RecordIsReport DEF ReportInv
<1>2. TypeOK /\ ClaimInv /\ ReportInv /\ [Next]_vars => ReportInv'
  <2> SUFFICES ASSUME TypeOK, ClaimInv, ReportInv, [Next]_vars PROVE ReportInv'
    OBVIOUS
  <2>1. SignalsAreWhole' /\ RowsAppearTogether' /\ TalliesAreOldTruths'
    BY StepKeepsSignals, RowsStayTogether, TalliesStay DEF ReportInv
  <2>2. \A j \in JobIds : RecordTrue(j)'
    BY RecordIsReport, RecordsStay DEF ReportInv
  <2>3. (ReportedIsDone /\ TerminalIsAllOrNothing /\ FullReportHasAllSignals)'
    BY <2>2 DEF RecordTrue, ReportedIsDone, TerminalIsAllOrNothing,
                FullReportHasAllSignals
  <2> QED BY <2>1, <2>3 DEF ReportInv
<1> QED
  BY <1>1, <1>2, BacktestTyping, ClaimSafety, PTL DEF Spec

\* The recorded progress is at most the real one, a terminal record is about
\* a finished queue or about no row at all, and a record of a fully completed
\* job carries all the signals (backtest.py, update_job_counts).
THEOREM ReportIsHonestHolds == Spec => []ReportIsHonest
<1>1. ReportInv => ReportIsHonest
  BY DEF ReportInv, ReportIsHonest
<1> QED BY <1>1, ReportSafety, PTL

-----------------------------------------------------------------------------
(***************************************************************************)
(* DiagnosticsQueue, for any runs, symbols and lost sessions.              *)
(*                                                                         *)
(* A run whose session is open and past the lock holds it, so there is at  *)
(* most one (Alone): what it has claimed and counted is what the tables    *)
(* say (Claims, Counted). A run that lost its session may still remember   *)
(* rows that were reset and claimed again; it can no longer write.         *)
(***************************************************************************)

\* Past the lock, with a session that can still write.
Inside(r) == r \in sessions /\ at[r] \notin {"out", "lock"}

Alone ==
    /\ diagLock \subseteq sessions
    /\ \A q, r \in diagLock : q = r
    /\ \A r \in Runs : Inside(r) <=> r \in diagLock
    /\ \A r \in sessions : at[r] # "out"

Claims ==
    /\ \A r \in sessions : \A s \in claimed[r] : diagRows[s] = "RUNNING"
    /\ \A r \in Runs : at[r] = "out" => claimed[r] = {}
    /\ \A r \in sessions :
          at[r] \in {"lock", "find", "insert", "rows", "mark", "reset"} => claimed[r] = {}

StaleRuns == \A s \in diagStale : diagRows[s] = "RUNNING"

\* A job on which a run still works is not settled.
Unsettled ==
    \A r \in sessions :
        at[r] \in {"insert", "rows", "mark", "reset", "claim", "btc", "symbol"} =>
            diagJob.status \notin DiagTerminal

\* What a run has counted is still so.
Counted ==
    \A r \in sessions :
        /\ at[r] \in {"countEvents", "save"} =>
               /\ counted[r].completed = RowsWith({"COMPLETED"})
               /\ counted[r].failed = RowsWith({"FAILED"})
               /\ counted[r].open = RowsWith({"PENDING", "RUNNING"})
        /\ at[r] = "save" => counted[r].events = diagEvents

DiagInv ==
    /\ DiagTypeOK /\ Alone /\ Claims /\ StaleRuns /\ Unsettled /\ Counted
    /\ DiagnosticsAreWhole /\ ReportIsExact

\* The diagnostics begin in their invariant.
LEMMA DiagStarts == DiagInit => DiagInv
<1>. SUFFICES ASSUME DiagInit PROVE DiagInv
  OBVIOUS
<1>1. DiagTypeOK
  BY DiagEventsAssumption DEF DiagInit, DiagTypeOK, Counts, NoCounts, NoEvents, DiagTerminal, RowStatus, Statements
<1>2. Alone /\ Claims /\ StaleRuns /\ Unsettled /\ Counted
  BY DEF DiagInit, Alone, Inside, Claims, StaleRuns, Unsettled, Counted
<1>3. DiagnosticsAreWhole /\ ReportIsExact
  BY DEF DiagInit, DiagnosticsAreWhole, ReportIsExact, NoEvents, DiagTerminal
<1>. QED
  BY <1>1, <1>2, <1>3 DEF DiagInv

\* While one run is inside, every other open session waits for the lock.
LEMMA OthersWait ==
    ASSUME DiagInv, NEW r \in Runs, Inside(r), NEW q \in sessions, q # r
    PROVE  q \in Runs /\ at[q] = "lock" /\ claimed[q] = {} /\ q \notin diagLock
BY DEF DiagInv, DiagTypeOK, Alone, Inside, Claims

\* The action Connect keeps the invariant of the diagnostics.
LEMMA ConnectKeeps ==
    ASSUME DiagInv, NEW r \in Runs, Connect(r)
    PROVE  DiagInv'
<1>. USE DEF Connect, At, GoesTo
<1>1. DiagTypeOK'
  BY DEF DiagInv, DiagTypeOK, Counts, NoEvents, DiagTerminal, RowStatus, Statements, RowsWith
<1>2. Alone'
  BY DEF DiagInv, Alone, Inside, DiagTypeOK
<1>3. Claims'
  BY DEF DiagInv, Claims, Alone, Inside, DiagTypeOK
<1>4. StaleRuns'
  BY DEF DiagInv, StaleRuns, DiagTypeOK
<1>5. Unsettled'
  BY DEF DiagInv, Unsettled, Alone, Inside, DiagTypeOK, DiagTerminal
<1>6. Counted'
  BY DEF DiagInv, Counted, Alone, Inside, DiagTypeOK, RowsWith
<1>7. DiagnosticsAreWhole'
  BY DEF DiagInv, DiagnosticsAreWhole, Claims, StaleRuns, DiagTypeOK
<1>8. ReportIsExact'
  BY DEF DiagInv, ReportIsExact, Unsettled, Counted, DiagTypeOK, RowsWith, DiagTerminal
<1>. QED
  BY <1>1, <1>2, <1>3, <1>4, <1>5, <1>6, <1>7, <1>8 DEF DiagInv

\* The action TryLock keeps the invariant of the diagnostics.
LEMMA TryLockKeeps ==
    ASSUME DiagInv, NEW r \in Runs, TryLock(r)
    PROVE  DiagInv'
<1>. USE DEF TryLock, At, GoesTo
<1>1. DiagTypeOK'
  BY DEF DiagInv, DiagTypeOK, Counts, NoEvents, DiagTerminal, RowStatus, Statements, RowsWith
<1>2. Alone'
  BY DEF DiagInv, Alone, Inside, DiagTypeOK
<1>3. Claims'
  BY DEF DiagInv, Claims, Alone, Inside, DiagTypeOK
<1>4. StaleRuns'
  BY DEF DiagInv, StaleRuns, DiagTypeOK
<1>5. Unsettled'
  BY DEF DiagInv, Unsettled, Alone, Inside, DiagTypeOK, DiagTerminal
<1>6. Counted'
  BY DEF DiagInv, Counted, Alone, Inside, DiagTypeOK, RowsWith
<1>7. DiagnosticsAreWhole'
  BY DEF DiagInv, DiagnosticsAreWhole, Claims, StaleRuns, DiagTypeOK
<1>8. ReportIsExact'
  BY DEF DiagInv, ReportIsExact, Unsettled, Counted, DiagTypeOK, RowsWith, DiagTerminal
<1>. QED
  BY <1>1, <1>2, <1>3, <1>4, <1>5, <1>6, <1>7, <1>8 DEF DiagInv

\* The action ReleaseLock keeps the invariant of the diagnostics.
LEMMA ReleaseLockKeeps ==
    ASSUME DiagInv, NEW r \in Runs, ReleaseLock(r)
    PROVE  DiagInv'
<1>. USE DEF ReleaseLock, At, GoesTo, NoCounts
<1>1. Inside(r) /\ \A q \in sessions : q # r => at[q] = "lock" /\ claimed[q] = {} /\ q \notin diagLock
  BY OthersWait DEF Inside, DiagInv, DiagTypeOK
<1>2. DiagTypeOK'
  BY DEF DiagInv, DiagTypeOK, Counts, NoEvents, DiagTerminal, RowStatus, Statements, RowsWith
<1>3. Alone'
  BY <1>1 DEF DiagInv, Alone, Inside, DiagTypeOK
<1>4. Claims'
  BY <1>1 DEF DiagInv, Claims, Alone, Inside, DiagTypeOK
<1>5. StaleRuns'
  BY <1>1 DEF DiagInv, StaleRuns, DiagTypeOK
<1>6. Unsettled'
  BY <1>1 DEF DiagInv, Unsettled, Alone, Inside, DiagTypeOK, DiagTerminal
<1>7. Counted'
  BY <1>1 DEF DiagInv, Counted, Alone, Inside, DiagTypeOK, RowsWith
<1>8. DiagnosticsAreWhole'
  BY <1>1 DEF DiagInv, DiagnosticsAreWhole, Claims, StaleRuns, DiagTypeOK
<1>9. ReportIsExact'
  BY <1>1 DEF DiagInv, ReportIsExact, Unsettled, Counted, DiagTypeOK, RowsWith, DiagTerminal
<1>. QED
  BY <1>2, <1>3, <1>4, <1>5, <1>6, <1>7, <1>8, <1>9 DEF DiagInv

\* The action FindJob keeps the invariant of the diagnostics.
LEMMA FindJobKeeps ==
    ASSUME DiagInv, NEW r \in Runs, FindJob(r)
    PROVE  DiagInv'
<1>. USE DEF FindJob, At, GoesTo
<1>1. Inside(r) /\ \A q \in sessions : q # r => at[q] = "lock" /\ claimed[q] = {} /\ q \notin diagLock
  BY OthersWait DEF Inside, DiagInv, DiagTypeOK
<1>2. DiagTypeOK'
  BY DEF DiagInv, DiagTypeOK, Counts, NoEvents, DiagTerminal, RowStatus, Statements, RowsWith
<1>3. Alone'
  BY <1>1 DEF DiagInv, Alone, Inside, DiagTypeOK
<1>4. Claims'
  BY <1>1 DEF DiagInv, Claims, Alone, Inside, DiagTypeOK
<1>5. StaleRuns'
  BY <1>1 DEF DiagInv, StaleRuns, DiagTypeOK
<1>6. Unsettled'
  BY <1>1 DEF DiagInv, Unsettled, Alone, Inside, DiagTypeOK, DiagTerminal
<1>7. Counted'
  BY <1>1 DEF DiagInv, Counted, Alone, Inside, DiagTypeOK, RowsWith
<1>8. DiagnosticsAreWhole'
  BY <1>1 DEF DiagInv, DiagnosticsAreWhole, Claims, StaleRuns, DiagTypeOK
<1>9. ReportIsExact'
  BY <1>1 DEF DiagInv, ReportIsExact, Unsettled, Counted, DiagTypeOK, RowsWith, DiagTerminal
<1>. QED
  BY <1>2, <1>3, <1>4, <1>5, <1>6, <1>7, <1>8, <1>9 DEF DiagInv

\* The action InsertDiagJob keeps the invariant of the diagnostics.
LEMMA InsertDiagJobKeeps ==
    ASSUME DiagInv, NEW r \in Runs, InsertDiagJob(r)
    PROVE  DiagInv'
<1>. USE DEF InsertDiagJob, At, GoesTo
<1>1. Inside(r) /\ \A q \in sessions : q # r => at[q] = "lock" /\ claimed[q] = {} /\ q \notin diagLock
  BY OthersWait DEF Inside, DiagInv, DiagTypeOK
<1>2. DiagTypeOK'
  BY DEF DiagInv, DiagTypeOK, Counts, NoEvents, DiagTerminal, RowStatus, Statements, RowsWith
<1>3. Alone'
  BY <1>1 DEF DiagInv, Alone, Inside, DiagTypeOK
<1>4. Claims'
  BY <1>1 DEF DiagInv, Claims, Alone, Inside, DiagTypeOK
<1>5. StaleRuns'
  BY <1>1 DEF DiagInv, StaleRuns, DiagTypeOK
<1>6. Unsettled'
  BY <1>1 DEF DiagInv, Unsettled, Alone, Inside, DiagTypeOK, DiagTerminal
<1>7. Counted'
  BY <1>1 DEF DiagInv, Counted, Alone, Inside, DiagTypeOK, RowsWith
<1>8. DiagnosticsAreWhole'
  BY <1>1 DEF DiagInv, DiagnosticsAreWhole, Claims, StaleRuns, DiagTypeOK
<1>9. ReportIsExact'
  BY <1>1 DEF DiagInv, ReportIsExact, Unsettled, Counted, DiagTypeOK, RowsWith, DiagTerminal
<1>. QED
  BY <1>2, <1>3, <1>4, <1>5, <1>6, <1>7, <1>8, <1>9 DEF DiagInv

\* The action InsertRows keeps the invariant of the diagnostics.
LEMMA InsertRowsKeeps ==
    ASSUME DiagInv, NEW r \in Runs, InsertRows(r)
    PROVE  DiagInv'
<1>. USE DEF InsertRows, At, GoesTo
<1>1. Inside(r) /\ \A q \in sessions : q # r => at[q] = "lock" /\ claimed[q] = {} /\ q \notin diagLock
  BY OthersWait DEF Inside, DiagInv, DiagTypeOK
<1>2. DiagTypeOK'
  BY DEF DiagInv, DiagTypeOK, Counts, NoEvents, DiagTerminal, RowStatus, Statements, RowsWith
<1>3. Alone'
  BY <1>1 DEF DiagInv, Alone, Inside, DiagTypeOK
<1>4. Claims'
  BY <1>1 DEF DiagInv, Claims, Alone, Inside, DiagTypeOK
<1>5. StaleRuns'
  BY <1>1 DEF DiagInv, StaleRuns, DiagTypeOK
<1>6. Unsettled'
  BY <1>1 DEF DiagInv, Unsettled, Alone, Inside, DiagTypeOK, DiagTerminal
<1>7. Counted'
  BY <1>1 DEF DiagInv, Counted, Alone, Inside, DiagTypeOK, RowsWith
<1>8. DiagnosticsAreWhole'
  BY <1>1 DEF DiagInv, DiagnosticsAreWhole, Claims, StaleRuns, DiagTypeOK
<1>9. ReportIsExact'
  BY <1>1 DEF DiagInv, ReportIsExact, Unsettled, Counted, DiagTypeOK, RowsWith, DiagTerminal
<1>. QED
  BY <1>2, <1>3, <1>4, <1>5, <1>6, <1>7, <1>8, <1>9 DEF DiagInv

\* The action MarkJobRunning keeps the invariant of the diagnostics.
LEMMA MarkJobRunningKeeps ==
    ASSUME DiagInv, NEW r \in Runs, MarkJobRunning(r)
    PROVE  DiagInv'
<1>. USE DEF MarkJobRunning, At, GoesTo
<1>1. Inside(r) /\ \A q \in sessions : q # r => at[q] = "lock" /\ claimed[q] = {} /\ q \notin diagLock
  BY OthersWait DEF Inside, DiagInv, DiagTypeOK
<1>2. DiagTypeOK'
  BY DEF DiagInv, DiagTypeOK, Counts, NoEvents, DiagTerminal, RowStatus, Statements, RowsWith
<1>3. Alone'
  BY <1>1 DEF DiagInv, Alone, Inside, DiagTypeOK
<1>4. Claims'
  BY <1>1 DEF DiagInv, Claims, Alone, Inside, DiagTypeOK
<1>5. StaleRuns'
  BY <1>1 DEF DiagInv, StaleRuns, DiagTypeOK
<1>6. Unsettled'
  BY <1>1 DEF DiagInv, Unsettled, Alone, Inside, DiagTypeOK, DiagTerminal
<1>7. Counted'
  BY <1>1 DEF DiagInv, Counted, Alone, Inside, DiagTypeOK, RowsWith
<1>8. DiagnosticsAreWhole'
  BY <1>1 DEF DiagInv, DiagnosticsAreWhole, Claims, StaleRuns, DiagTypeOK
<1>9. ReportIsExact'
  BY <1>1 DEF DiagInv, ReportIsExact, Unsettled, Counted, DiagTypeOK, RowsWith, DiagTerminal
<1>. QED
  BY <1>2, <1>3, <1>4, <1>5, <1>6, <1>7, <1>8, <1>9 DEF DiagInv

\* The action ResetStale keeps the invariant of the diagnostics.
LEMMA ResetStaleKeeps ==
    ASSUME DiagInv, NEW r \in Runs, ResetStale(r)
    PROVE  DiagInv'
<1>. USE DEF ResetStale, At, GoesTo
<1>1. Inside(r) /\ \A q \in sessions : q # r => at[q] = "lock" /\ claimed[q] = {} /\ q \notin diagLock
  BY OthersWait DEF Inside, DiagInv, DiagTypeOK
<1>2. DiagTypeOK'
  BY DEF DiagInv, DiagTypeOK, Counts, NoEvents, DiagTerminal, RowStatus, Statements, RowsWith
<1>3. Alone'
  BY <1>1 DEF DiagInv, Alone, Inside, DiagTypeOK
<1>4. Claims'
  BY <1>1 DEF DiagInv, Claims, Alone, Inside, DiagTypeOK
<1>5. StaleRuns'
  BY <1>1 DEF DiagInv, StaleRuns, DiagTypeOK
<1>6. Unsettled'
  BY <1>1 DEF DiagInv, Unsettled, Alone, Inside, DiagTypeOK, DiagTerminal
<1>7. Counted'
  BY <1>1 DEF DiagInv, Counted, Alone, Inside, DiagTypeOK, RowsWith
<1>8. DiagnosticsAreWhole'
  BY <1>1 DEF DiagInv, DiagnosticsAreWhole, Claims, StaleRuns, DiagTypeOK
<1>9. ReportIsExact'
  BY <1>1 DEF DiagInv, ReportIsExact, Unsettled, Counted, DiagTypeOK, RowsWith, DiagTerminal
<1>. QED
  BY <1>2, <1>3, <1>4, <1>5, <1>6, <1>7, <1>8, <1>9 DEF DiagInv

\* The action Claim keeps the invariant of the diagnostics.
LEMMA ClaimKeeps ==
    ASSUME DiagInv, NEW r \in Runs, Claim(r)
    PROVE  DiagInv'
<1>. USE DEF Claim, At, GoesTo, FirstPending, RowsWith
<1>1. Inside(r) /\ \A q \in sessions : q # r => at[q] = "lock" /\ claimed[q] = {} /\ q \notin diagLock
  BY OthersWait DEF Inside, DiagInv, DiagTypeOK
<1>2. DiagTypeOK'
  BY DEF DiagInv, DiagTypeOK, Counts, NoEvents, DiagTerminal, RowStatus, Statements
<1>3. Alone'
  BY <1>1 DEF DiagInv, Alone, Inside, DiagTypeOK
<1>4. Claims'
  BY <1>1 DEF DiagInv, Claims, Alone, Inside, DiagTypeOK
<1>5. StaleRuns'
  BY <1>1 DEF DiagInv, StaleRuns, DiagTypeOK
<1>6. Unsettled'
  BY <1>1 DEF DiagInv, Unsettled, Alone, Inside, DiagTypeOK, DiagTerminal
<1>7. Counted'
  BY <1>1 DEF DiagInv, Counted, Alone, Inside, DiagTypeOK
<1>8. DiagnosticsAreWhole'
  BY <1>1 DEF DiagInv, DiagnosticsAreWhole, Claims, StaleRuns, DiagTypeOK
<1>9. ReportIsExact'
  BY <1>1 DEF DiagInv, ReportIsExact, Unsettled, Counted, DiagTypeOK, DiagTerminal
<1>. QED
  BY <1>2, <1>3, <1>4, <1>5, <1>6, <1>7, <1>8, <1>9 DEF DiagInv

\* The action FetchBtcBars keeps the invariant of the diagnostics.
LEMMA FetchBtcBarsKeeps ==
    ASSUME DiagInv, NEW r \in Runs, FetchBtcBars(r)
    PROVE  DiagInv'
<1>. USE DEF FetchBtcBars, At, GoesTo
<1>1. Inside(r) /\ \A q \in sessions : q # r => at[q] = "lock" /\ claimed[q] = {} /\ q \notin diagLock
  BY OthersWait DEF Inside, DiagInv, DiagTypeOK
<1>2. DiagTypeOK'
  BY DEF DiagInv, DiagTypeOK, Counts, NoEvents, DiagTerminal, RowStatus, Statements, RowsWith
<1>3. Alone'
  BY <1>1 DEF DiagInv, Alone, Inside, DiagTypeOK
<1>4. Claims'
  BY <1>1 DEF DiagInv, Claims, Alone, Inside, DiagTypeOK
<1>5. StaleRuns'
  BY <1>1 DEF DiagInv, StaleRuns, DiagTypeOK
<1>6. Unsettled'
  BY <1>1 DEF DiagInv, Unsettled, Alone, Inside, DiagTypeOK, DiagTerminal
<1>7. Counted'
  BY <1>1 DEF DiagInv, Counted, Alone, Inside, DiagTypeOK, RowsWith
<1>8. DiagnosticsAreWhole'
  BY <1>1 DEF DiagInv, DiagnosticsAreWhole, Claims, StaleRuns, DiagTypeOK
<1>9. ReportIsExact'
  BY <1>1 DEF DiagInv, ReportIsExact, Unsettled, Counted, DiagTypeOK, RowsWith, DiagTerminal
<1>. QED
  BY <1>2, <1>3, <1>4, <1>5, <1>6, <1>7, <1>8, <1>9 DEF DiagInv

\* The action StoreReplay keeps the invariant of the diagnostics.
LEMMA StoreReplayKeeps ==
    ASSUME DiagInv, NEW r \in Runs, StoreReplay(r)
    PROVE  DiagInv'
<1>. USE DEF StoreReplay, At, GoesTo, FinishRow
<1>1. Inside(r) /\ \A q \in sessions : q # r => at[q] = "lock" /\ claimed[q] = {} /\ q \notin diagLock
  BY OthersWait DEF Inside, DiagInv, DiagTypeOK
<1>2. DiagTypeOK'
  <2>. USE DEF DiagInv, DiagTypeOK
  <2>1. diagEvents' \in [DiagSymbols -> Nat]
    BY DiagEventsAssumption
  <2>2. diagRows' \in [DiagSymbols -> RowStatus]
    BY DEF RowStatus
  <2>3. at' \in [Runs -> Statements] /\ claimed' \in [Runs -> SUBSET DiagSymbols]
    BY DEF Statements
  <2>4. diagStale' \subseteq DiagSymbols /\ UNCHANGED <<diagJob, sessions, diagLock, counted, lost>>
    OBVIOUS
  <2>. QED
    BY <2>1, <2>2, <2>3, <2>4
<1>3. Alone'
  BY <1>1 DEF DiagInv, Alone, Inside, DiagTypeOK
<1>4. Claims'
  BY <1>1 DEF DiagInv, Claims, Alone, Inside, DiagTypeOK
<1>5. StaleRuns'
  BY <1>1 DEF DiagInv, StaleRuns, DiagTypeOK
<1>6. Unsettled'
  BY <1>1 DEF DiagInv, Unsettled, Alone, Inside, DiagTypeOK, DiagTerminal
<1>7. Counted'
  BY <1>1 DEF DiagInv, Counted, Alone, Inside, DiagTypeOK, RowsWith
<1>8. DiagnosticsAreWhole'
  BY <1>1 DEF DiagInv, DiagnosticsAreWhole, Claims, StaleRuns, DiagTypeOK
<1>9. ReportIsExact'
  BY <1>1 DEF DiagInv, ReportIsExact, Unsettled, Counted, DiagTypeOK, RowsWith, DiagTerminal
<1>. QED
  BY <1>2, <1>3, <1>4, <1>5, <1>6, <1>7, <1>8, <1>9 DEF DiagInv

\* The action StoreFailure keeps the invariant of the diagnostics.
LEMMA StoreFailureKeeps ==
    ASSUME DiagInv, NEW r \in Runs, StoreFailure(r)
    PROVE  DiagInv'
<1>. USE DEF StoreFailure, At, GoesTo, FinishRow
<1>1. Inside(r) /\ \A q \in sessions : q # r => at[q] = "lock" /\ claimed[q] = {} /\ q \notin diagLock
  BY OthersWait DEF Inside, DiagInv, DiagTypeOK
<1>2. DiagTypeOK'
  BY DEF DiagInv, DiagTypeOK, Counts, NoEvents, DiagTerminal, RowStatus, Statements, RowsWith
<1>3. Alone'
  BY <1>1 DEF DiagInv, Alone, Inside, DiagTypeOK
<1>4. Claims'
  BY <1>1 DEF DiagInv, Claims, Alone, Inside, DiagTypeOK
<1>5. StaleRuns'
  BY <1>1 DEF DiagInv, StaleRuns, DiagTypeOK
<1>6. Unsettled'
  BY <1>1 DEF DiagInv, Unsettled, Alone, Inside, DiagTypeOK, DiagTerminal
<1>7. Counted'
  BY <1>1 DEF DiagInv, Counted, Alone, Inside, DiagTypeOK, RowsWith
<1>8. DiagnosticsAreWhole'
  BY <1>1 DEF DiagInv, DiagnosticsAreWhole, Claims, StaleRuns, DiagTypeOK
<1>9. ReportIsExact'
  BY <1>1 DEF DiagInv, ReportIsExact, Unsettled, Counted, DiagTypeOK, RowsWith, DiagTerminal
<1>. QED
  BY <1>2, <1>3, <1>4, <1>5, <1>6, <1>7, <1>8, <1>9 DEF DiagInv

\* The action CountRows keeps the invariant of the diagnostics.
LEMMA CountRowsKeeps ==
    ASSUME DiagInv, NEW r \in Runs, CountRows(r)
    PROVE  DiagInv'
<1>. USE DEF CountRows, At, GoesTo
<1>1. Inside(r) /\ \A q \in sessions : q # r => at[q] = "lock" /\ claimed[q] = {} /\ q \notin diagLock
  BY OthersWait DEF Inside, DiagInv, DiagTypeOK
<1>2. DiagTypeOK'
  BY DEF DiagInv, DiagTypeOK, Counts, NoEvents, DiagTerminal, RowStatus, Statements, RowsWith
<1>3. Alone'
  BY <1>1 DEF DiagInv, Alone, Inside, DiagTypeOK
<1>4. Claims'
  BY <1>1 DEF DiagInv, Claims, Alone, Inside, DiagTypeOK
<1>5. StaleRuns'
  BY <1>1 DEF DiagInv, StaleRuns, DiagTypeOK
<1>6. Unsettled'
  BY <1>1 DEF DiagInv, Unsettled, Alone, Inside, DiagTypeOK, DiagTerminal
<1>7. Counted'
  BY <1>1 DEF DiagInv, Counted, Alone, Inside, DiagTypeOK, RowsWith
<1>8. DiagnosticsAreWhole'
  BY <1>1 DEF DiagInv, DiagnosticsAreWhole, Claims, StaleRuns, DiagTypeOK
<1>9. ReportIsExact'
  BY <1>1 DEF DiagInv, ReportIsExact, Unsettled, Counted, DiagTypeOK, RowsWith, DiagTerminal
<1>. QED
  BY <1>2, <1>3, <1>4, <1>5, <1>6, <1>7, <1>8, <1>9 DEF DiagInv

\* The action CountEvents keeps the invariant of the diagnostics.
LEMMA CountEventsKeeps ==
    ASSUME DiagInv, NEW r \in Runs, CountEvents(r)
    PROVE  DiagInv'
<1>. USE DEF CountEvents, At, GoesTo
<1>1. Inside(r) /\ \A q \in sessions : q # r => at[q] = "lock" /\ claimed[q] = {} /\ q \notin diagLock
  BY OthersWait DEF Inside, DiagInv, DiagTypeOK
<1>2. DiagTypeOK'
  BY DEF DiagInv, DiagTypeOK, Counts, NoEvents, DiagTerminal, RowStatus, Statements, RowsWith
<1>3. Alone'
  BY <1>1 DEF DiagInv, Alone, Inside, DiagTypeOK
<1>4. Claims'
  BY <1>1 DEF DiagInv, Claims, Alone, Inside, DiagTypeOK
<1>5. StaleRuns'
  BY <1>1 DEF DiagInv, StaleRuns, DiagTypeOK
<1>6. Unsettled'
  BY <1>1 DEF DiagInv, Unsettled, Alone, Inside, DiagTypeOK, DiagTerminal
<1>7. Counted'
  BY <1>1 DEF DiagInv, Counted, Alone, Inside, DiagTypeOK, RowsWith
<1>8. DiagnosticsAreWhole'
  BY <1>1 DEF DiagInv, DiagnosticsAreWhole, Claims, StaleRuns, DiagTypeOK
<1>9. ReportIsExact'
  BY <1>1 DEF DiagInv, ReportIsExact, Unsettled, Counted, DiagTypeOK, RowsWith, DiagTerminal
<1>. QED
  BY <1>2, <1>3, <1>4, <1>5, <1>6, <1>7, <1>8, <1>9 DEF DiagInv

\* The action SaveReport keeps the invariant of the diagnostics.
LEMMA SaveReportKeeps ==
    ASSUME DiagInv, NEW r \in Runs, SaveReport(r)
    PROVE  DiagInv'
<1>. USE DEF SaveReport, At, GoesTo, StatusOf
<1>1. Inside(r) /\ \A q \in sessions : q # r => at[q] = "lock" /\ claimed[q] = {} /\ q \notin diagLock
  BY OthersWait DEF Inside, DiagInv, DiagTypeOK
<1>2. DiagTypeOK'
  BY DEF DiagInv, DiagTypeOK, Counts, NoEvents, DiagTerminal, RowStatus, Statements, RowsWith
<1>3. Alone'
  BY <1>1 DEF DiagInv, Alone, Inside, DiagTypeOK
<1>4. Claims'
  BY <1>1 DEF DiagInv, Claims, Alone, Inside, DiagTypeOK
<1>5. StaleRuns'
  BY <1>1 DEF DiagInv, StaleRuns, DiagTypeOK
<1>6. Unsettled'
  BY <1>1 DEF DiagInv, Unsettled, Alone, Inside, DiagTypeOK, DiagTerminal
<1>7. Counted'
  BY <1>1 DEF DiagInv, Counted, Alone, Inside, DiagTypeOK, RowsWith
<1>8. DiagnosticsAreWhole'
  BY <1>1 DEF DiagInv, DiagnosticsAreWhole, Claims, StaleRuns, DiagTypeOK
<1>9. ReportIsExact'
  BY <1>1 DEF DiagInv, ReportIsExact, Unsettled, Counted, DiagTypeOK, RowsWith, DiagTerminal
<1>. QED
  BY <1>2, <1>3, <1>4, <1>5, <1>6, <1>7, <1>8, <1>9 DEF DiagInv

\* The action LoseDiagSession keeps the invariant of the diagnostics.
LEMMA LoseDiagSessionKeeps ==
    ASSUME DiagInv, NEW r \in Runs, LoseDiagSession(r)
    PROVE  DiagInv'
<1>. USE DEF LoseDiagSession, At, GoesTo
<1>1. DiagTypeOK'
  BY DEF DiagInv, DiagTypeOK, Counts, NoEvents, DiagTerminal, RowStatus, Statements, RowsWith
<1>2. Alone'
  BY DEF DiagInv, Alone, Inside, DiagTypeOK
<1>3. Claims'
  BY DEF DiagInv, Claims, Alone, Inside, DiagTypeOK
<1>4. StaleRuns'
  BY DEF DiagInv, StaleRuns, DiagTypeOK
<1>5. Unsettled'
  BY DEF DiagInv, Unsettled, Alone, Inside, DiagTypeOK, DiagTerminal
<1>6. Counted'
  BY DEF DiagInv, Counted, Alone, Inside, DiagTypeOK, RowsWith
<1>7. DiagnosticsAreWhole'
  BY DEF DiagInv, DiagnosticsAreWhole, Claims, StaleRuns, DiagTypeOK
<1>8. ReportIsExact'
  BY DEF DiagInv, ReportIsExact, Unsettled, Counted, DiagTypeOK, RowsWith, DiagTerminal
<1>. QED
  BY <1>1, <1>2, <1>3, <1>4, <1>5, <1>6, <1>7, <1>8 DEF DiagInv

\* The action NoticeLoss keeps the invariant of the diagnostics.
LEMMA NoticeLossKeeps ==
    ASSUME DiagInv, NEW r \in Runs, NoticeLoss(r)
    PROVE  DiagInv'
<1>. USE DEF NoticeLoss, At, GoesTo, NoCounts
<1>1. DiagTypeOK'
  BY DEF DiagInv, DiagTypeOK, Counts, NoEvents, DiagTerminal, RowStatus, Statements, RowsWith
<1>2. Alone'
  BY DEF DiagInv, Alone, Inside, DiagTypeOK
<1>3. Claims'
  BY DEF DiagInv, Claims, Alone, Inside, DiagTypeOK
<1>4. StaleRuns'
  BY DEF DiagInv, StaleRuns, DiagTypeOK
<1>5. Unsettled'
  BY DEF DiagInv, Unsettled, Alone, Inside, DiagTypeOK, DiagTerminal
<1>6. Counted'
  BY DEF DiagInv, Counted, Alone, Inside, DiagTypeOK, RowsWith
<1>7. DiagnosticsAreWhole'
  BY DEF DiagInv, DiagnosticsAreWhole, Claims, StaleRuns, DiagTypeOK
<1>8. ReportIsExact'
  BY DEF DiagInv, ReportIsExact, Unsettled, Counted, DiagTypeOK, RowsWith, DiagTerminal
<1>. QED
  BY <1>1, <1>2, <1>3, <1>4, <1>5, <1>6, <1>7, <1>8 DEF DiagInv

\* The action RowAges keeps the invariant of the diagnostics.
LEMMA RowAgesKeeps ==
    ASSUME DiagInv, RowAges
    PROVE  DiagInv'
<1>1. DiagTypeOK'
  BY DEF DiagInv, DiagTypeOK, RowAges, RowsWith
<1>2. StaleRuns'
  BY DEF DiagInv, StaleRuns, RowAges, RowsWith
<1>3. Alone' /\ Claims' /\ Unsettled' /\ Counted' /\ DiagnosticsAreWhole' /\ ReportIsExact'
  BY DEF DiagInv, Alone, Inside, Claims, Unsettled, Counted, DiagnosticsAreWhole, ReportIsExact,
         RowAges, RowsWith
<1>. QED
  BY <1>1, <1>2, <1>3 DEF DiagInv

\* Every step of the diagnostics keeps their invariant.
LEMMA DiagSteps == DiagInv /\ [DiagNext]_diagVars => DiagInv'
<1>. SUFFICES ASSUME DiagInv, [DiagNext]_diagVars PROVE DiagInv'
  OBVIOUS
<1>1. CASE RowAges
  BY <1>1, RowAgesKeeps
<1>2. ASSUME NEW r \in Runs, Batch(r) PROVE DiagInv'
  BY <1>2, ConnectKeeps, TryLockKeeps, ReleaseLockKeeps, FindJobKeeps, InsertDiagJobKeeps,
     InsertRowsKeeps, MarkJobRunningKeeps, ResetStaleKeeps, ClaimKeeps, FetchBtcBarsKeeps,
     StoreReplayKeeps, StoreFailureKeeps, CountRowsKeeps, CountEventsKeeps, SaveReportKeeps,
     LoseDiagSessionKeeps, NoticeLossKeeps
     DEF Batch
<1>3. CASE UNCHANGED diagVars
  BY <1>3 DEF diagVars, DiagInv, DiagTypeOK, Alone, Inside, Claims, StaleRuns, Unsettled, Counted,
              DiagnosticsAreWhole, ReportIsExact, RowsWith
<1>. QED
  BY <1>1, <1>2, <1>3 DEF DiagNext

\* The stored events are those of the completed rows, for any number of runs and
\* of sessions lost under them (run_diagnostic_batch).
THEOREM DiagnosticsWholeSafety == DiagSpec => []DiagnosticsAreWhole
<1>1. DiagInv => DiagnosticsAreWhole
  BY DEF DiagInv
<1>. QED
  BY <1>1, DiagStarts, DiagSteps, PTL DEF DiagSpec

\* A settled report is exact and stays so, although it is put together by three
\* statements of which each sees the tables as they are (update_job_counts).
THEOREM DiagnosticsReportSafety == DiagSpec => []ReportIsExact
<1>1. DiagInv => ReportIsExact
  BY DEF DiagInv
<1>. QED
  BY <1>1, DiagStarts, DiagSteps, PTL DEF DiagSpec

\* Both, as one property.
THEOREM DiagnosticsAreExactHolds == DiagSpec => []DiagnosticsAreExact
<1>1. DiagnosticsAreWhole /\ ReportIsExact => DiagnosticsAreExact
  BY DEF DiagnosticsAreExact
<1>. QED
  BY <1>1, DiagnosticsWholeSafety, DiagnosticsReportSafety, PTL

-----------------------------------------------------------------------------
(***************************************************************************)
(* FlowCache, for any runs, symbols and limits.                            *)
(*                                                                         *)
(* The status row names the symbols of one run because the locks are kept  *)
(* to the end: before a run writes the status, every row of its batch that *)
(* is not still to be written is locked by it (BatchIsLocked), and its     *)
(* payloads are its own (Own). Freshness rests on what build_flow_payload  *)
(* lets through as GOOD (Young), since times are never changed later.      *)
(***************************************************************************)

Coverages == {"none", "GOOD", "PARTIAL_OI_HISTORY_ERROR", "STALE_SPOT_CONTEXT"}
Payloads == [batch : FlowRuns \cup {Free}, at : Nat, spot : Nat, coverage : Coverages]
RunStates == [spot : UNION {[D -> Nat] : D \in SUBSET FlowSymbols},
              made : UNION {[D -> Payloads] : D \in SUBSET FlowSymbols},
              todo : SUBSET FlowSymbols]

FlowTypeOK ==
    /\ time \in Nat
    /\ dayPass \in Nat
    /\ setupRow \in [FlowSymbols -> [asOf : Nat, updated : Nat]]
    /\ flowRow \in [FlowSymbols -> Payloads]
    /\ lockOf \in [FlowRows -> FlowRuns \cup {Free}]
    /\ flowAt \in [FlowRuns -> {"load", "fetch", "write", "commit", "done"}]
    /\ flowRun \in [FlowRuns -> RunStates]

\* A payload served as GOOD was built of spot data within their limit.
IsYoung(row) == row.coverage = "GOOD" => row.at <= row.spot + SpotMaxAge

Young ==
    /\ \A s \in FlowSymbols : IsYoung(flowRow[s])
    /\ \A r \in FlowRuns : \A s \in DOMAIN flowRun[r].made : IsYoung(flowRun[r].made[s])

Own == \A r \in FlowRuns : \A s \in DOMAIN flowRun[r].made : flowRun[r].made[s].batch = r

BatchIsLocked ==
    \A r \in FlowRuns :
        /\ flowAt[r] = "write" =>
               \A s \in DOMAIN flowRun[r].made \ flowRun[r].todo : lockOf[s] = r
        /\ flowAt[r] = "commit" => \A s \in DOMAIN flowRun[r].made : lockOf[s] = r

\* A row is locked by a run that writes, for a payload it has made.
LocksAreHeld ==
    \A r \in FlowRuns : \A s \in FlowSymbols :
        lockOf[s] = r => flowAt[r] \in {"write", "commit"} /\ s \in DOMAIN flowRun[r].made

TodoIsMade == \A r \in FlowRuns : flowRun[r].todo \subseteq DOMAIN flowRun[r].made

FlowInv == FlowTypeOK /\ Young /\ Own /\ TodoIsMade /\ BatchIsLocked /\ LocksAreHeld /\ FlowStatusIsWhole

\* The empty function has no argument.
LEMMA EmptyDomain == DOMAIN <<>> = {}
OBVIOUS

\* A run that has done nothing is of the type of the runs.
LEMMA EmptyTyped == EmptyRun \in RunStates
<1>1. <<>> \in [{} -> Nat] /\ <<>> \in [{} -> Payloads]
  OBVIOUS
<1>. QED
  BY <1>1 DEF EmptyRun, RunStates

\* The flow cache begins in its invariant.
LEMMA FlowStarts == FlowInit => FlowInv
<1>. SUFFICES ASSUME FlowInit PROVE FlowInv
  OBVIOUS
<1>1. FlowTypeOK
  BY EmptyTyped DEF FlowInit, FlowTypeOK, NoSetup, NoFlow, Payloads, Coverages, FlowRows
<1>2. Young /\ Own /\ TodoIsMade
  BY EmptyDomain DEF FlowInit, Young, Own, TodoIsMade, IsYoung, NoFlow, EmptyRun
<1>3. BatchIsLocked /\ LocksAreHeld
  BY FlowAssumption DEF FlowInit, BatchIsLocked, LocksAreHeld, Free, FlowRows
<1>4. FlowStatusIsWhole
  BY DEF FlowInit, FlowStatusIsWhole, EmptyStatus
<1>. QED
  BY <1>1, <1>2, <1>3, <1>4 DEF FlowInv

\* The steps of the clock and of the day worker leave the rows of the flow alone.
LEMMA DaySteps ==
    ASSUME FlowInv, ClockTicks \/ TakeSnapshot \/ CommitSetups \/ DayPassFails
    PROVE  FlowInv'
<1>1. UNCHANGED <<flowRow, statusRow, lockOf, flowAt, flowRun>>
  BY DEF ClockTicks, TakeSnapshot, CommitSetups, DayPassFails
<1>2. time' \in Nat /\ dayPass' \in Nat
  BY DEF FlowInv, FlowTypeOK, ClockTicks, TakeSnapshot, CommitSetups, DayPassFails
<1>3. setupRow' \in [FlowSymbols -> [asOf : Nat, updated : Nat]]
  BY DEF FlowInv, FlowTypeOK, ClockTicks, TakeSnapshot, CommitSetups, DayPassFails
<1>4. FlowTypeOK'
  BY <1>1, <1>2, <1>3 DEF FlowInv, FlowTypeOK
<1>5. Young' /\ Own' /\ TodoIsMade' /\ BatchIsLocked' /\ LocksAreHeld' /\ FlowStatusIsWhole'
  BY <1>1 DEF FlowInv, Young, Own, TodoIsMade, BatchIsLocked, LocksAreHeld, FlowStatusIsWhole
<1>. QED
  BY <1>4, <1>5 DEF FlowInv

\* Loading the candidates keeps the invariant of the flow cache.
LEMMA LoadStep ==
    ASSUME FlowInv, NEW r \in FlowRuns, LoadSetups(r)
    PROVE  FlowInv'
<1>. DEFINE spot == [s \in FreshSetups |-> setupRow[s].asOf]
            run == [EmptyRun EXCEPT !.spot = spot]
<1>1. spot \in UNION {[D -> Nat] : D \in SUBSET FlowSymbols}
  <2>1. FreshSetups \in SUBSET FlowSymbols /\ \A s \in FreshSetups : setupRow[s].asOf \in Nat
    BY DEF FlowInv, FlowTypeOK, FreshSetups
  <2>2. spot \in [FreshSetups -> Nat]
    BY <2>1
  <2>. HIDE DEF spot
  <2>. QED
    BY <2>1, <2>2
<1>2. run = [spot |-> spot, made |-> <<>>, todo |-> {}]
  <2>. HIDE DEF spot
  <2>. QED
    BY DEF EmptyRun
<1>3. run \in RunStates
  <2>. HIDE DEF run, spot
  <2>. QED
    BY <1>1, <1>2, EmptyTyped DEF RunStates, EmptyRun
<1>4. flowRun' = [flowRun EXCEPT ![r] = run] /\ flowAt' = [flowAt EXCEPT ![r] = "fetch"]
  BY DEF LoadSetups
<1>. HIDE DEF run, spot
<1>5. FlowTypeOK'
  BY <1>3, <1>4 DEF FlowInv, FlowTypeOK, LoadSetups
<1>6. DOMAIN run.made = {}
  BY <1>2, EmptyDomain
<1>7. \A q \in FlowRuns : flowRun'[q] = IF q = r THEN run ELSE flowRun[q]
  BY <1>4 DEF FlowInv, FlowTypeOK
<1>8. Young' /\ Own' /\ TodoIsMade'
  BY <1>2, <1>6, <1>7 DEF FlowInv, Young, Own, TodoIsMade, LoadSetups
<1>9. BatchIsLocked' /\ LocksAreHeld'
  BY <1>4, <1>7 DEF FlowInv, FlowTypeOK, BatchIsLocked, LocksAreHeld, LoadSetups
<1>10. FlowStatusIsWhole'
  BY DEF FlowInv, FlowStatusIsWhole, LoadSetups
<1>. QED
  BY <1>5, <1>8, <1>9, <1>10 DEF FlowInv

\* A run without candidates keeps the invariant of the flow cache.
LEMMA NoSetupsStep ==
    ASSUME FlowInv, NEW r \in FlowRuns, NoFreshSetups(r)
    PROVE  FlowInv'
<1>1. FlowTypeOK'
  BY DEF FlowInv, FlowTypeOK, NoFreshSetups
<1>2. Young' /\ Own' /\ TodoIsMade' /\ BatchIsLocked' /\ LocksAreHeld'
  BY DEF FlowInv, FlowTypeOK, Young, Own, TodoIsMade, BatchIsLocked, LocksAreHeld, NoFreshSetups
<1>3. FlowStatusIsWhole'
  BY DEF FlowStatusIsWhole, NoFreshSetups
<1>. QED
  BY <1>1, <1>2, <1>3 DEF FlowInv

\* What build_flow_payload makes is typed, its run's own and young.
LEMMA BuildStep ==
    ASSUME FlowInv, NEW r \in FlowRuns, NEW s \in FlowSymbols, BuildFlow(r, s)
    PROVE  FlowInv'
<1>. DEFINE spot == flowRun[r].spot
            made == flowRun[r].made
            rest == [t \in DOMAIN spot \ {s} |-> spot[t]]
<1>1. PICK answer \in {"GOOD", "PARTIAL_OI_HISTORY_ERROR"} :
        flowRun' = [flowRun EXCEPT ![r] =
              [spot |-> rest,
               made |-> [t \in DOMAIN made \cup {s} |->
                   IF t = s THEN Payload(r, spot[s], Coverage(spot[s], time, answer)) ELSE made[t]],
               todo |-> {}]]
  BY DEF BuildFlow
<1>. DEFINE coverage == Coverage(spot[s], time, answer)
            new == Payload(r, spot[s], coverage)
            grown == [t \in DOMAIN made \cup {s} |-> IF t = s THEN new ELSE made[t]]
            run == [spot |-> rest, made |-> grown, todo |-> {}]
<1>2. flowRun[r] \in RunStates
  BY DEF FlowInv, FlowTypeOK, RunStates
<1>3. PICK D \in SUBSET FlowSymbols : spot \in [D -> Nat]
  BY <1>2 DEF RunStates
<1>4. PICK M \in SUBSET FlowSymbols : made \in [M -> Payloads]
  BY <1>2 DEF RunStates
<1>5. s \in D /\ spot[s] \in Nat /\ time \in Nat
  BY <1>3 DEF BuildFlow, FlowInv, FlowTypeOK
<1>6. coverage \in Coverages
  BY DEF Coverage, Coverages
<1>7. flowRun' = [flowRun EXCEPT ![r] = run]
  BY <1>1
<1>8. new \in Payloads
  <2>. HIDE DEF coverage
  <2>. QED
    BY <1>5, <1>6 DEF Payload, Payloads
<1>9. IsYoung(new)
  <2>1. coverage = "GOOD" => time <= spot[s] + SpotMaxAge
    BY <1>5, FlowAssumption DEF Coverage
  <2>. HIDE DEF coverage
  <2>. QED
    BY <2>1 DEF IsYoung, Payload
<1>10. new.batch = r
  BY DEF Payload
<1>. HIDE DEF new, coverage
<1>11. rest \in [D \ {s} -> Nat] /\ grown \in [M \cup {s} -> Payloads]
  BY <1>3, <1>4, <1>8
<1>12. run \in RunStates
  <2>1. rest \in UNION {[E -> Nat] : E \in SUBSET FlowSymbols}
    BY <1>11
  <2>2. grown \in UNION {[E -> Payloads] : E \in SUBSET FlowSymbols}
    BY <1>11
  <2>. HIDE DEF rest, grown
  <2>. QED
    BY <2>1, <2>2 DEF RunStates
<1>13. FlowTypeOK'
  <2>. HIDE DEF run
  <2>. QED
    BY <1>7, <1>12 DEF FlowInv, FlowTypeOK, BuildFlow
<1>14. \A q \in FlowRuns : flowRun'[q] = IF q = r THEN run ELSE flowRun[q]
  <2>. HIDE DEF run
  <2>. QED
    BY <1>7 DEF FlowInv, FlowTypeOK
<1>15. \A t \in DOMAIN run.made : IsYoung(run.made[t]) /\ run.made[t].batch = r
  <2>1. run.made = grown /\ DOMAIN grown = DOMAIN made \cup {s}
    OBVIOUS
  <2>2. \A t \in DOMAIN made : IsYoung(made[t]) /\ made[t].batch = r
    BY DEF FlowInv, Young, Own
  <2>3. \A t \in DOMAIN grown : grown[t] = IF t = s THEN new ELSE made[t]
    OBVIOUS
  <2>. HIDE DEF run, grown, made
  <2>. QED
    BY <2>1, <2>2, <2>3, <1>9, <1>10
<1>. HIDE DEF run
<1>16. Young'
  BY <1>14, <1>15 DEF FlowInv, Young, BuildFlow
<1>17. Own'
  BY <1>14, <1>15 DEF FlowInv, Own
<1>20. TodoIsMade'
  <2>1. run.todo = {}
    BY DEF run
  <2>. QED
    BY <2>1, <1>14 DEF FlowInv, TodoIsMade
<1>18. BatchIsLocked' /\ LocksAreHeld'
  <2>1. DOMAIN flowRun[r].made \subseteq DOMAIN run.made
    BY DEF run, grown, made
  <2>. QED
    BY <2>1, <1>14 DEF FlowInv, BatchIsLocked, LocksAreHeld, BuildFlow
<1>19. FlowStatusIsWhole'
  BY DEF FlowInv, FlowStatusIsWhole, BuildFlow
<1>. QED
  BY <1>13, <1>16, <1>17, <1>18, <1>19, <1>20 DEF FlowInv

\* Only todo of run r changes, to a set of symbols.
LEMMA TodoOnly ==
    ASSUME FlowInv, NEW r \in FlowRuns, NEW rest \in SUBSET FlowSymbols,
           flowRun' = [flowRun EXCEPT ![r].todo = rest]
    PROVE  /\ flowRun' \in [FlowRuns -> RunStates]
           /\ \A q \in FlowRuns :
                 /\ flowRun'[q].made = flowRun[q].made
                 /\ flowRun'[q].todo = IF q = r THEN rest ELSE flowRun[q].todo
BY DEF FlowInv, FlowTypeOK, RunStates

\* The begin of the transaction keeps the invariant of the flow cache.
LEMMA BeginStep ==
    ASSUME FlowInv, NEW r \in FlowRuns, BeginWrites(r)
    PROVE  FlowInv'
<1>1. DOMAIN flowRun[r].made \in SUBSET FlowSymbols
  BY DEF FlowInv, FlowTypeOK, RunStates
<1>2. /\ flowRun' \in [FlowRuns -> RunStates]
      /\ \A q \in FlowRuns :
            /\ flowRun'[q].made = flowRun[q].made
            /\ flowRun'[q].todo = IF q = r THEN DOMAIN flowRun[r].made ELSE flowRun[q].todo
  BY <1>1, TodoOnly DEF BeginWrites
<1>3. FlowTypeOK'
  BY <1>2 DEF FlowInv, FlowTypeOK, BeginWrites
<1>4. Young' /\ Own' /\ TodoIsMade' /\ FlowStatusIsWhole'
  BY <1>2 DEF FlowInv, Young, Own, TodoIsMade, FlowStatusIsWhole, BeginWrites
<1>5. BatchIsLocked' /\ LocksAreHeld'
  BY <1>2 DEF FlowInv, FlowTypeOK, BatchIsLocked, LocksAreHeld, BeginWrites
<1>. QED
  BY <1>3, <1>4, <1>5 DEF FlowInv

\* A write of a row keeps the invariant of the flow cache.
LEMMA WriteStep ==
    ASSUME FlowInv, NEW r \in FlowRuns, NEW s \in FlowSymbols, WriteFlow(r, s)
    PROVE  FlowInv'
<1>1. flowRun[r].todo \ {s} \in SUBSET FlowSymbols
  BY DEF FlowInv, FlowTypeOK, RunStates
<1>2. flowRun' = [flowRun EXCEPT ![r].todo = flowRun[r].todo \ {s}]
  BY DEF WriteFlow, FlowInv, FlowTypeOK
<1>3. /\ flowRun' \in [FlowRuns -> RunStates]
      /\ \A q \in FlowRuns :
            /\ flowRun'[q].made = flowRun[q].made
            /\ flowRun'[q].todo = IF q = r THEN flowRun[r].todo \ {s} ELSE flowRun[q].todo
  BY <1>1, <1>2, TodoOnly
<1>4. FlowTypeOK'
  BY <1>3 DEF FlowInv, FlowTypeOK, WriteFlow
<1>5. Young' /\ Own' /\ TodoIsMade' /\ FlowStatusIsWhole'
  BY <1>3 DEF FlowInv, Young, Own, TodoIsMade, FlowStatusIsWhole, WriteFlow
<1>6. lockOf[s] = Free /\ \A row \in FlowRows : lockOf'[row] = IF row = s THEN r ELSE lockOf[row]
  BY DEF FlowInv, FlowTypeOK, WriteFlow
<1>7. \A q \in FlowRuns : DOMAIN flowRun[q].made \subseteq FlowRows /\ q # Free
  BY FlowAssumption DEF FlowInv, FlowTypeOK, RunStates, FlowRows, Free
<1>8. BatchIsLocked'
  BY <1>3, <1>6, <1>7 DEF FlowInv, BatchIsLocked, WriteFlow
<1>9. s \in DOMAIN flowRun[r].made
  BY DEF FlowInv, TodoIsMade, WriteFlow
<1>10. LocksAreHeld'
  BY <1>3, <1>6, <1>9 DEF FlowInv, LocksAreHeld, WriteFlow, FlowRows
<1>. QED
  BY <1>4, <1>5, <1>8, <1>10 DEF FlowInv

\* The write of the status keeps the invariant of the flow cache.
LEMMA StatusStep ==
    ASSUME FlowInv, NEW r \in FlowRuns, WriteStatus(r)
    PROVE  FlowInv'
<1>1. FlowTypeOK'
  BY DEF FlowInv, FlowTypeOK, WriteStatus, FlowRows
<1>2. Young' /\ Own' /\ FlowStatusIsWhole'
  BY DEF FlowInv, Young, Own, FlowStatusIsWhole, WriteStatus
<1>3. lockOf["status"] = Free /\ \A row \in FlowRows : lockOf'[row] = IF row = "status" THEN r ELSE lockOf[row]
  BY DEF FlowInv, FlowTypeOK, WriteStatus
<1>4. \A q \in FlowRuns : DOMAIN flowRun[q].made \subseteq FlowRows /\ q # Free
  BY FlowAssumption DEF FlowInv, FlowTypeOK, RunStates, FlowRows, Free
<1>5. \A q \in FlowRuns : flowAt'[q] = IF q = r THEN "commit" ELSE flowAt[q]
  BY DEF FlowInv, FlowTypeOK, WriteStatus
<1>6. flowRun' = flowRun /\ flowRun[r].todo = {} /\ flowAt[r] = "write"
  BY DEF WriteStatus
<1>7. \A s \in DOMAIN flowRun[r].made : lockOf[s] = r
  BY <1>6 DEF FlowInv, BatchIsLocked
<1>8. BatchIsLocked'
  BY <1>3, <1>4, <1>5, <1>6, <1>7 DEF FlowInv, BatchIsLocked
<1>9. LocksAreHeld'
  BY <1>3, <1>5, <1>6, FlowAssumption DEF FlowInv, LocksAreHeld, FlowRows
<1>10. TodoIsMade'
  BY <1>6 DEF FlowInv, TodoIsMade
<1>. QED
  BY <1>1, <1>2, <1>8, <1>9, <1>10 DEF FlowInv

\* A run that ends holds nothing, and the others keep what they hold.
LEMMA EndStep ==
    ASSUME FlowInv, NEW r \in FlowRuns,
           lockOf' = Unlocked(r),
           flowAt' = [flowAt EXCEPT ![r] = "done"],
           flowRun' = [flowRun EXCEPT ![r] = EmptyRun],
           UNCHANGED <<time, dayPass, setupRow>>,
           flowRow' \in [FlowSymbols -> Payloads],
           \A s \in FlowSymbols : IsYoung(flowRow'[s]),
           FlowStatusIsWhole'
    PROVE  FlowInv'
<1>1. \A q \in FlowRuns : flowRun'[q] = IF q = r THEN EmptyRun ELSE flowRun[q]
  BY DEF FlowInv, FlowTypeOK
<1>2. DOMAIN EmptyRun.made = {} /\ EmptyRun.todo = {}
  BY EmptyDomain DEF EmptyRun
<1>3. \A q \in FlowRuns : flowAt'[q] = IF q = r THEN "done" ELSE flowAt[q]
  BY DEF FlowInv, FlowTypeOK
<1>4. r # Free /\ \A row \in FlowRows : lockOf'[row] = IF lockOf[row] = r THEN Free ELSE lockOf[row]
  BY FlowAssumption DEF Unlocked, Free
<1>5. FlowTypeOK'
  BY EmptyTyped DEF FlowInv, FlowTypeOK, Unlocked
<1>6. Young' /\ Own' /\ TodoIsMade'
  BY <1>1, <1>2 DEF FlowInv, Young, Own, TodoIsMade
<1>7. \A q \in FlowRuns : DOMAIN flowRun[q].made \subseteq FlowRows
  BY DEF FlowInv, FlowTypeOK, RunStates, FlowRows
<1>8. BatchIsLocked'
  BY <1>1, <1>2, <1>3, <1>4, <1>7 DEF FlowInv, BatchIsLocked
<1>9. LocksAreHeld'
  BY <1>1, <1>3, <1>4, FlowAssumption DEF FlowInv, LocksAreHeld, FlowRows, Free
<1>. QED
  BY <1>5, <1>6, <1>8, <1>9 DEF FlowInv

\* The commit keeps the invariant of the flow cache.
LEMMA CommitStep ==
    ASSUME FlowInv, NEW r \in FlowRuns, CommitFlow(r)
    PROVE  FlowInv'
<1>. DEFINE made == flowRun[r].made
<1>1. \A s \in DOMAIN made :
          s \in FlowSymbols /\ lockOf[s] = r /\ made[s] \in Payloads /\ made[s].batch = r /\ IsYoung(made[s])
  BY DEF CommitFlow, FlowInv, FlowTypeOK, RunStates, BatchIsLocked, Own, Young
<1>2. \A s \in FlowSymbols : lockOf[s] = r => s \in DOMAIN made
  BY DEF FlowInv, LocksAreHeld
<1>3. flowRow' = [s \in FlowSymbols |-> IF lockOf[s] = r THEN made[s] ELSE flowRow[s]]
  BY DEF CommitFlow
<1>4. flowRow' \in [FlowSymbols -> Payloads]
  BY <1>1, <1>2, <1>3 DEF FlowInv, FlowTypeOK
<1>5. \A s \in FlowSymbols : IsYoung(flowRow'[s])
  BY <1>1, <1>2, <1>3 DEF FlowInv, Young
<1>6. FlowStatusIsWhole'
  BY <1>1, <1>3 DEF CommitFlow, FlowStatusIsWhole
<1>. QED
  BY <1>4, <1>5, <1>6, EndStep DEF CommitFlow

\* A failure keeps the invariant of the flow cache.
LEMMA FailStep ==
    ASSUME FlowInv, NEW r \in FlowRuns, FlowRunFails(r)
    PROVE  FlowInv'
<1>1. flowRow' \in [FlowSymbols -> Payloads] /\ \A s \in FlowSymbols : IsYoung(flowRow'[s])
  BY DEF FlowInv, FlowTypeOK, Young, FlowRunFails
<1>2. FlowStatusIsWhole'
  BY DEF FlowInv, FlowStatusIsWhole, FlowRunFails
<1>. QED
  BY <1>1, <1>2, EndStep DEF FlowRunFails

\* Every step of the flow workers keeps the invariant of the cache.
LEMMA FlowSteps == FlowInv /\ [FlowNext]_flowVars => FlowInv'
<1>. SUFFICES ASSUME FlowInv, [FlowNext]_flowVars PROVE FlowInv'
  OBVIOUS
<1>1. CASE ClockTicks \/ TakeSnapshot \/ CommitSetups \/ DayPassFails
  BY <1>1, DaySteps
<1>2. ASSUME NEW r \in FlowRuns, LoadSetups(r) \/ NoFreshSetups(r) \/ BeginWrites(r)
      PROVE  FlowInv'
  BY <1>2, LoadStep, NoSetupsStep, BeginStep
<1>3. ASSUME NEW r \in FlowRuns, WriteStatus(r) \/ CommitFlow(r) \/ FlowRunFails(r)
      PROVE  FlowInv'
  BY <1>3, StatusStep, CommitStep, FailStep
<1>4. ASSUME NEW r \in FlowRuns, NEW s \in FlowSymbols, BuildFlow(r, s) \/ WriteFlow(r, s)
      PROVE  FlowInv'
  BY <1>4, BuildStep, WriteStep
<1>5. CASE UNCHANGED flowVars
  BY <1>5 DEF flowVars, FlowInv, FlowTypeOK, Young, Own, TodoIsMade, BatchIsLocked, LocksAreHeld, FlowStatusIsWhole
<1>. QED
  BY <1>1, <1>2, <1>3, <1>4, <1>5 DEF FlowNext

\* What is served as GOOD now was fresh when it was built and has not aged past
\* the limit of the API since.
LEMMA YoungIsFresh == FlowInv => GoodFlowIsFresh
<1>. SUFFICES ASSUME FlowInv, NEW s \in FlowSymbols, ServedCoverage(flowRow[s]) = "GOOD"
              PROVE  time <= flowRow[s].spot + SpotMaxAge + FlowMaxAge
  BY DEF GoodFlowIsFresh
<1>1. flowRow[s].at \in Nat /\ flowRow[s].spot \in Nat /\ time \in Nat
  BY DEF FlowInv, FlowTypeOK, Payloads
<1>2. flowRow[s].coverage = "GOOD" /\ ~(time > flowRow[s].at + FlowMaxAge)
  BY DEF ServedCoverage
<1>3. flowRow[s].at <= flowRow[s].spot + SpotMaxAge
  BY <1>2 DEF FlowInv, Young, IsYoung
<1>. QED
  BY <1>1, <1>2, <1>3, FlowAssumption

\* Every symbol that the committed status names has a payload of the batch of the
\* status, for any number of overlapping runs (run_flow_worker).
THEOREM FlowStatusSafety == FlowSpec => []FlowStatusIsWhole
<1>1. FlowInv => FlowStatusIsWhole
  BY DEF FlowInv
<1>. QED
  BY <1>1, FlowStarts, FlowSteps, PTL DEF FlowSpec

\* The two limits add up and to no more, whatever they are and whenever each
\* symbol is built, written and served (build_flow_payload, apply_flow_freshness).
THEOREM FlowFreshness == FlowSpec => []GoodFlowIsFresh
BY FlowStarts, FlowSteps, YoungIsFresh, PTL DEF FlowSpec

\* Both, as one property.
THEOREM FlowIsSoundHolds == FlowSpec => []FlowIsSound
<1>1. FlowStatusIsWhole /\ GoodFlowIsFresh => FlowIsSound
  BY DEF FlowIsSound
<1>. QED
  BY <1>1, FlowStatusSafety, FlowFreshness, PTL

-----------------------------------------------------------------------------
(***************************************************************************)
(* GateReport, for any rows, slices and batches of the client.             *)
(***************************************************************************)

\* The rows are inserted together.
RowsTogether == \A s, t \in DiagSymbols : diagRows[s] = "ABSENT" => diagRows[t] = "ABSENT"
AllCompleted == \A s \in DiagSymbols : diagRows[s] = "COMPLETED"

\* No count is ahead of the table, and a COMPLETED report that counts a symbol
\* has counted them all.
KnownEvents ==
    /\ \A s \in DiagSymbols : diagJob.counts.events[s] <= diagEvents[s]
    /\ \A r \in Runs : \A s \in DiagSymbols : counted[r].events[s] <= diagEvents[s]
Settled(j) == j.status = "COMPLETED" /\ j.counts.completed # {}

JobInv == DiagInv /\ RowsTogether /\ KnownEvents /\ (Settled(diagJob) => AllCompleted)

\* A completed row stays one, and the rows leave ABSENT together.
LEMMA RowsGoOn ==
    ASSUME DiagInv, RowsTogether, [DiagNext]_diagVars
    PROVE  /\ \A s \in DiagSymbols : diagRows[s] = "COMPLETED" => diagRows'[s] = "COMPLETED"
           /\ RowsTogether'
<1> USE DEF DiagInv
<1>t. diagRows \in [DiagSymbols -> RowStatus]
  BY DEF DiagTypeOK
<1>1. ASSUME diagRows' = diagRows PROVE RowsTogether'
  BY <1>1 DEF RowsTogether
<1>2. ASSUME NEW r \in Runs, InsertRows(r)
      PROVE  /\ \A s \in DiagSymbols : diagRows[s] = "COMPLETED" => diagRows'[s] = "COMPLETED"
             /\ RowsTogether'
  <2>1. \A s \in DiagSymbols : diagRows'[s] = IF diagRows[s] = "ABSENT" THEN "PENDING" ELSE diagRows[s]
    BY <1>2 DEF InsertRows
  <2> QED BY <2>1 DEF RowsTogether
<1>3. ASSUME NEW r \in Runs, ResetStale(r)
      PROVE  /\ \A s \in DiagSymbols : diagRows[s] = "COMPLETED" => diagRows'[s] = "COMPLETED"
             /\ RowsTogether'
  <2>1. \A s \in DiagSymbols : diagRows'[s] = IF s \in diagStale THEN "PENDING" ELSE diagRows[s]
    BY <1>3 DEF ResetStale
  <2>2. \A s \in diagStale : diagRows[s] = "RUNNING" /\ s \in DiagSymbols
    BY DEF StaleRuns, DiagTypeOK
  <2> QED BY <2>1, <2>2 DEF RowsTogether
<1>4. ASSUME NEW r \in Runs, Claim(r)
      PROVE  /\ \A s \in DiagSymbols : diagRows[s] = "COMPLETED" => diagRows'[s] = "COMPLETED"
             /\ RowsTogether'
  <2>1. PICK n \in DiagBatches :
            diagRows' = [s \in DiagSymbols |-> IF s \in FirstPending(n) THEN "RUNNING" ELSE diagRows[s]]
    BY <1>4 DEF Claim
  <2>2. \A s \in FirstPending(n) : diagRows[s] = "PENDING" /\ s \in DiagSymbols
    BY DEF FirstPending, RowsWith
  <2>3. \A s \in DiagSymbols : diagRows'[s] = IF s \in FirstPending(n) THEN "RUNNING" ELSE diagRows[s]
    BY <2>1
  <2> QED BY <2>2, <2>3 DEF RowsTogether
<1>5. ASSUME NEW r \in Runs, StoreReplay(r) \/ StoreFailure(r)
      PROVE  /\ \A s \in DiagSymbols : diagRows[s] = "COMPLETED" => diagRows'[s] = "COMPLETED"
             /\ RowsTogether'
  <2>1. PICK s \in claimed[r], status \in {"COMPLETED", "FAILED"} : diagRows' = [diagRows EXCEPT ![s] = status]
    BY <1>5 DEF StoreReplay, StoreFailure, FinishRow
  <2>2. diagRows[s] = "RUNNING" /\ s \in DiagSymbols
    BY <1>5 DEF StoreReplay, StoreFailure, At, Claims, DiagTypeOK
  <2>3. \A t \in DiagSymbols : diagRows'[t] = IF t = s THEN status ELSE diagRows[t]
    BY <1>t, <2>1
  <2> QED BY <2>2, <2>3 DEF RowsTogether
<1>6. ASSUME ~ \E r \in Runs : InsertRows(r) \/ ResetStale(r) \/ Claim(r) \/ StoreReplay(r) \/ StoreFailure(r)
      PROVE  diagRows' = diagRows
  BY <1>6 DEF DiagNext, Batch, diagVars, RowAges, Connect, TryLock, ReleaseLock, FindJob, InsertDiagJob,
              MarkJobRunning, FetchBtcBars, CountRows, CountEvents, SaveReport, LoseDiagSession, NoticeLoss
<1> QED BY <1>1, <1>2, <1>3, <1>4, <1>5, <1>6

\* What a step does to the report and to the counts of the runs.
LEMMA ReportsCome ==
    ASSUME DiagInv, [DiagNext]_diagVars
    PROVE  /\ \/ diagJob' = diagJob
              \/ diagJob'.status \in {"PENDING", "RUNNING"} /\ diagJob'.counts = diagJob.counts
              \/ \E r \in sessions : /\ r \in Runs /\ at[r] = "save" /\ diagJob'.status = StatusOf(counted[r])
                                     /\ diagJob'.counts = counted[r]
           /\ \A r \in Runs : \/ counted'[r].events = counted[r].events
                              \/ counted'[r].events \in {diagEvents, NoEvents}
<1> USE DEF DiagInv
<1>t. counted \in [Runs -> Counts] /\ diagJob.counts \in Counts /\ sessions \subseteq Runs
      /\ diagJob = [status |-> diagJob.status, counts |-> diagJob.counts]
  BY DEF DiagTypeOK
<1>1. ASSUME NEW r \in Runs, InsertDiagJob(r) \/ MarkJobRunning(r)
      PROVE  /\ counted' = counted
             /\ \/ diagJob' = diagJob
                \/ diagJob'.status \in {"PENDING", "RUNNING"} /\ diagJob'.counts = diagJob.counts
  BY <1>t, <1>1 DEF InsertDiagJob, MarkJobRunning
<1>2. ASSUME NEW r \in Runs, SaveReport(r)
      PROVE  /\ counted' = counted /\ r \in sessions /\ at[r] = "save"
             /\ diagJob'.status = StatusOf(counted[r]) /\ diagJob'.counts = counted[r]
  BY <1>2 DEF SaveReport, At
<1>3. ASSUME NEW r \in Runs, CountRows(r) \/ CountEvents(r) \/ ReleaseLock(r) \/ NoticeLoss(r)
      PROVE  /\ diagJob' = diagJob
             /\ \A q \in Runs : \/ counted'[q].events = counted[q].events
                                \/ counted'[q].events \in {diagEvents, NoEvents}
  <2>1. /\ diagJob' = diagJob
        /\ \A q \in Runs : q # r => counted'[q] = counted[q]
    BY <1>t, <1>3 DEF CountRows, CountEvents, ReleaseLock, NoticeLoss
  <2>2. counted'[r].events = counted[r].events \/ counted'[r].events \in {diagEvents, NoEvents}
    <3>1. ASSUME CountRows(r) PROVE counted'[r].events = counted[r].events
      <4>1. \E c, f, o : counted' = [counted EXCEPT ![r] =
                           [counted[r] EXCEPT !.completed = c, !.failed = f, !.open = o]]
        BY <3>1 DEF CountRows
      <4> QED BY <1>t, <4>1 DEF Counts
    <3>2. ASSUME CountEvents(r) PROVE counted'[r].events = diagEvents
      BY <1>t, <3>2 DEF CountEvents, Counts
    <3>3. ASSUME ReleaseLock(r) \/ NoticeLoss(r) PROVE counted'[r].events = NoEvents
      BY <1>t, <3>3 DEF ReleaseLock, NoticeLoss, NoCounts
    <3> QED BY <1>3, <3>1, <3>2, <3>3
  <2> QED BY <2>1, <2>2
<1>4. ASSUME ~ \E r \in Runs : \/ InsertDiagJob(r) \/ MarkJobRunning(r) \/ SaveReport(r)
                               \/ CountRows(r) \/ CountEvents(r) \/ ReleaseLock(r) \/ NoticeLoss(r)
      PROVE  diagJob' = diagJob /\ counted' = counted
  BY <1>4 DEF DiagNext, Batch, diagVars, RowAges, Connect, TryLock, FindJob, InsertRows, ResetStale, Claim,
              StoreReplay, StoreFailure, FinishRow, FetchBtcBars, LoseDiagSession
<1> QED BY <1>1, <1>2, <1>3, <1>4

\* The table of the job begins without rows.
LEMMA JobStarts == DiagInit => JobInv
<1> SUFFICES ASSUME DiagInit PROVE JobInv
  OBVIOUS
<1>1. DiagInv
  BY DiagStarts
<1>2. RowsTogether /\ ~ Settled(diagJob)
  BY DEF DiagInit, RowsTogether, Settled
<1>3. KnownEvents
  BY DEF DiagInit, KnownEvents, NoCounts, NoEvents
<1> QED BY <1>1, <1>2, <1>3 DEF JobInv

\* The events of a symbol do not become fewer.
LEMMA JobSteps ==
    ASSUME JobInv, [DiagNext]_diagVars
    PROVE  JobInv' /\ (\A s \in DiagSymbols : diagEvents[s] <= diagEvents'[s]) /\ (AllCompleted => AllCompleted')
<1> USE DEF JobInv
<1>1. DiagInv'
  BY DiagSteps
<1>2. /\ \A s \in DiagSymbols : diagRows[s] = "COMPLETED" => diagRows'[s] = "COMPLETED"
      /\ RowsTogether'
  BY RowsGoOn
<1>3. \A s \in DiagSymbols : diagEvents[s] <= diagEvents'[s] /\ diagEvents[s] \in Nat /\ diagEvents'[s] \in Nat
  <2>1. \A s \in DiagSymbols : diagEvents[s] = IF diagRows[s] = "COMPLETED" THEN DiagEventCount[s] ELSE 0
    BY DEF DiagInv, DiagnosticsAreWhole
  <2>2. \A s \in DiagSymbols : diagEvents'[s] = IF diagRows'[s] = "COMPLETED" THEN DiagEventCount[s] ELSE 0
    BY <1>1 DEF DiagInv, DiagnosticsAreWhole
  <2>3. \A s \in DiagSymbols : DiagEventCount[s] \in Nat
    BY DiagEventsAssumption
  <2> QED BY <1>2, <2>1, <2>2, <2>3
<1>4. AllCompleted => AllCompleted'
  BY <1>2 DEF AllCompleted
<1>5. KnownEvents'
  <2>1. ASSUME NEW r \in Runs, NEW s \in DiagSymbols PROVE counted'[r].events[s] <= diagEvents'[s]
    <3>1. counted[r].events[s] \in Nat /\ counted[r].events[s] <= diagEvents[s]
      BY DEF KnownEvents, DiagInv, DiagTypeOK, Counts
    <3>2. CASE counted'[r].events = counted[r].events
      BY <1>3, <3>1, <3>2
    <3>3. CASE counted'[r].events = diagEvents
      BY <1>3, <3>3
    <3>4. CASE counted'[r].events = NoEvents
      BY <1>3, <3>4 DEF NoEvents
    <3> QED BY <3>2, <3>3, <3>4, ReportsCome
  <2>2. ASSUME NEW s \in DiagSymbols PROVE diagJob'.counts.events[s] <= diagEvents'[s]
    <3>1. diagJob.counts.events[s] \in Nat /\ diagJob.counts.events[s] <= diagEvents[s]
      BY DEF KnownEvents, DiagInv, DiagTypeOK, Counts
    <3>2. \A r \in Runs : counted[r].events[s] \in Nat /\ counted[r].events[s] <= diagEvents[s]
      BY DEF KnownEvents, DiagInv, DiagTypeOK, Counts
    <3>3. diagJob'.counts = diagJob.counts \/ \E r \in Runs : diagJob'.counts = counted[r]
      BY ReportsCome
    <3> QED BY <1>3, <3>1, <3>2, <3>3
  <2> QED BY <2>1, <2>2 DEF KnownEvents
<1>6. Settled(diagJob') => AllCompleted'
  <2>1. CASE diagJob' = diagJob
    BY <1>4, <2>1
  <2>2. CASE diagJob'.status \in {"PENDING", "RUNNING"}
    BY <2>2 DEF Settled
  <2>3. ASSUME NEW r \in sessions, r \in Runs, at[r] = "save", diagJob'.status = StatusOf(counted[r]),
               diagJob'.counts = counted[r], Settled(diagJob')
        PROVE  AllCompleted'
    <3>1. counted[r].open = {} /\ counted[r].failed = {} /\ counted[r].completed # {}
      BY <2>3 DEF Settled, StatusOf
    <3>2. /\ RowsWith({"PENDING", "RUNNING"}) = {} /\ RowsWith({"FAILED"}) = {}
          /\ RowsWith({"COMPLETED"}) # {}
      BY <2>3, <3>1 DEF DiagInv, Counted
    <3>3. \A s \in DiagSymbols : diagRows[s] \in {"ABSENT", "COMPLETED"}
      BY <3>2 DEF RowsWith, DiagInv, DiagTypeOK, RowStatus
    <3>4. AllCompleted
      BY <3>2, <3>3 DEF RowsWith, RowsTogether, AllCompleted
    <3> QED BY <1>4, <3>4
  <2> QED BY <2>1, <2>2, <2>3, ReportsCome
<1> QED BY <1>1, <1>2, <1>3, <1>4, <1>5, <1>6

EventCounts == [DiagSymbols -> Nat]
JobRecords == [status : {"ABSENT", "PENDING", "RUNNING"} \cup DiagTerminal, counts : Counts]
BeforeSlices == {"before", "dispatch", "poll", "final"}
ClientStages == BeforeSlices \cup {"slice", "done", "raised"}

\* What the client has read is in the order in which it read it, and not ahead
\* of the tables; the slices of a settled status are those of a whole run.
ClientTyped ==
    /\ client = [stage |-> client.stage, left |-> client.left, done |-> client.done,
                 failed |-> client.failed, final |-> client.final, slices |-> client.slices]
    /\ client.stage \in ClientStages
    /\ client.final \in JobRecords
    /\ client.slices \in Seq(EventCounts)
ReadInOrder ==
    /\ ClientTyped
    /\ client.stage \in BeforeSlices => client.slices = <<>>
    /\ client.stage \in {"slice", "done"} =>
        /\ \A s \in DiagSymbols : client.final.counts.events[s] <= diagEvents[s]
        /\ Settled(client.final) => AllCompleted
    /\ \A n \in DOMAIN client.slices : \A s \in DiagSymbols : client.slices[n][s] <= diagEvents[s]
    /\ SlicesFollowStatus

ClientInv == JobInv /\ ReadInOrder

\* The columns of a row are its gates, as far as there was a candidate.
LEMMA ColumnsAre ==
    ASSUME NEW row \in EventRecords
    PROVE  /\ DOMAIN Columns(row) = 1..13 /\ DOMAIN Gates(ShortMode, row.side, row.snap) = 1..13
           /\ \A n \in 1..13 : Columns(row)[n] <=> Gates(ShortMode, row.side, row.snap)[n] /\ (n > 5 => ~ row.snap.tiny)
           /\ Gates(ShortMode, row.side, row.snap)[5] <=> ~ row.snap.tiny
<1> DEFINE g == Gates(ShortMode, row.side, row.snap)
<1>0. DOMAIN g = 1..13
  BY DEF Gates
<1>1. DOMAIN g = 1..13 /\ (g[5] <=> ~ row.snap.tiny)
  <2>1. g[5] <=> ~ row.snap.tiny
    BY DEF Gates
  <2> QED BY <1>0, <2>1
<1>2. Columns(row) = [n \in DOMAIN g |-> g[n] /\ (n > 5 => ~ row.snap.tiny)]
  BY DEF Columns
<1> HIDE DEF g
<1>3. \A n \in 1..13 : Columns(row)[n] = (g[n] /\ (n > 5 => ~ row.snap.tiny))
  BY <1>1, <1>2
<1> QED BY <1>1, <1>2, <1>3 DEF g

\* The least of failed places, if a place fails.
LEMMA LeastFailed ==
    ASSUME NEW S \in SUBSET (1..14), NEW m \in S, \A n \in S : m <= n
    PROVE  Min(S) = m
<1>1. S \in SUBSET Int /\ S # {} /\ 1 \in Int /\ \A n \in S : 1 <= n
  OBVIOUS
<1>2. Min(S) \in S /\ \A n \in S : Min(S) <= n
  BY <1>1, MinOf
<1> DEFINE x == Min(S)
<1> HIDE DEF x
<1>3. x \in S /\ \A n \in S : x <= n
  BY <1>2 DEF x
<1>4. x \in Int /\ m \in Int /\ x <= m /\ m <= x
  BY <1>3
<1>5. x = m
  BY <1>4
<1> QED BY <1>5 DEF x

\* The first gate that fails is the first column that is not passed.
LEMMA FunnelsAgree ==
    ASSUME NEW row \in EventRecords
    PROVE  /\ LostAt(Funnel(Columns(row))) = FirstFailed(ShortMode, row.side, row.snap)
           /\ LostAt(Funnel(Columns(row))) = 0 <=> LostAt(OldFunnel(Columns(row))) = 0
<1> DEFINE g == Gates(ShortMode, row.side, row.snap)
           p == Columns(row)
           failed == {n \in DOMAIN g : ~ g[n]}
           gone == {n \in DOMAIN Funnel(p) : ~ Funnel(p)[n]}
           oldGone == {n \in DOMAIN OldFunnel(p) : ~ OldFunnel(p)[n]}
<1>1. /\ LostAt(Funnel(p)) = IF gone = {} THEN 0 ELSE Min(gone)
      /\ LostAt(OldFunnel(p)) = IF oldGone = {} THEN 0 ELSE Min(oldGone)
      /\ FirstFailed(ShortMode, row.side, row.snap) = IF failed = {} THEN 0 ELSE Min(failed)
  BY DEF LostAt, FirstFailed, FirstGate
<1>2. /\ DOMAIN g = 1..13
      /\ \A n \in 1..13 : p[n] <=> g[n] /\ (n > 5 => g[5])
  BY ColumnsAre
<1>3. StrictTrade(p) <=> \A n \in (1..4) \cup (6..13) : p[n]
  BY DEF StrictTrade, StrictEligible
<1>4. /\ gone = {n \in 1..14 : IF n = 14 THEN ~ StrictTrade(p) ELSE ~ p[n]}
      /\ oldGone = {n \in 1..11 : IF n = 11 THEN ~ StrictTrade(p) ELSE IF n = 10 THEN ~ p[3] ELSE ~ p[n + 4]}
  BY DEF Funnel, OldFunnel
<1>5. failed = {n \in 1..13 : ~ g[n]}
  BY <1>2
<1> HIDE DEF g, p, failed, gone, oldGone
<1>6. gone = {} <=> failed = {}
  BY <1>2, <1>3, <1>4, <1>5
<1>7. gone = {} <=> oldGone = {}
  <2>1. gone = {} <=> \A n \in 1..13 : p[n]
    BY <1>3, <1>4
  <2>2. oldGone = {} => \A n \in 1..13 : p[n]
    <3> SUFFICES ASSUME oldGone = {}, NEW n \in 1..13 PROVE p[n]
      OBVIOUS
    <3>1. StrictTrade(p)
      BY <1>4
    <3>2. CASE n = 5
      <4>1. 1 \notin oldGone
        OBVIOUS
      <4> QED BY <3>2, <4>1, <1>4
    <3> QED BY <1>3, <3>1, <3>2
  <2>3. (\A n \in 1..13 : p[n]) => oldGone = {}
    BY <1>3, <1>4
  <2> QED BY <2>1, <2>2, <2>3
<1>8. ASSUME failed # {} PROVE Min(gone) = Min(failed)
  <2>1. failed \in SUBSET Int /\ 1 \in Int /\ \A n \in failed : 1 <= n
    BY <1>5
  <2>2. Min(failed) \in failed /\ \A n \in failed : Min(failed) <= n
    BY <1>8, <2>1, MinOf
  <2> DEFINE m == Min(failed)
  <2> HIDE DEF m
  <2>3. m \in 1..13 /\ ~ g[m] /\ \A n \in 1..13 : ~ g[n] => m <= n
    BY <1>5, <2>2 DEF m
  <2>4. m \in gone
    BY <1>2, <1>4, <2>3
  <2>5. \A n \in gone : m <= n
    <3> SUFFICES ASSUME NEW n \in gone, n \in 1..14 PROVE m <= n
      BY <1>4
    <3>1. CASE n = 14
      BY <2>3, <3>1
    <3>2. CASE n # 14
      <4>1. n \in 1..13 /\ ~ p[n]
        BY <3>2, <1>4
      <4>2. ~ g[n] \/ (n > 5 /\ ~ g[5])
        BY <1>2, <4>1
      <4> QED BY <2>3, <4>1, <4>2
    <3> QED BY <3>1, <3>2
  <2>6. gone \in SUBSET (1..14)
    BY <1>4
  <2>7. Min(gone) = m
    BY <2>4, <2>5, <2>6, LeastFailed
  <2> QED BY <2>7 DEF m
<1>9. LostAt(Funnel(p)) = FirstFailed(ShortMode, row.side, row.snap)
  BY <1>1, <1>6, <1>8
<1>10. LostAt(Funnel(p)) = 0 <=> LostAt(OldFunnel(p)) = 0
  <2>1. gone # {} => Min(gone) # 0
    <3> SUFFICES ASSUME gone # {} PROVE Min(gone) # 0
      OBVIOUS
    <3>1. gone \in SUBSET Int /\ 1 \in Int /\ \A n \in gone : 1 <= n
      BY <1>4
    <3> QED BY <3>1, MinOf
  <2>2. oldGone # {} => Min(oldGone) # 0
    <3> SUFFICES ASSUME oldGone # {} PROVE Min(oldGone) # 0
      OBVIOUS
    <3>1. oldGone \in SUBSET Int /\ 1 \in Int /\ \A n \in oldGone : 1 <= n
      BY <1>4
    <3> QED BY <3>1, MinOf
  <2> QED BY <1>1, <1>7, <2>1, <2>2
<1> QED BY <1>9, <1>10 DEF p

\* Each cohort lies in the one before it and in its older namesake.
LEMMA CohortsNest ==
    ASSUME NEW rows, rows \subseteq EventRecords
    PROVE  CohortsAreNested(rows)
<1> SUFFICES ASSUME NEW row \in rows, NEW cohort \in 2..7, Cohort(Columns(row), cohort)
    PROVE  /\ Cohort(Columns(row), cohort - 1)
           /\ cohort >= 4 => OldCohort(Columns(row), cohort)
  BY DEF CohortsAreNested, EdgeRows, OldEdgeRows
<1> DEFINE p == Columns(row)
<1>1. \A n \in 1..13 : n > 5 /\ p[n] => p[5]
  BY ColumnsAre
<1> HIDE DEF p
<1>2. Cohort(p, cohort)
  BY DEF p
<1>3. Cohort(p, cohort - 1)
  BY <1>2 DEF Cohort
<1>4. cohort >= 4 => OldCohort(p, cohort)
  <2> SUFFICES ASSUME cohort >= 4 PROVE OldCohort(p, cohort)
    OBVIOUS
  <2>1. p[6] /\ p[7] /\ p[5]
    BY <1>1, <1>2 DEF Cohort
  <2>2. cohort \in {4, 5, 6, 7}
    OBVIOUS
  <2>3. CASE cohort = 4
    BY <2>1, <2>3 DEF OldCohort
  <2>4. CASE cohort = 5
    BY <1>2, <2>1, <2>4 DEF OldCohort, Cohort
  <2>5. CASE cohort = 6
    BY <1>2, <2>1, <2>5 DEF OldCohort, Cohort
  <2>6. CASE cohort = 7
    BY <1>2, <2>1, <2>6 DEF OldCohort, Cohort
  <2> QED BY <2>2, <2>3, <2>4, <2>5, <2>6
<1> QED BY <1>3, <1>4 DEF p
\* The client begins in its invariant.
LEMMA ClientStarts == GateReportInit => ClientInv
<1> SUFFICES ASSUME GateReportInit PROVE ClientInv
  OBVIOUS
<1>1. JobInv
  BY JobStarts DEF GateReportInit
<1>2. client = NoClient /\ diagJob \in JobRecords
  BY <1>1 DEF GateReportInit, JobInv, DiagInv, DiagTypeOK, JobRecords
<1>3. client.slices = <<>> /\ client.stage = "before" /\ DOMAIN client.slices = {}
  BY <1>2, EmptyDomain DEF NoClient
<1>4. ClientTyped
  BY <1>2 DEF ClientTyped, NoClient, ClientStages, BeforeSlices
<1>5. ReadInOrder
  BY <1>3, <1>4 DEF ReadInOrder, BeforeSlices, SlicesFollowStatus
<1> QED BY <1>1, <1>5 DEF ClientInv

\* A step that reads nothing for the reports leaves them in order.
LEMMA ClientKeeps ==
    ASSUME ClientInv, [DiagNext]_diagVars, ClientTyped',
           client'.slices = client.slices, client'.final = client.final,
           client'.stage \in BeforeSlices => client.stage \in BeforeSlices,
           client'.stage \in {"slice", "done"} => client.stage \in {"slice", "done"}
    PROVE  ReadInOrder'
<1>1. /\ \A s \in DiagSymbols : diagEvents[s] <= diagEvents'[s]
      /\ AllCompleted => AllCompleted'
      /\ JobInv'
  BY JobSteps DEF ClientInv
<1>2. \A s \in DiagSymbols : diagEvents[s] \in Nat /\ diagEvents'[s] \in Nat
  BY <1>1 DEF ClientInv, JobInv, DiagInv, DiagTypeOK
<1>3. /\ \A s \in DiagSymbols : client.final.counts.events[s] \in Nat
      /\ \A n \in DOMAIN client.slices : \A s \in DiagSymbols : client.slices[n][s] \in Nat
  <2>1. client.final.counts.events \in [DiagSymbols -> Nat]
    BY DEF ClientInv, ReadInOrder, ClientTyped, JobRecords, Counts
  <2>2. \A n \in DOMAIN client.slices : client.slices[n] \in EventCounts
    BY DEF ClientInv, ReadInOrder, ClientTyped
  <2> QED BY <2>1, <2>2 DEF EventCounts
<1>4. client'.stage \in BeforeSlices => client'.slices = <<>>
  BY DEF ClientInv, ReadInOrder
<1>5. client'.stage \in {"slice", "done"} =>
        /\ \A s \in DiagSymbols : client'.final.counts.events[s] <= diagEvents'[s]
        /\ Settled(client'.final) => AllCompleted'
  <2> SUFFICES ASSUME client'.stage \in {"slice", "done"}
      PROVE  /\ \A s \in DiagSymbols : client'.final.counts.events[s] <= diagEvents'[s]
             /\ Settled(client'.final) => AllCompleted'
    OBVIOUS
  <2>1. \A s \in DiagSymbols : client.final.counts.events[s] <= diagEvents[s]
    BY DEF ClientInv, ReadInOrder
  <2>2. Settled(client.final) => AllCompleted
    BY DEF ClientInv, ReadInOrder
  <2> QED BY <1>1, <1>2, <1>3, <2>1, <2>2
<1>6. \A n \in DOMAIN client'.slices : \A s \in DiagSymbols : client'.slices[n][s] <= diagEvents'[s]
  <2>1. \A n \in DOMAIN client.slices : \A s \in DiagSymbols : client.slices[n][s] <= diagEvents[s]
    BY DEF ClientInv, ReadInOrder
  <2> QED BY <1>1, <1>2, <1>3, <2>1
<1>7. SlicesFollowStatus'
  <2>1. SlicesFollowStatus
    BY DEF ClientInv, ReadInOrder
  <2> QED BY <2>1 DEF SlicesFollowStatus
<1> QED BY <1>4, <1>5, <1>6, <1>7 DEF ReadInOrder

\* The status is read: its counts are not ahead of the table.
LEMMA FinalStatusStep ==
    ASSUME ClientInv, ReadFinalStatus
    PROVE  ReadInOrder'
<1>1. /\ client'.stage = "slice" /\ client'.final = diagJob /\ client'.slices = <<>>
      /\ ClientTyped' /\ DOMAIN client'.slices = {}
  <2>1. client.slices = <<>> /\ ClientTyped
    BY DEF ReadFinalStatus, ClientAt, ClientInv, ReadInOrder, BeforeSlices
  <2>2. client'.stage = "slice" /\ client'.final = diagJob /\ client'.slices = <<>>
    BY <2>1 DEF ReadFinalStatus, ClientTyped
  <2>3. client' = [stage |-> client'.stage, left |-> client'.left, done |-> client'.done,
                   failed |-> client'.failed, final |-> client'.final, slices |-> client'.slices]
    BY <2>1 DEF ReadFinalStatus, ClientTyped
  <2>4. diagJob \in JobRecords
    BY DEF ClientInv, JobInv, DiagInv, DiagTypeOK, JobRecords
  <2>5. ClientTyped'
    BY <2>2, <2>3, <2>4 DEF ClientTyped, ClientStages
  <2> QED BY <2>2, <2>5, EmptyDomain
<1>2. UNCHANGED diagVars
  BY DEF ReadFinalStatus
<1>3. diagEvents' = diagEvents /\ diagRows' = diagRows
  BY <1>2 DEF diagVars
<1>4. /\ \A s \in DiagSymbols : diagJob.counts.events[s] <= diagEvents[s]
      /\ Settled(diagJob) => AllCompleted
  BY DEF ClientInv, JobInv, KnownEvents
<1>5. AllCompleted <=> AllCompleted'
  BY <1>3 DEF AllCompleted
<1>6. SlicesFollowStatus'
  BY <1>1 DEF SlicesFollowStatus
<1> QED BY <1>1, <1>3, <1>4, <1>5, <1>6 DEF ReadInOrder, BeforeSlices

\* A slice is read: it is what the table holds now.
LEMMA SliceStep ==
    ASSUME ClientInv, ReadSlice
    PROVE  ReadInOrder'
<1>1. UNCHANGED diagVars
  BY DEF ReadSlice
<1>2. diagEvents' = diagEvents /\ diagRows' = diagRows
  BY <1>1 DEF diagVars
<1>3. ReadInOrder /\ client.stage = "slice" /\ ClientTyped
  BY DEF ClientInv, ReadInOrder, ReadSlice, ClientAt
<1> DEFINE old == client.slices
           new == client'.slices
           size == Len(old)
<1>4. /\ new = Append(old, diagEvents) /\ client'.final = client.final
      /\ client'.stage \in {"slice", "done"}
      /\ client' = [stage |-> client'.stage, left |-> client'.left, done |-> client'.done,
                    failed |-> client'.failed, final |-> client'.final, slices |-> new]
  BY <1>3 DEF ReadSlice, ClientTyped
<1>5. old \in Seq(EventCounts) /\ diagEvents \in EventCounts
  BY <1>3 DEF ClientTyped, ClientInv, JobInv, DiagInv, DiagTypeOK, EventCounts
<1> HIDE DEF old, new
<1>6. /\ new \in Seq(EventCounts) /\ DOMAIN new = 1..size + 1 /\ DOMAIN old = 1..size /\ size \in Nat
      /\ new[size + 1] = diagEvents /\ \A n \in 1..size : new[n] = old[n]
  BY <1>4, <1>5
<1> HIDE DEF size
<1>7. ClientTyped'
  BY <1>3, <1>4, <1>6 DEF ClientTyped, ClientStages, new
<1>8. AllCompleted <=> AllCompleted'
  BY <1>2 DEF AllCompleted
<1>9. /\ \A s \in DiagSymbols : client.final.counts.events[s] <= diagEvents[s]
      /\ Settled(client.final) => AllCompleted
      /\ \A n \in 1..size : \A s \in DiagSymbols : old[n][s] <= diagEvents[s]
  BY <1>3, <1>6 DEF ReadInOrder, old
<1>10. \A n \in DOMAIN new : \A s \in DiagSymbols : new[n][s] <= diagEvents[s]
  <2>1. \A s \in DiagSymbols : diagEvents[s] \in Nat
    BY <1>5 DEF EventCounts
  <2> QED BY <1>6, <1>9, <2>1
<1>11. \A n \in DOMAIN new : \A s \in DiagSymbols :
          /\ client.final.counts.events[s] <= new[n][s]
          /\ n > 1 => new[n - 1][s] <= new[n][s]
          /\ Settled(client.final) => new[n][s] = DiagEventCount[s]
  <2> SUFFICES ASSUME NEW n \in DOMAIN new, NEW s \in DiagSymbols
      PROVE  /\ client.final.counts.events[s] <= new[n][s]
             /\ n > 1 => new[n - 1][s] <= new[n][s]
             /\ Settled(client.final) => new[n][s] = DiagEventCount[s]
    OBVIOUS
  <2>1. CASE n = size + 1
    <3>1. new[n] = diagEvents /\ (n > 1 => n - 1 \in 1..size)
      BY <1>6, <2>1
    <3>2. n > 1 => new[n - 1][s] <= new[n][s]
      BY <1>6, <1>9, <3>1
    <3>3. AllCompleted => diagEvents[s] = DiagEventCount[s]
      BY DEF AllCompleted, ClientInv, JobInv, DiagInv, DiagnosticsAreWhole
    <3> QED BY <1>9, <3>1, <3>2, <3>3
  <2>2. CASE n \in 1..size
    <3>1. /\ client.final.counts.events[s] <= old[n][s]
          /\ n > 1 => old[n - 1][s] <= old[n][s]
          /\ Settled(client.final) => old[n][s] = DiagEventCount[s]
      <4>1. SlicesFollowStatus /\ n \in DOMAIN old
        BY <1>3, <1>6, <2>2 DEF ReadInOrder
      <4> QED BY <4>1 DEF SlicesFollowStatus, Settled, old
    <3>2. new[n] = old[n] /\ (n > 1 => n - 1 \in 1..size)
      BY <1>6, <2>2
    <3>3. n > 1 => new[n - 1] = old[n - 1]
      BY <1>6, <3>2
    <3> QED BY <3>1, <3>2, <3>3
  <2> QED BY <1>6, <2>1, <2>2
<1>12. SlicesFollowStatus'
  BY <1>4, <1>11 DEF SlicesFollowStatus, Settled, new
<1>13. client'.stage \notin BeforeSlices
  BY <1>4 DEF BeforeSlices
<1> QED BY <1>2, <1>4, <1>7, <1>8, <1>9, <1>10, <1>12, <1>13 DEF ReadInOrder, new

\* Whatever runs beside the client, its invariant is kept.
LEMMA ClientSteps == ClientInv /\ [GateReportNext]_<<diagVars, client>> => ClientInv'
<1> SUFFICES ASSUME ClientInv, [GateReportNext]_<<diagVars, client>> PROVE ClientInv'
  OBVIOUS
<1>0. ClientTyped /\ ReadInOrder
  BY DEF ClientInv, ReadInOrder
<1>1. [DiagNext]_diagVars
  <2>1. ASSUME NEW r \in Runs, Connect(r) PROVE DiagNext
    BY <2>1 DEF DiagNext, Batch
  <2> QED BY <2>1 DEF GateReportNext, ClientStep, CheckBefore, DispatchBatch, PollStatus, ClientRaises,
                      ReadFinalStatus, ReadSlice
<1>2. JobInv'
  BY <1>1, JobSteps DEF ClientInv
<1>3. CASE client' = client
  <2>1. ClientTyped'
    BY <1>0, <1>3 DEF ClientTyped
  <2> QED BY <1>1, <1>2, <1>3, <2>1, ClientKeeps DEF ClientInv
<1>4. CASE CheckBefore \/ DispatchBatch \/ PollStatus \/ ClientRaises
  <2>1. /\ client'.slices = client.slices /\ client'.final = client.final
        /\ \/ client.stage \in BeforeSlices /\ client'.stage \in BeforeSlices
           \/ client'.stage = "raised"
        /\ client' = [stage |-> client'.stage, left |-> client'.left, done |-> client'.done,
                      failed |-> client'.failed, final |-> client'.final, slices |-> client'.slices]
    <3>1. CASE CheckBefore
      BY <1>0, <3>1 DEF CheckBefore, ClientAt, ClientGoes, ClientTyped, BeforeSlices
    <3>2. CASE DispatchBatch
      BY <1>0, <3>2 DEF DispatchBatch, ClientAt, ClientGoes, ClientTyped, BeforeSlices
    <3>3. CASE PollStatus
      BY <1>0, <3>3 DEF PollStatus, ClientAt, ClientGoes, ClientTyped, BeforeSlices
    <3>4. CASE ClientRaises
      BY <1>0, <3>4 DEF ClientRaises, ClientGoes, ClientTyped
    <3> QED BY <1>4, <3>1, <3>2, <3>3, <3>4
  <2>2. ClientTyped'
    BY <1>0, <2>1 DEF ClientTyped, ClientStages, BeforeSlices
  <2>3. /\ client'.stage \in BeforeSlices => client.stage \in BeforeSlices
        /\ client'.stage \in {"slice", "done"} => client.stage \in {"slice", "done"}
    BY <2>1 DEF BeforeSlices
  <2> QED BY <1>1, <1>2, <2>1, <2>2, <2>3, ClientKeeps DEF ClientInv
<1>5. CASE ReadFinalStatus
  BY <1>2, <1>5, FinalStatusStep DEF ClientInv
<1>6. CASE ReadSlice
  BY <1>2, <1>6, SliceStep DEF ClientInv
<1> QED BY <1>3, <1>4, <1>5, <1>6 DEF GateReportNext, ClientStep

\* Whatever runs beside the client: its slices come after its status and grow,
\* those of a COMPLETED status are whole, the funnel loses a row where the row
\* says it failed, and the cohorts are nested.
THEOREM ReportsAreTrueHolds == GateReportSpec => []ReportsAreTrue
<1>1. ClientInv => ReportsAreTrue
  <2> SUFFICES ASSUME ClientInv PROVE ReportsAreTrue
    OBVIOUS
  <2>1. SlicesFollowStatus
    BY DEF ClientInv, ReadInOrder
  <2>2. \A events, slice, primary : RowsOf(events, slice, primary) \subseteq EventRecords
    BY GateReportAssumption DEF RowsOf, StoredRows
  <2>3. \A events, slice, primary :
            /\ FunnelNamesFailures(RowsOf(events, slice, primary))
            /\ CohortsAreNested(RowsOf(events, slice, primary))
    BY <2>2, FunnelsAgree, CohortsNest DEF FunnelNamesFailures
  <2> QED BY <2>1, <2>3 DEF ReportsAreTrue
<1> QED BY <1>1, ClientStarts, ClientSteps, PTL DEF GateReportSpec
-----------------------------------------------------------------------------
(* The historical replay of a symbol *)

\* Slots are numbers, and finitely many.
LEMMA SlotSets ==
    ASSUME NEW keys \in SUBSET (0..Slots - 1)
    PROVE  /\ IsFiniteSet(keys) /\ Cardinality(keys) \in Nat /\ Cardinality(keys) <= Slots
           /\ \A s \in SUBSET keys : Cardinality(s) \in Nat /\ Cardinality(s) <= Cardinality(keys)
<1>1. Slots \in Nat /\ Slots - 1 \in Int
  BY ReplayAssumption
<1>2. IsFiniteSet(0..Slots - 1) /\ Cardinality(0..Slots - 1) = Slots
  BY <1>1, FS_Interval
<1>3. IsFiniteSet(keys) /\ Cardinality(keys) <= Slots
  BY <1>2, FS_Subset
<1>4. ASSUME NEW s \in SUBSET keys PROVE Cardinality(s) \in Nat /\ Cardinality(s) <= Cardinality(keys)
  BY <1>3, FS_Subset, FS_CardinalityType
<1> QED BY <1>3, <1>4, FS_CardinalityType

\* The sorted bars are bars, and each is later than the one before it.
LEMMA SortedBars ==
    ASSUME NEW keys \in SUBSET Nat, IsFiniteSet(keys)
    PROVE  /\ Sorted(keys) \in Seq(Nat) /\ Len(Sorted(keys)) = Cardinality(keys)
           /\ \A i \in DOMAIN Sorted(keys) : Sorted(keys)[i] \in keys
           /\ \A i, j \in DOMAIN Sorted(keys) : i < j => Sorted(keys)[i] < Sorted(keys)[j]
<1> DEFINE below(s) == {t \in keys : t <= s}
           upTo(s) == Cardinality(below(s))
           size == Cardinality(keys)
           reached(n) == {s \in keys : upTo(s) >= n}
           least(n) == Min(reached(n))
<1>1. size \in Nat /\ \A s : IsFiniteSet(below(s)) /\ upTo(s) \in Nat
  <2>1. \A s : below(s) \in SUBSET keys
    OBVIOUS
  <2> HIDE DEF below
  <2> QED BY <2>1, FS_CardinalityType, FS_Subset
<1>2. Sorted(keys) = [n \in 1..size |-> least(n)]
  BY DEF Sorted
<1>3. ASSUME NEW S \in SUBSET keys, S # {} PROVE \E high \in S : \A s \in S : s <= high
  <2> DEFINE f == [s \in S |-> s]
  <2>1. IsFiniteSet(S) /\ \A s \in S : f[s] \in Int
    <3>1. \A s \in S : f[s] \in Int
      OBVIOUS
    <3> QED BY <1>3, <3>1, FS_Subset
  <2>2. \E high \in S : \A s \in S : f[s] <= f[high]
    <3> HIDE DEF f
    <3> QED BY <1>3, <2>1, GreatestOfFinite
  <2> QED BY <2>2
<1>4. ASSUME NEW n \in 1..size
      PROVE  least(n) \in reached(n) /\ (\A s \in reached(n) : least(n) <= s)
  <2>1. keys # {}
    BY <1>1, FS_EmptySet
  <2>2. PICK high \in keys : \A s \in keys : s <= high
    BY <1>3, <2>1
  <2>3. below(high) = keys
    BY <2>2
  <2>4. upTo(high) = size
    BY <2>3
  <2> HIDE DEF below, upTo, size
  <2>5. high \in reached(n)
    BY <1>1, <2>4
  <2> DEFINE R == reached(n)
  <2>6. high \in R /\ \A s \in R : s \in Nat
    BY <2>5
  <2> HIDE DEF R
  <2>7. R \in SUBSET Int /\ R # {} /\ 0 \in Int /\ \A s \in R : 0 <= s
    BY <2>6
  <2>8. Min(R) \in R /\ \A s \in R : Min(R) <= s
    BY <2>7, MinOf
  <2> QED BY <2>8 DEF R
<1>5. ASSUME NEW i \in 1..size, NEW j \in 1..size, i < j
      PROVE  least(i) < least(j)
  <2> DEFINE m == least(j)
             before == below(m) \ {m}
  <2>1. m \in keys /\ m \in Nat /\ upTo(m) >= j
    BY <1>4
  <2>2. least(i) \in keys /\ least(i) \in Nat /\ \A s \in reached(i) : least(i) <= s
    BY <1>4
  <2> HIDE DEF least, m
  <2>3. m \in below(m)
    BY <2>1
  <2>4. IsFiniteSet(before) /\ Cardinality(before) = upTo(m) - 1
    <3> HIDE DEF below
    <3> QED BY <1>1, <2>3, FS_RemoveElement
  <2>5. before # {}
    <3>1. Cardinality(before) # 0
      <4> HIDE DEF before, upTo
      <4> QED BY <1>1, <2>1, <2>4, <1>5
    <3> HIDE DEF before
    <3> QED BY <2>4, <3>1, FS_EmptySet
  <2>6. before \in SUBSET keys
    OBVIOUS
  <2>7. PICK high \in before : \A s \in before : s <= high
    <3> HIDE DEF before
    <3> QED BY <1>3, <2>5, <2>6
  <2>8. \A s \in keys : s \in Nat
    OBVIOUS
  <2>9. high \in keys /\ high < m
    BY <2>1, <2>8
  <2>10. below(high) = before
    <3>1. ASSUME NEW t \in keys PROVE t <= high <=> t <= m /\ t # m
      <4>1. t <= m /\ t # m => t <= high
        BY <2>7
      <4> QED BY <2>1, <2>8, <2>9, <4>1
    <3> QED BY <3>1
  <2>11. high \in reached(i)
    <3>1. upTo(high) = upTo(m) - 1
      BY <2>4, <2>10
    <3>2. i \in Int /\ j \in Int /\ upTo(m) \in Int
      <4>1. upTo(m) \in Nat /\ size \in Nat
        BY <1>1
      <4> HIDE DEF size, upTo
      <4> QED BY <4>1
    <3> HIDE DEF upTo
    <3>3. upTo(high) >= i
      BY ONLY <1>5, <2>1, <3>1, <3>2
    <3> QED BY <2>9, <3>3
  <2>12. least(i) <= high
    BY <2>2, <2>11
  <2> QED BY <2>1, <2>2, <2>8, <2>9, <2>12 DEF m
<1>6. \A n \in 1..size : least(n) \in keys /\ least(n) \in Nat
  BY <1>4
<1> HIDE DEF least, size
<1>7. /\ Sorted(keys) \in Seq(Nat) /\ Len(Sorted(keys)) = size /\ DOMAIN Sorted(keys) = 1..size
      /\ \A n \in 1..size : Sorted(keys)[n] = least(n)
  BY <1>1, <1>2, <1>6
<1> QED BY <1>5, <1>6, <1>7 DEF size

\* A page is the end of what is there up to the cursor, and it is all of it if
\* it is not full or begins with the first slot.
LEMMA PagesAreEnds ==
    ASSUME DOMAIN market \subseteq 0..Slots - 1, cursor \in 0..Slots - 1
    PROVE  /\ Page \subseteq Present(0, cursor)
           /\ \A s \in Page : \A t \in Present(0, cursor) : s <= t => t \in Page
           /\ Cardinality(Page) < PageLimit => Page = Present(0, cursor)
           /\ Cardinality(Page) >= PageLimit =>
                  Min(Page) \in Page /\ \A s \in Page : Min(Page) <= s
<1> DEFINE all == Present(0, cursor)
           after(s) == Present(s, cursor)
<1>1. Slots \in Nat /\ PageLimit \in Nat /\ PageLimit > 0
  BY ReplayAssumption
<1>2. all \in SUBSET (0..Slots - 1) /\ \A s \in all : after(s) \in SUBSET all
  BY DEF Present
<1>3. /\ Cardinality(all) \in Nat /\ IsFiniteSet(all)
      /\ \A s \in SUBSET all : Cardinality(s) \in Nat /\ Cardinality(s) <= Cardinality(all)
  BY <1>2, SlotSets
<1>4. Page = {s \in all : Cardinality(after(s)) <= PageLimit}
  BY DEF Page
<1>5. ASSUME NEW s \in Page, NEW t \in all, s <= t PROVE t \in Page
  <2>1. after(t) \subseteq after(s)
    BY <1>1, <1>2, <1>4, <1>5 DEF Present
  <2>2. Cardinality(after(t)) \in Nat /\ Cardinality(after(s)) \in Nat
    BY <1>2, <1>3, <1>4
  <2>3. Cardinality(after(t)) <= Cardinality(after(s))
    <3>1. after(s) \in SUBSET (0..Slots - 1)
      BY <1>2, <1>4
    <3> QED BY <2>1, <3>1, SlotSets
  <2>4. Cardinality(after(s)) <= PageLimit
    BY <1>4
  <2> QED BY <1>1, <1>4, <2>2, <2>3, <2>4
<1>6. ASSUME Cardinality(Page) < PageLimit, Page # all PROVE FALSE
  <2> DEFINE rest == all \ Page
  <2>1. rest \in SUBSET Int /\ rest # {} /\ Slots \in Int /\ \A s \in rest : s <= Slots
    BY <1>1, <1>2, <1>4, <1>6
  <2>2. PICK t \in rest : \A s \in rest : s <= t
    BY <2>1, GreatestInteger
  <2>3. after(t) \ {t} \subseteq Page
    <3> SUFFICES ASSUME NEW s \in after(t), s # t, s \notin Page PROVE FALSE
      OBVIOUS
    <3>1. s \in rest /\ t <= s /\ s \in Int /\ t \in Int
      BY <1>2, <2>1, <2>2 DEF Present
    <3> QED BY <2>2, <3>1
  <2>4. t \in after(t) /\ t \in all
    BY <1>2, <2>2 DEF Present
  <2>5. IsFiniteSet(after(t)) /\ Cardinality(after(t)) \in Nat
    <3>1. after(t) \in SUBSET all
      BY <1>2, <2>4
    <3> QED BY <1>3, <3>1, FS_Subset
  <2>6. Cardinality(after(t) \ {t}) = Cardinality(after(t)) - 1
    BY <2>4, <2>5, FS_RemoveElement
  <2>7. Cardinality(Page) \in Nat /\ Cardinality(after(t) \ {t}) <= Cardinality(Page)
    <3>1. Page \in SUBSET (0..Slots - 1) /\ Page \in SUBSET all
      BY <1>2, <1>4
    <3> QED BY <1>3, <2>3, <3>1, SlotSets
  <2>8. ~ (Cardinality(after(t)) <= PageLimit)
    BY <1>4, <2>2, <2>4
  <2> QED BY <1>1, <1>6, <2>5, <2>6, <2>7, <2>8
<1>7. ASSUME Cardinality(Page) >= PageLimit
      PROVE  Min(Page) \in Page /\ \A s \in Page : Min(Page) <= s
  <2>1. Page # {}
    BY <1>1, <1>7, FS_EmptySet
  <2>2. Page \in SUBSET Int /\ 0 \in Int /\ \A s \in Page : 0 <= s
    BY <1>1, <1>2, <1>4
  <2> QED BY <2>1, <2>2, MinOf
<1> HIDE DEF all, after
<1>8. Page \subseteq all
  BY <1>4
<1> QED BY <1>5, <1>6, <1>7, <1>8 DEF all
SignalRecords == [side : Directions, place : Nat, opened : Nat, exit : Nat, closed : Nat,
                  reason : {"TIME_EXIT", "TP2", "AMBIGUOUS_STOP_FIRST", "STOP"}, primary : BOOLEAN]

\* Paging: everything after the cursor was fetched; then everything is.
Fetching ==
    /\ DOMAIN market \subseteq 0..Slots - 1
    /\ stage = "fetch" =>
        /\ cursor \in 0..Slots - 1
        /\ fetched = {s \in DOMAIN market : s > cursor}
        /\ replayed = <<>>
        /\ \A side \in Directions : lastExit[side] = 0
    /\ stage # "fetch" => fetched = DOMAIN market /\ barIndex \in Nat \ {0}
    /\ starts \in Seq(Nat) /\ Len(starts) <= Slots
    /\ \A i, j \in DOMAIN starts : i <= j => starts[i] <= starts[j]

\* In a list of signals the primary ones are those that found none open, and
\* the last exit of a side is the latest end of a primary one.
Greedy(list, exits) ==
    NoOverlap =>
        /\ \A n \in DOMAIN list :
               list[n].primary <=> \A m \in 1..n - 1 :
                   ~ (list[m].side = list[n].side /\ list[m].primary /\ list[m].closed > list[n].opened)
        /\ \A n \in DOMAIN list : list[n].primary => list[n].closed <= exits[list[n].side]
        /\ \A side \in Directions :
               exits[side] = 0 \/ \E n \in DOMAIN list :
                   list[n].side = side /\ list[n].primary /\ list[n].closed = exits[side]

\* A signal is what the walk made of its bar.
SignalsStand ==
    \A n \in DOMAIN replayed :
        LET s == replayed[n]
        IN  /\ s.place \in Nat \ {0} /\ s.place + OutcomeBars <= Len(starts)
            /\ s.exit = ExitPlace(s.side, s.place)
            /\ s.reason = ExitReason(Touch(s.side, s.exit))

ReplayInv ==
    /\ Fetching /\ SignalsStand
    /\ replayed \in Seq(SignalRecords)
    /\ lastExit \in [Directions -> Nat]
    /\ Greedy(replayed, lastExit)

\* A signal is added that is primary if no primary one of its side is open.
LEMMA SignalAdded ==
    ASSUME NEW list \in Seq(SignalRecords), NEW exits \in [Directions -> Nat], Greedy(list, exits),
           NEW s \in SignalRecords, s.opened <= s.closed,
           s.primary <=> (NoOverlap => s.opened >= exits[s.side]),
           NEW later \in [Directions -> Nat],
           \A side \in Directions :
               later[side] = IF side = s.side /\ s.primary THEN s.closed ELSE exits[side]
    PROVE  Append(list, s) \in Seq(SignalRecords) /\ Greedy(Append(list, s), later)
<1> DEFINE more == Append(list, s)
           size == Len(list)
<1>1. /\ more \in Seq(SignalRecords) /\ size \in Nat /\ DOMAIN list = 1..size /\ DOMAIN more = 1..size + 1
      /\ more[size + 1] = s /\ \A n \in 1..size : more[n] = list[n] /\ list[n] \in SignalRecords
  OBVIOUS
<1> HIDE DEF more, size
<1>2. /\ \A n \in 1..size : /\ list[n].side \in Directions /\ list[n].opened \in Nat
                            /\ list[n].closed \in Nat /\ list[n].primary \in BOOLEAN
      /\ s.side \in Directions /\ s.opened \in Nat /\ s.closed \in Nat /\ s.primary \in BOOLEAN
  BY <1>1 DEF SignalRecords
<1>3. \A side \in Directions : exits[side] \in Nat /\ later[side] \in Nat
  OBVIOUS
<1>4. Greedy(more, later)
  <2> SUFFICES ASSUME NoOverlap PROVE Greedy(more, later)
    BY DEF Greedy
  <2>1. /\ \A n \in 1..size : list[n].primary <=> \A m \in 1..n - 1 :
               ~ (list[m].side = list[n].side /\ list[m].primary /\ list[m].closed > list[n].opened)
        /\ \A n \in 1..size : list[n].primary => list[n].closed <= exits[list[n].side]
        /\ \A side \in Directions :
               exits[side] = 0 \/ \E n \in 1..size :
                   list[n].side = side /\ list[n].primary /\ list[n].closed = exits[side]
    BY <1>1 DEF Greedy
  <2>2. s.primary <=> s.opened >= exits[s.side]
    OBVIOUS
  <2>3. ASSUME NEW n \in 1..size + 1
        PROVE  more[n].primary <=> \A m \in 1..n - 1 :
                   ~ (more[m].side = more[n].side /\ more[m].primary /\ more[m].closed > more[n].opened)
    <3>1. CASE n \in 1..size
      <4>1. \A m \in 1..n - 1 : m \in 1..size
        BY <1>1, <3>1
      <4> QED BY <1>1, <2>1, <3>1, <4>1
    <3>2. CASE n = size + 1
      <4>1. \A m \in 1..size : list[m].side = s.side /\ list[m].primary => list[m].closed <= exits[s.side]
        BY <2>1
      <4>2. s.primary => \A m \in 1..size :
                ~ (list[m].side = s.side /\ list[m].primary /\ list[m].closed > s.opened)
        BY <1>2, <1>3, <2>2, <4>1
      <4>3. ~ s.primary => \E m \in 1..size :
                list[m].side = s.side /\ list[m].primary /\ list[m].closed > s.opened
        <5> SUFFICES ASSUME ~ s.primary
            PROVE  \E m \in 1..size : list[m].side = s.side /\ list[m].primary /\ list[m].closed > s.opened
          OBVIOUS
        <5>1. exits[s.side] > s.opened
          BY <1>2, <1>3, <2>2
        <5>2. PICK m \in 1..size : list[m].side = s.side /\ list[m].primary /\ list[m].closed = exits[s.side]
          BY <1>2, <1>3, <2>1, <5>1
        <5> QED BY <5>1, <5>2
      <4>4. n - 1 = size
        BY <1>1, <3>2
      <4>5. more[n] = s /\ \A m \in 1..size : more[m] = list[m]
        BY <1>1, <3>2
      <4> DEFINE open == \E m \in 1..size : list[m].side = s.side /\ list[m].primary /\ list[m].closed > s.opened
      <4>6. s.primary <=> ~ open
        BY <1>2, <4>2, <4>3
      <4>7. ~ open <=> \A m \in 1..n - 1 :
                ~ (more[m].side = more[n].side /\ more[m].primary /\ more[m].closed > more[n].opened)
        BY <4>4, <4>5
      <4> HIDE DEF open
      <4>8. more[n].primary <=> ~ open
        BY <4>5, <4>6
      <4> QED BY <4>7, <4>8
    <3>3. n \in 1..size \/ n = size + 1
      BY <1>1
    <3> QED BY <3>1, <3>2, <3>3
  <2>4. ASSUME NEW n \in 1..size + 1, more[n].primary PROVE more[n].closed <= later[more[n].side]
    <3>1. CASE n \in 1..size
      <4>1. /\ list[n].closed <= exits[list[n].side] /\ list[n].side \in Directions /\ list[n].closed \in Nat
        BY <1>1, <1>2, <2>1, <2>4, <3>1
      <4>2. \A side \in Directions : exits[side] <= later[side]
        <5>1. s.primary => exits[s.side] <= s.closed
          BY ONLY <1>2, <1>3, <2>2, s.opened <= s.closed
        <5>2. ASSUME NEW side \in Directions PROVE exits[side] <= later[side]
          <6>1. later[side] = IF side = s.side /\ s.primary THEN s.closed ELSE exits[side]
            OBVIOUS
          <6> QED BY <1>3, <5>1, <6>1
        <5> QED BY <5>2
      <4> QED BY <1>1, <1>3, <3>1, <4>1, <4>2
    <3>2. CASE n = size + 1
      BY <1>1, <1>2, <2>4, <3>2
    <3> QED BY <1>1, <3>1, <3>2
  <2>5. ASSUME NEW side \in Directions
        PROVE  later[side] = 0 \/ \E n \in 1..size + 1 :
                   more[n].side = side /\ more[n].primary /\ more[n].closed = later[side]
    <3>1. CASE side = s.side /\ s.primary
      <4>1. size + 1 \in 1..size + 1
        BY <1>1
      <4> QED BY <1>1, <3>1, <4>1
    <3>2. CASE ~ (side = s.side /\ s.primary)
      <4>1. \A n \in 1..size : n \in 1..size + 1 /\ more[n] = list[n]
        BY <1>1
      <4> QED BY <2>1, <3>2, <4>1
    <3> QED BY <3>1, <3>2
  <2> QED BY <1>1, <2>3, <2>4, <2>5 DEF Greedy
<1> QED BY <1>1, <1>4 DEF more
\* The bar that ends a signal is in its horizon: the first that ends it, or
\* the last of all.
LEMMA ExitIs ==
    ASSUME NEW side, NEW place \in Nat
    PROVE  LET future == place + 1 .. place + OutcomeBars
               ends == {p \in future : Ended(Touch(side, p))}
               exit == ExitPlace(side, place)
           IN  /\ exit \in future /\ place + OutcomeBars \in future
               /\ \A p \in ends : exit <= p
               /\ IF ends = {} THEN exit = place + OutcomeBars ELSE exit \in ends
<1> DEFINE future == place + 1 .. place + OutcomeBars
           ends == {p \in future : Ended(Touch(side, p))}
           last == place + OutcomeBars
           exit == ExitPlace(side, place)
<1>1. OutcomeBars \in Nat /\ OutcomeBars > 0
  BY ReplayAssumption
<1>2. future \in SUBSET Int /\ last \in future /\ last \in Int /\ (\A p \in future : p <= last)
  BY <1>1
<1>3. ends \subseteq future
  OBVIOUS
<1>4. exit = Min(ends \cup {Max(future)})
  BY DEF ExitPlace
<1>5. \A p \in future : 0 <= p
  BY <1>1
<1> HIDE DEF future, ends, last, exit
<1>6. Max(future) = last
  <2>1. future # {}
    BY <1>2
  <2>2. Max(future) \in future /\ \A y \in future : Max(future) >= y
    BY <1>2, <2>1, MaxOf
  <2> DEFINE m == Max(future)
  <2> HIDE DEF m
  <2>3. m \in future /\ m \in Int /\ m >= last /\ m <= last
    BY <1>2, <2>2 DEF m
  <2>4. m = last
    BY <1>2, <2>3
  <2> QED BY <2>4 DEF m
<1>7. exit = Min(ends \cup {last})
  BY <1>4, <1>6
<1> DEFINE all == ends \cup {last}
<1>8. all \in SUBSET Int /\ all # {} /\ 0 \in Int /\ \A p \in all : 0 <= p
  BY <1>2, <1>3, <1>5
<1>9. Min(all) \in all /\ \A p \in all : Min(all) <= p
  <2> HIDE DEF all
  <2> QED BY <1>8, MinOf
<1>10. exit \in all /\ (\A p \in all : exit <= p)
  BY <1>7, <1>9
<1>11. exit \in future /\ (\A p \in ends : exit <= p)
  BY <1>2, <1>3, <1>10
<1>12. IF ends = {} THEN exit = last ELSE exit \in ends
  <2> SUFFICES ASSUME ends # {}, exit \notin ends PROVE FALSE
    BY <1>10
  <2>1. PICK p \in ends : TRUE
    OBVIOUS
  <2>2. exit = last /\ exit <= p /\ p <= last /\ p \in Int
    BY <1>2, <1>3, <1>10
  <2>3. p = last
    BY <1>2, <2>2
  <2> QED BY <2>2, <2>3
<1> QED BY <1>2, <1>11, <1>12 DEF future, ends, last, exit

\* What a signal of a bar of the walk is.
LEMMA SignalIs ==
    ASSUME ReplayInv, NEW side \in Directions, NEW place \in Nat \ {0}, place + OutcomeBars <= Len(starts)
    PROVE  LET s == Signal(side, place)
           IN  /\ s \in SignalRecords /\ s.side = side /\ s.place = place /\ s.opened <= s.closed
               /\ s.exit = ExitPlace(side, place)
               /\ s.reason = ExitReason(Touch(side, s.exit))
               /\ s.primary <=> (NoOverlap => s.opened >= lastExit[side])
<1> DEFINE exit == ExitPlace(side, place)
<1>1. exit \in place + 1 .. place + OutcomeBars
  BY ExitIs
<1>2. /\ starts \in Seq(Nat) /\ OutcomeBars \in Nat
      /\ \A i, j \in DOMAIN starts : i <= j => starts[i] <= starts[j]
  BY ReplayAssumption DEF ReplayInv, Fetching
<1> HIDE DEF exit
<1>3. exit \in Nat /\ place \in DOMAIN starts /\ exit \in DOMAIN starts /\ place <= exit
  BY <1>1, <1>2
<1>4. CloseOf(place) \in Nat /\ CloseOf(exit) \in Nat /\ CloseOf(place) <= CloseOf(exit)
  <2>1. starts[place] \in Nat /\ starts[exit] \in Nat
    BY <1>2, <1>3
  <2>2. starts[place] <= starts[exit]
    BY <1>2, <1>3
  <2> QED BY <2>1, <2>2 DEF CloseOf
<1> DEFINE primary == NoOverlap => CloseOf(place) >= lastExit[side]
           reason == ExitReason(Touch(side, exit))
<1>5. primary \in BOOLEAN /\ reason \in {"TIME_EXIT", "TP2", "AMBIGUOUS_STOP_FIRST", "STOP"}
  <2>1. primary \in BOOLEAN
    OBVIOUS
  <2>2. reason \in {"TIME_EXIT", "TP2", "AMBIGUOUS_STOP_FIRST", "STOP"}
    BY DEF ExitReason
  <2> QED BY <2>1, <2>2
<1>6. Signal(side, place) = [side |-> side, place |-> place, opened |-> CloseOf(place),
                             exit |-> exit, closed |-> CloseOf(exit), reason |-> reason, primary |-> primary]
  BY DEF Signal, exit
<1>7. (primary <=> (NoOverlap => CloseOf(place) >= lastExit[side])) /\ reason = ExitReason(Touch(side, exit))
  OBVIOUS
<1> HIDE DEF primary, reason
<1>8. Signal(side, place) \in SignalRecords
  BY <1>3, <1>4, <1>5, <1>6 DEF SignalRecords
<1> QED BY <1>4, <1>6, <1>7, <1>8 DEF exit
\* A replay begins in its invariant.
LEMMA ReplayStarts == ReplayInit => ReplayInv
<1> SUFFICES ASSUME ReplayInit PROVE ReplayInv
  OBVIOUS
<1>1. DOMAIN market \subseteq 0..Slots - 1
  <2>1. PICK present \in SUBSET (0..Slots - 1) : market \in [present -> Moves]
    BY DEF ReplayInit
  <2> QED BY <2>1
<1>2. Slots - 1 \in 0..Slots - 1 /\ Slots \in Nat
  BY ReplayAssumption
<1>3. /\ stage = "fetch" /\ cursor = Slots - 1 /\ fetched = {} /\ starts = <<>> /\ replayed = <<>>
      /\ lastExit = [side \in Directions |-> 0]
  BY DEF ReplayInit
<1>4. {s \in DOMAIN market : s > cursor} = {}
  BY <1>1, <1>2, <1>3
<1>5. DOMAIN starts = {} /\ Len(starts) = 0 /\ DOMAIN replayed = {}
  BY <1>3, EmptyDomain
<1>6. Fetching
  BY <1>1, <1>2, <1>3, <1>4, <1>5 DEF Fetching
<1> QED BY <1>3, <1>5, <1>6 DEF ReplayInv, SignalsStand, Greedy

\* A page leaves the fetched bars those behind the cursor, and the last page
\* leaves no bar.
LEMMA FetchPageStep ==
    ASSUME ReplayInv, FetchPage
    PROVE  ReplayInv'
<1>1. /\ DOMAIN market \subseteq 0..Slots - 1 /\ cursor \in 0..Slots - 1
      /\ fetched = {s \in DOMAIN market : s > cursor} /\ replayed = <<>>
      /\ \A side \in Directions : lastExit[side] = 0
  BY DEF ReplayInv, Fetching, FetchPage
<1>2. /\ market' = market /\ lastExit' = lastExit /\ replayed' = replayed /\ fetched' = fetched \cup Page
      /\ IF Cardinality(Page) < PageLimit \/ Min(Page) = 0 THEN Walk(fetched')
         ELSE /\ cursor' = Min(Page) - 1
              /\ UNCHANGED <<stage, starts, barIndex>>
  BY DEF FetchPage
<1>3. Slots \in Nat /\ PageLimit \in Nat
  BY ReplayAssumption
<1>4. Present(0, cursor) = {s \in DOMAIN market : s <= cursor}
  BY <1>1 DEF Present
<1>5. /\ Page \subseteq Present(0, cursor)
      /\ \A s \in Page : \A t \in Present(0, cursor) : s <= t => t \in Page
      /\ Cardinality(Page) < PageLimit => Page = Present(0, cursor)
      /\ Cardinality(Page) >= PageLimit => Min(Page) \in Page /\ \A s \in Page : Min(Page) <= s
  BY <1>1, PagesAreEnds
<1>6. Cardinality(Page) \in Nat
  BY <1>1, <1>4, <1>5, SlotSets
<1>7. \A s \in DOMAIN market : s \in 0..Slots - 1
  BY <1>1
<1>8. CASE Cardinality(Page) < PageLimit \/ Min(Page) = 0
  <2>1. Page = Present(0, cursor)
    <3>1. CASE Cardinality(Page) < PageLimit
      BY <1>5, <3>1
    <3>2. CASE Cardinality(Page) >= PageLimit /\ Min(Page) = 0
      <4>1. 0 \in Page /\ \A t \in Present(0, cursor) : 0 <= t
        BY <1>4, <1>5, <1>7, <3>2
      <4> QED BY <1>5, <4>1
    <3> QED BY <1>3, <1>6, <1>8, <3>1, <3>2
  <2>2. fetched' = DOMAIN market
    <3>1. \A s \in DOMAIN market : s > cursor \/ s <= cursor
      BY ONLY <1>1, <1>3, <1>7
    <3> QED BY <1>1, <1>2, <1>4, <2>1, <3>1
  <2>3. /\ stage' = "walk" /\ starts' = Sorted(fetched')
        /\ barIndex' = Cardinality({s \in fetched' : s < Warmup}) + 1
    BY <1>2, <1>8 DEF Walk
  <2>4. fetched' \in SUBSET (0..Slots - 1) /\ barIndex' \in Nat \ {0}
    <3>1. fetched' \in SUBSET (0..Slots - 1)
      BY <1>1, <2>2
    <3>2. Cardinality({s \in fetched' : s < Warmup}) \in Nat
      BY <3>1, SlotSets
    <3> QED BY <2>3, <3>1, <3>2
  <2>5. /\ starts' \in Seq(Nat) /\ Len(starts') <= Slots
        /\ \A i, j \in DOMAIN starts' : i <= j => starts'[i] <= starts'[j]
    <3> DEFINE keys == fetched'
    <3>1. keys \in SUBSET Nat /\ IsFiniteSet(keys) /\ Cardinality(keys) <= Slots
      BY <1>3, <2>4, SlotSets
    <3>2. starts' = Sorted(keys)
      BY <2>3
    <3> HIDE DEF keys
    <3>3. /\ starts' \in Seq(Nat) /\ Len(starts') <= Slots
          /\ \A i, j \in DOMAIN starts' : i < j => starts'[i] < starts'[j]
      BY <3>1, <3>2, SortedBars
    <3>4. \A i \in DOMAIN starts' : i \in Nat /\ starts'[i] \in Nat
      BY <3>3
    <3> QED BY <3>3, <3>4
  <2>6. Fetching'
    BY <1>1, <1>2, <2>2, <2>3, <2>4, <2>5 DEF Fetching
  <2>7. DOMAIN replayed' = {}
    BY <1>1, <1>2, EmptyDomain
  <2>8. SignalsStand'
    BY <2>7 DEF SignalsStand
  <2> QED BY <1>2, <2>6, <2>8 DEF ReplayInv
<1>9. CASE ~ (Cardinality(Page) < PageLimit \/ Min(Page) = 0)
  <2> DEFINE first == Min(Page)
  <2>1. /\ first \in Page /\ (\A s \in Page : first <= s) /\ first # 0
    BY <1>3, <1>5, <1>6, <1>9
  <2>2. cursor' = first - 1 /\ stage' = stage /\ starts' = starts /\ barIndex' = barIndex
    BY <1>2, <1>9
  <2> HIDE DEF first
  <2>3. first \in DOMAIN market /\ first <= cursor /\ first \in 0..Slots - 1 /\ cursor \in Int
    BY <1>1, <1>4, <1>5, <1>7, <2>1
  <2>4. cursor' \in 0..Slots - 1
    BY <1>3, <2>1, <2>2, <2>3
  <2>5. \A s \in DOMAIN market : s > first - 1 <=> s \in fetched \/ s \in Page
    <3> SUFFICES ASSUME NEW s \in DOMAIN market PROVE s > first - 1 <=> s > cursor \/ s \in Page
      BY <1>1
    <3>1. s \in Int /\ first \in Int /\ cursor \in Int /\ first <= cursor
      BY <1>7, <2>3
    <3>2. s \in Page => first <= s
      BY <2>1
    <3>3. first <= s /\ s <= cursor => s \in Page
      BY <1>4, <1>5, <2>1
    <3> QED BY <3>1, <3>2, <3>3
  <2>6. fetched' = {s \in DOMAIN market' : s > cursor'}
    <3>1. Page \subseteq DOMAIN market /\ fetched \subseteq DOMAIN market
      BY <1>1, <1>4, <1>5
    <3>2. fetched' = {s \in DOMAIN market : s > first - 1}
      BY <1>2, <2>5, <3>1
    <3> QED BY <1>2, <2>2, <3>2
  <2>7. Fetching'
    BY <1>2, <2>2, <2>4, <2>6 DEF ReplayInv, Fetching, FetchPage
  <2>8. DOMAIN replayed' = {}
    BY <1>1, <1>2, EmptyDomain
  <2>9. SignalsStand'
    BY <2>8 DEF SignalsStand
  <2> QED BY <1>2, <2>7, <2>9 DEF ReplayInv
<1> QED BY <1>8, <1>9

\* One bar of the walk: the signals of its sides are added one after the other.
LEMMA EvaluateBarStep ==
    ASSUME ReplayInv, EvaluateBar
    PROVE  ReplayInv'
<1> DEFINE signal(side) == Signal(side, barIndex)
           new(side, sides) == IF side \in sides THEN <<signal(side)>> ELSE <<>>
<1>1. PICK sides \in SUBSET Directions :
          /\ replayed' = replayed \o new("long", sides) \o new("short", sides)
          /\ lastExit' = [side \in Directions |->
                 IF side \in sides THEN LastExitAfter(side, signal(side)) ELSE lastExit[side]]
  BY DEF EvaluateBar
<1>2. /\ stage = "walk" /\ barIndex + OutcomeBars <= Len(starts) /\ barIndex \in Nat \ {0}
      /\ stage' = stage /\ starts' = starts /\ market' = market /\ fetched' = fetched /\ barIndex' = barIndex + 1
  BY DEF EvaluateBar, ReplayInv, Fetching
<1>3. \A side \in Directions :
          /\ signal(side) \in SignalRecords /\ signal(side).side = side /\ signal(side).place = barIndex
          /\ signal(side).opened <= signal(side).closed
          /\ signal(side).exit = ExitPlace(side, barIndex)
          /\ signal(side).reason = ExitReason(Touch(side, signal(side).exit))
          /\ signal(side).primary <=> (NoOverlap => signal(side).opened >= lastExit[side])
  BY <1>2, SignalIs
<1>4. /\ replayed \in Seq(SignalRecords) /\ lastExit \in [Directions -> Nat] /\ Greedy(replayed, lastExit)
  BY DEF ReplayInv
<1>5. "long" \in Directions /\ "short" \in Directions /\ \A side \in Directions : side = "long" \/ side = "short"
  BY DEF Directions
<1> HIDE DEF signal
<1> DEFINE exits == [side \in Directions |->
               IF side = "long" /\ "long" \in sides /\ signal("long").primary
               THEN signal("long").closed ELSE lastExit[side]]
           after == [side \in Directions |->
               IF side = "short" /\ "short" \in sides /\ signal("short").primary
               THEN signal("short").closed ELSE exits[side]]
           list == replayed \o new("long", sides)
           more == list \o new("short", sides)
<1>6. \A side \in Directions : signal(side).closed \in Nat
  BY <1>3 DEF SignalRecords
<1>7. exits \in [Directions -> Nat] /\ after \in [Directions -> Nat]
  BY <1>4, <1>5, <1>6
<1>8. list \in Seq(SignalRecords) /\ Greedy(list, exits)
  <2>1. CASE "long" \in sides
    <3>1. list = Append(replayed, signal("long"))
      BY <1>3, <1>4, <1>5, <2>1
    <3> DEFINE one == signal("long")
    <3>2. /\ one \in SignalRecords /\ one.side = "long" /\ one.opened <= one.closed
          /\ one.primary <=> (NoOverlap => one.opened >= lastExit["long"])
      BY <1>3, <1>5
    <3>3. \A side \in Directions :
              exits[side] = IF side = "long" /\ one.primary THEN one.closed ELSE lastExit[side]
      BY <2>1
    <3> HIDE DEF one, exits, list
    <3>5. one.primary <=> (NoOverlap => one.opened >= lastExit[one.side])
      BY <3>2
    <3>6. \A side \in Directions :
              exits[side] = IF side = one.side /\ one.primary THEN one.closed ELSE lastExit[side]
      BY <3>2, <3>3
    <3>7. Append(replayed, one) \in Seq(SignalRecords) /\ Greedy(Append(replayed, one), exits)
      BY <1>4, <1>7, <3>2, <3>5, <3>6, SignalAdded
    <3>8. list = Append(replayed, one)
      BY <3>1 DEF one
    <3> QED BY <3>7, <3>8
  <2>2. CASE "long" \notin sides
    <3>1. list = replayed
      BY <1>4, <2>2
    <3>2. exits = lastExit
      BY <1>4, <2>2
    <3> QED BY <1>4, <3>1, <3>2
  <2> QED BY <2>1, <2>2
<1>9. more \in Seq(SignalRecords) /\ Greedy(more, after)
  <2>1. CASE "short" \in sides
    <3>1. more = Append(list, signal("short"))
      BY <1>3, <1>5, <1>8, <2>1
    <3> DEFINE one == signal("short")
    <3>2. /\ one \in SignalRecords /\ one.side = "short" /\ one.opened <= one.closed
          /\ one.primary <=> (NoOverlap => one.opened >= lastExit["short"])
      BY <1>3, <1>5
    <3>3. \A side \in Directions :
              after[side] = IF side = "short" /\ one.primary THEN one.closed ELSE exits[side]
      BY <2>1
    <3>4. exits["short"] = lastExit["short"]
      BY <1>5
    <3> HIDE DEF one, exits, after, list, more
    <3>5. one.primary <=> (NoOverlap => one.opened >= exits[one.side])
      BY <3>2, <3>4
    <3>6. \A side \in Directions :
              after[side] = IF side = one.side /\ one.primary THEN one.closed ELSE exits[side]
      BY <3>2, <3>3
    <3>7. Append(list, one) \in Seq(SignalRecords) /\ Greedy(Append(list, one), after)
      BY <1>8, <1>7, <3>2, <3>5, <3>6, SignalAdded
    <3>8. more = Append(list, one)
      BY <3>1 DEF one
    <3> QED BY <3>7, <3>8
  <2>2. CASE "short" \notin sides
    <3>1. more = list
      BY <1>8, <2>2
    <3>2. after = exits
      BY <1>7, <2>2
    <3> QED BY <1>8, <3>1, <3>2
  <2> QED BY <2>1, <2>2
<1>10. replayed' = more /\ lastExit' = after
  <2>1. lastExit' = after
    BY <1>1, <1>5 DEF LastExitAfter
  <2> QED BY <1>1, <2>1
<1>11. Fetching'
  BY <1>2 DEF ReplayInv, Fetching
<1>12. SignalsStand'
  <2>1. ASSUME NEW s, \/ \E n \in DOMAIN replayed : s = replayed[n]
                      \/ \E side \in sides : s = signal(side)
        PROVE  /\ s.place \in Nat \ {0} /\ s.place + OutcomeBars <= Len(starts)
               /\ s.exit = ExitPlace(s.side, s.place)
               /\ s.reason = ExitReason(Touch(s.side, s.exit))
    BY <1>2, <1>3, <2>1 DEF ReplayInv, SignalsStand
  <2>2. \A n \in DOMAIN more : \/ \E m \in DOMAIN replayed : more[n] = replayed[m]
                               \/ \E side \in sides : more[n] = signal(side)
    <3>1. \A n \in DOMAIN list : \/ \E m \in DOMAIN replayed : list[n] = replayed[m]
                                 \/ \E side \in sides : list[n] = signal(side)
      BY <1>3, <1>4, <1>5
    <3>2. \A n \in DOMAIN more : \/ \E m \in DOMAIN list : more[n] = list[m]
                                 \/ \E side \in sides : more[n] = signal(side)
      <4> HIDE DEF list
      <4> QED BY <1>3, <1>5, <1>8
    <3> HIDE DEF list, more
    <3> QED BY <3>1, <3>2
  <2>3. \A side, place : ExitPlace(side, place)' = ExitPlace(side, place) /\ Touch(side, place)' = Touch(side, place)
    BY <1>2 DEF ExitPlace, Touch
  <2> HIDE DEF more
  <2> QED BY <1>2, <1>10, <2>1, <2>2, <2>3 DEF SignalsStand
<1> HIDE DEF more, after
<1> QED BY <1>7, <1>9, <1>10, <1>11, <1>12 DEF ReplayInv

\* An exit depends on the bars only.
LEMMA ExitStands ==
    ASSUME market' = market, starts' = starts, NEW side, NEW place
    PROVE  ExitPlace(side, place)' = ExitPlace(side, place) /\ Touch(side, place)' = Touch(side, place)
<1> DEFINE future == place + 1 .. place + OutcomeBars
           ended == {p \in future : Ended(Touch(side, p))}
           exit == Min(ended \cup {Max(future)})
<1>1. ExitPlace(side, place) = exit /\ ExitPlace(side, place)' = exit'
  BY DEF ExitPlace
<1>2. \A p : Touch(side, p)' = Touch(side, p)
  BY DEF Touch
<1>3. future' = future
  OBVIOUS
<1> HIDE DEF future
<1>4. ended' = ended
  BY <1>2, <1>3
<1> HIDE DEF ended
<1>5. exit' = exit
  BY <1>3, <1>4
<1> HIDE DEF exit
<1> QED BY <1>1, <1>2, <1>5

\* Every step of a replay keeps its invariant.
LEMMA ReplaySteps == ReplayInv /\ [ReplayNext]_replayVars => ReplayInv'
<1> SUFFICES ASSUME ReplayInv, [ReplayNext]_replayVars PROVE ReplayInv'
  OBVIOUS
<1>1. ASSUME EndReplay \/ UNCHANGED replayVars PROVE ReplayInv'
  <2>1. /\ market' = market /\ cursor' = cursor /\ fetched' = fetched /\ starts' = starts /\ barIndex' = barIndex
        /\ lastExit' = lastExit /\ replayed' = replayed
        /\ stage' = stage \/ (stage' = "done" /\ stage = "walk")
    BY <1>1 DEF EndReplay, replayVars
  <2>2. Fetching'
    BY <2>1 DEF ReplayInv, Fetching
  <2>3. SignalsStand'
    BY <2>1, ExitStands DEF ReplayInv, SignalsStand
  <2> QED BY <2>1, <2>2, <2>3 DEF ReplayInv
<1> QED BY <1>1, FetchPageStep, EvaluateBarStep DEF ReplayNext

\* The row with which the journal begins.
LEMMA NewJournalRow ==
    ASSUME NEW place
    PROVE  LET row == [Live!NoRow EXCEPT !.signal = place, !.status = "OPEN", !.last = place]
           IN  row.signal = place /\ row.last = place /\ "exit" \in DOMAIN row /\ "reason" \in DOMAIN row
BY DEF Live!NoRow

\* The journal, given all bars at once, ends a signal at the bar and for the
\* reason at which the replay ends it.
LEMMA JournalAgrees ==
    ASSUME ReplayInv, NEW e \in DOMAIN replayed
    PROVE  LET s == replayed[e]
               row == Live!Evaluate("live", e,
                          [Live!NoRow EXCEPT !.signal = s.place, !.status = "OPEN", !.last = s.place])
           IN  row.reason = s.reason /\ row.exit = s.exit
<1> DEFINE s == replayed[e]
           place == s.place
           last == place + OutcomeBars
           row == [Live!NoRow EXCEPT !.signal = place, !.status = "OPEN", !.last = place]
           future == place + 1 .. last
           ends == {p \in future : Ended(Touch(s.side, p))}
<1>1. /\ place \in Nat /\ place > 0 /\ last <= Len(starts) /\ Len(starts) \in Nat /\ Len(starts) <= Slots
      /\ OutcomeBars \in Nat /\ OutcomeBars > 0 /\ Slots \in Nat
      /\ s.exit = ExitPlace(s.side, place) /\ s.reason = ExitReason(Touch(s.side, s.exit))
  BY ReplayAssumption DEF ReplayInv, SignalsStand, Fetching
<1>2. row.signal = place /\ row.last = place /\ "exit" \in DOMAIN row /\ "reason" \in DOMAIN row
  BY NewJournalRow
<1> HIDE DEF row
<1>3. Live!Expiry(row) = last
  BY <1>2 DEF Live!Expiry
<1>4. Live!FirstNew("live", row) = place + 1 /\ Live!LastNew("live", row) = last
  BY <1>1, <1>2, <1>3 DEF Live!FirstNew, Live!LastNew, Live!Larger, Live!Smaller
<1>5. Live!NewBars("live", row) = future /\ Live!Eligible("live", row) = future
  BY <1>1, <1>2, <1>3, <1>4 DEF Live!NewBars, Live!Eligible, Live!Larger, Live!Smaller
<1>6. \A b \in future : Live!Seen("live", e, b) = Touch(s.side, b)
  <2>1. \A b \in future : b \in DOMAIN starts
    BY <1>1 DEF ReplayInv, Fetching
  <2> QED BY <2>1 DEF Live!Seen, JournalOf
<1> SUFFICES /\ Live!Evaluate("live", e, row).reason = s.reason
             /\ Live!Evaluate("live", e, row).exit = s.exit
  BY DEF row
<1>7. /\ s.exit \in future /\ last \in future
      /\ \A p \in ends : s.exit <= p
      /\ IF ends = {} THEN s.exit = last ELSE s.exit \in ends
  BY <1>1, ExitIs
<1>8. {b \in Live!NewBars("live", row) : Live!Ends(Live!Seen("live", e, b))} = ends
  <2>1. \A b \in future : Live!Ends(Live!Seen("live", e, b)) <=> Ended(Touch(s.side, b))
    <3>1. \A bar : Live!Ends(bar) <=> Ended(bar)
      BY DEF Live!Ends, Ended
    <3> QED BY <1>6, <3>1
  <2> HIDE DEF future
  <2> QED BY <1>5, <2>1
<1> HIDE DEF ends
<1>9. CASE ends = {}
  <2>1. Live!Evaluate("live", e, row) = Live!TimeExit("live", e, row)
    BY <1>8, <1>9 DEF Live!Evaluate
  <2>2. Live!NewBars("live", row) # {} /\ Live!Eligible("live", row) # {}
    BY <1>5, <1>7
  <2>3. Slots >= Live!Expiry(row)
    BY <1>1, <1>3
  <2> DEFINE o == Live!Observed("live", e, row, last)
  <2>4. \E seen, first, torn : o = [row EXCEPT !.last = last, !.seen = seen, !.tp1 = first, !.torn = torn]
    BY DEF Live!Observed
  <2>5. Live!TimeExit("live", e, row) =
            [o EXCEPT !.status = "CLOSED", !.exit = last, !.last = last, !.reason = "TIME_EXIT"]
    BY <1>4, <2>2, <2>3 DEF Live!TimeExit
  <2> HIDE DEF o
  <2>6. Live!TimeExit("live", e, row).reason = "TIME_EXIT" /\ Live!TimeExit("live", e, row).exit = last
    BY <1>2, <2>4, <2>5
  <2>7. ~ Ended(Touch(s.side, last))
    BY <1>7, <1>9 DEF ends
  <2>8. s.reason = "TIME_EXIT" /\ s.exit = last
    BY <1>1, <1>7, <1>9, <2>7 DEF ExitReason
  <2> QED BY <2>1, <2>6, <2>8
<1>10. CASE ends # {}
  <2> DEFINE b == CHOOSE x \in ends : \A y \in ends : x <= y
  <2>1. s.exit \in ends /\ \A y \in ends : s.exit <= y
    BY <1>7, <1>10
  <2>2. b = s.exit
    <3>1. b \in ends /\ \A y \in ends : b <= y
      BY <2>1
    <3> HIDE DEF b
    <3>2. b <= s.exit /\ s.exit <= b /\ b \in Int /\ s.exit \in Int
      BY <1>1, <2>1, <3>1 DEF ends
    <3> QED BY <3>2
  <2> HIDE DEF b
  <2> DEFINE o == Live!Observed("live", e, row, s.exit)
             touch == Touch(s.side, s.exit)
  <2>3. Live!Evaluate("live", e, row) =
            [o EXCEPT !.status = "CLOSED", !.exit = s.exit,
                      !.reason = Live!Verdict(Live!Seen("live", e, s.exit))]
    BY <1>8, <1>10, <2>2 DEF Live!Evaluate, b
  <2>4. \E seen, first, torn : o = [row EXCEPT !.last = s.exit, !.seen = seen, !.tp1 = first, !.torn = torn]
    BY DEF Live!Observed
  <2>5. Live!Seen("live", e, s.exit) = touch
    BY <1>6, <1>7
  <2>6. s.reason = Live!Verdict(touch)
    <3>1. Ended(touch)
      BY <2>1 DEF ends
    <3>2. s.reason = ExitReason(touch)
      BY <1>1
    <3> HIDE DEF touch
    <3> QED BY <3>1, <3>2 DEF ExitReason, Ended, Live!Verdict
  <2> HIDE DEF o, touch
  <2> QED BY <1>2, <2>3, <2>4, <2>5, <2>6
<1> QED BY <1>9, <1>10

\* The replay has paged in every bar, its primary signals of a side do not
\* overlap and leave out only what would, and it ends a signal as the journal
\* would.
THEOREM ReplayIsFaithfulHolds == ReplaySpec => []ReplayIsFaithful
<1>1. ReplayInv => ReplayIsFaithful
  <2> SUFFICES ASSUME ReplayInv PROVE ReplayIsFaithful
    OBVIOUS
  <2>1. FetchIsComplete
    BY DEF ReplayInv, Fetching, FetchIsComplete
  <2>2. PrimaryIsGreedy
    BY DEF ReplayInv, Greedy, PrimaryIsGreedy
  <2>3. ReplayIsJournal
    BY JournalAgrees DEF ReplayIsJournal
  <2> QED BY <2>1, <2>2, <2>3 DEF ReplayIsFaithful
<1> QED BY <1>1, ReplayStarts, ReplaySteps, PTL DEF ReplaySpec
-----------------------------------------------------------------------------
(* The studies of sweep events *)

\* Keys of n numbers, which come one before the other as those of rows do.
NumberKeys(S, n, key) == \A x \in S : \A i \in 1..n : key[x][i] \in Nat
SameKey(k, l, n) == \A i \in 1..n : k[i] = l[i]
KeyBefore(k, l, n) == \E i \in 1..n : k[i] < l[i] /\ \A j \in 1..i - 1 : k[j] = l[j]

\* In a set of things with such keys there is one whose key is before or the
\* same as every other.
LEMMA LeastKey ==
    ASSUME NEW S, S # {}, NEW n \in Nat, NEW key, NumberKeys(S, n, key)
    PROVE  \E x \in S : \A y \in S : KeyBefore(key[x], key[y], n) \/ SameKey(key[x], key[y], n)
<1>0. \A x \in S : \A i \in 1..n : key[x][i] \in Nat
  BY DEF NumberKeys
<1> DEFINE Before(x, y, m) ==
               \E i \in 1..m : key[x][i] < key[y][i] /\ \A j \in 1..i - 1 : key[x][j] = key[y][j]
           Same(x, y, m) == \A i \in 1..m : key[x][i] = key[y][i]
           Found(m) == \E x \in S : \A y \in S : Before(x, y, m) \/ Same(x, y, m)
           Missing == {m \in Nat : m <= n /\ ~ Found(m)}
<1>1. Found(0)
  OBVIOUS
<1>2. ASSUME NEW m \in 1..n, Found(m - 1) PROVE Found(m)
  <2>1. PICK x \in S : \A y \in S : Before(x, y, m - 1) \/ Same(x, y, m - 1)
    BY <1>2
  <2> DEFINE ties == {y \in S : Same(x, y, m - 1)}
             values == {key[y][m] : y \in ties}
  <2>2. x \in ties
    OBVIOUS
  <2>3. values \in SUBSET Nat /\ values # {}
    BY <1>0, <2>2
  <2>4. PICK v \in values : \A w \in values : v <= w
    BY <2>3, LeastNatural
  <2>5. PICK z \in ties : v = key[z][m]
    BY <2>4
  <2>6. ASSUME NEW y \in S PROVE Before(z, y, m) \/ Same(z, y, m)
    <3>1. m - 1 \in Int /\ m \in Int /\ (\A i : i \in 1..m <=> i \in 1..m - 1 \/ i = m)
          /\ \A i \in 1..m - 1 : \A j \in 1..i - 1 : j \in 1..m - 1
      OBVIOUS
    <3>2. z \in S /\ Same(x, z, m - 1)
      BY <2>5
    <3>3. CASE y \in ties
      <4>1. key[z][m] <= key[y][m] /\ key[z][m] \in Nat /\ key[y][m] \in Nat
        BY <1>0, <2>4, <2>5, <3>2, <3>3
      <4>2. Same(z, y, m - 1)
        BY <3>2, <3>3
      <4>3. CASE key[z][m] = key[y][m]
        <5>1. Same(z, y, m)
          BY <3>1, <4>2, <4>3
        <5> QED BY <5>1
      <4>4. CASE key[z][m] < key[y][m]
        <5>1. m \in 1..m /\ \A j \in 1..m - 1 : key[z][j] = key[y][j]
          BY <4>2
        <5> QED BY <4>4, <5>1
      <4> QED BY <4>1, <4>3, <4>4
    <3>4. CASE y \notin ties
      <4>1. PICK i \in 1..m - 1 : key[x][i] < key[y][i] /\ \A j \in 1..i - 1 : key[x][j] = key[y][j]
        BY <2>1, <3>4
      <4>2. key[z][i] = key[x][i] /\ \A j \in 1..i - 1 : key[z][j] = key[x][j]
        BY <3>1, <3>2
      <4>3. i \in 1..m /\ key[z][i] < key[y][i] /\ \A j \in 1..i - 1 : key[z][j] = key[y][j]
        BY <3>1, <4>1, <4>2
      <4> QED BY <4>3
    <3> QED BY <3>3, <3>4
  <2> QED BY <2>5, <2>6
<1> HIDE DEF Found
<1>3. Missing = {}
  <2> SUFFICES ASSUME Missing # {} PROVE FALSE
    OBVIOUS
  <2>1. PICK m \in Missing : \A k \in Missing : m <= k
    BY LeastNatural
  <2>2. m \in 1..n /\ m - 1 \in Nat /\ ~ (m <= m - 1) /\ m - 1 <= n
    BY <1>1
  <2>3. Found(m - 1)
    BY <2>1, <2>2
  <2> QED BY <1>2, <2>2, <2>3
<1>4. Found(n)
  BY <1>3
<1> QED BY <1>4 DEF Found, KeyBefore, SameKey
\* The bars of a study are in order, and every phase of an event is one.
BarsInOrder ==
    /\ starts \in Seq(Nat)
    /\ \A i, j \in DOMAIN starts : i < j => starts[i] < starts[j]
    /\ \A e \in SweepEvents : {e.sweep, e.reclaim, e.shift} \subseteq 0..Len(starts)

Reasons == {"TIME_EXIT", "TP2", "AMBIGUOUS_STOP_FIRST", "STOP", "NO_EVALUABLE_PATH"}
PathRecords == [closed : Nat, reason : Reasons, observed : Nat]

\* The last bar of a horizon, as far as there are bars.
LastOf(place, horizon) == IF place + horizon <= Len(starts) THEN place + horizon ELSE Len(starts)

\* A closing time lies between two bars where its bar does.
LEMMA TimesArePlaces ==
    ASSUME BarsInOrder, NEW place \in DOMAIN starts, NEW exit \in DOMAIN starts, place < exit
    PROVE  /\ {p \in DOMAIN starts : CloseOf(place) <= starts[p] /\ starts[p] < CloseOf(exit)} = place + 1 .. exit
           /\ CloseOf(place) \in Nat /\ CloseOf(exit) \in Nat /\ CloseOf(place) < CloseOf(exit)
<1>1. /\ \A p \in DOMAIN starts : p \in Nat /\ p > 0 /\ p <= Len(starts) /\ starts[p] \in Nat
      /\ Len(starts) \in Nat /\ DOMAIN starts = 1..Len(starts)
      /\ \A i, j \in DOMAIN starts : i < j => starts[i] < starts[j]
  BY DEF BarsInOrder
<1>2. ASSUME NEW p \in DOMAIN starts
      PROVE  starts[place] + 1 <= starts[p] /\ starts[p] < starts[exit] + 1 <=> place + 1 <= p /\ p <= exit
  <2>1. p < place => starts[p] < starts[place]
    BY <1>1
  <2>2. place < p => starts[place] < starts[p]
    BY <1>1
  <2>3. p < exit => starts[p] < starts[exit]
    BY <1>1
  <2>4. exit < p => starts[exit] < starts[p]
    BY <1>1
  <2>5. /\ p \in Nat /\ place \in Nat /\ exit \in Nat
        /\ starts[p] \in Nat /\ starts[place] \in Nat /\ starts[exit] \in Nat
    BY <1>1
  <2>6. p = place => starts[p] = starts[place]
    OBVIOUS
  <2>7. p = exit => starts[p] = starts[exit]
    OBVIOUS
  <2> QED BY ONLY <2>1, <2>2, <2>3, <2>4, <2>5, <2>6, <2>7
<1>3. \A p \in place + 1 .. exit : p \in DOMAIN starts
  BY <1>1
<1>4. {p \in DOMAIN starts : CloseOf(place) <= starts[p] /\ starts[p] < CloseOf(exit)} = place + 1 .. exit
  <2>1. \A p \in DOMAIN starts : p \in Int /\ place \in Int /\ exit \in Int
    BY <1>1
  <2> QED BY <1>2, <1>3, <2>1 DEF CloseOf
<1>5. starts[place] < starts[exit] /\ starts[place] \in Nat /\ starts[exit] \in Nat
  BY <1>1
<1> QED BY <1>4, <1>5 DEF CloseOf

\* A path ends with its first bar that ends it, or with the last of its bars.
LEMMA PathIs ==
    ASSUME BarsInOrder, NEW side, NEW place \in Nat \ {0}, place < Len(starts), NEW horizon \in Nat \ {0}
    PROVE  \E exit \in place + 1 .. LastOf(place, horizon) :
               /\ Path(side, place, horizon) =
                      [closed |-> CloseOf(exit), reason |-> ExitReason(Touch(side, exit)),
                       observed |-> Cardinality(place + 1 .. exit)]
               /\ \A p \in place + 1 .. exit - 1 : ~ Ended(Touch(side, p))
               /\ Ended(Touch(side, exit)) \/ exit = LastOf(place, horizon)
<1> DEFINE last == LastOf(place, horizon)
           future == place + 1 .. last
           ends == {p \in future : Ended(Touch(side, p))}
           exit == Min(ends \cup {Max(future)})
<1>1. Len(starts) \in Nat /\ DOMAIN starts = 1..Len(starts)
  BY DEF BarsInOrder
<1>2. last \in Nat /\ place + 1 <= last /\ last <= Len(starts)
      /\ \A p \in Int : p <= last <=> p <= Len(starts) /\ p <= place + horizon
  BY <1>1 DEF LastOf
<1>3. Future(place, horizon) = future
  BY <1>1, <1>2 DEF Future
<1>4. Path(side, place, horizon) =
          [closed |-> CloseOf(exit), reason |-> ExitReason(Touch(side, exit)),
           observed |-> Cardinality({p \in future : p <= exit})]
  BY <1>3 DEF Path
<1>5. /\ future \in SUBSET Int /\ last \in future /\ last \in Int /\ ends \subseteq future
      /\ \A p \in future : 0 <= p /\ p <= last
  BY <1>2
<1> HIDE DEF future, ends, last, exit
<1>6. Max(future) = last
  <2>1. Max(future) \in future /\ \A y \in future : Max(future) >= y
    BY <1>5, MaxOf
  <2> DEFINE m == Max(future)
  <2> HIDE DEF m
  <2>2. m \in future /\ m \in Int /\ m >= last /\ m <= last
    BY <1>5, <2>1 DEF m
  <2>3. m = last
    BY <1>5, <2>2
  <2> QED BY <2>3 DEF m
<1> DEFINE all == ends \cup {last}
<1>7. all \in SUBSET Int /\ all # {} /\ 0 \in Int /\ \A p \in all : 0 <= p
  BY <1>5
<1>8. exit \in all /\ \A p \in all : exit <= p
  <2>1. exit = Min(all)
    BY <1>6 DEF exit
  <2> HIDE DEF all
  <2> QED BY <1>7, <2>1, MinOf
<1>9. exit \in future /\ (Ended(Touch(side, exit)) \/ exit = last)
  BY <1>5, <1>8 DEF ends
<1>10. \A p \in place + 1 .. exit - 1 : ~ Ended(Touch(side, p))
  <2> SUFFICES ASSUME NEW p \in place + 1 .. exit - 1, Ended(Touch(side, p)) PROVE FALSE
    OBVIOUS
  <2>1. exit \in Int /\ exit <= last /\ last \in Int
    BY <1>5, <1>9
  <2>2. p \in future
    BY <2>1 DEF future
  <2>3. p \in all
    BY <2>2 DEF ends
  <2>4. exit <= p
    BY <1>8, <2>3
  <2> QED BY <2>1, <2>4
<1>11. {p \in future : p <= exit} = place + 1 .. exit
  BY <1>5, <1>9 DEF future
<1> QED BY <1>4, <1>9, <1>10, <1>11 DEF future, last

\* A row with a path has the outcome of the bars behind its confirmation.
SoundOutcome(row) ==
    row.reason # "NO_EVALUABLE_PATH" =>
        /\ row.opened < row.closed
        /\ \E place, exit \in DOMAIN starts :
               /\ place < exit /\ row.opened = CloseOf(place) /\ row.closed = CloseOf(exit)
               /\ row.observed = Cardinality(place + 1 .. exit)
               /\ row.reason = ExitReason(Touch(row.side, exit))
               /\ \A p \in place + 1 .. exit - 1 : ~ Ended(Touch(row.side, p))
        /\ \A h \in DOMAIN row.sensitivity :
               \/ row.sensitivity[h].reason = "TIME_EXIT" /\ row.sensitivity[h].observed = h
               \/ row.sensitivity[h] =
                      [closed |-> row.closed, reason |-> row.reason, observed |-> row.observed]
\* There are b - a bars after a up to b.
LEMMA BarCounts ==
    ASSUME NEW a \in Nat, NEW b \in Nat, a <= b
    PROVE  Cardinality(a + 1 .. b) = b - a /\ b - a \in Nat
<1>1. Cardinality(a + 1 .. b) = IF a + 1 > b THEN 0 ELSE b - (a + 1) + 1
  BY FS_Interval
<1> QED BY <1>1

\* An exit has one of four reasons.
LEMMA ExitReasons ==
    \A touch : ExitReason(touch) \in {"TIME_EXIT", "TP2", "AMBIGUOUS_STOP_FIRST", "STOP"}
BY DEF ExitReason

\* A path is a record of its kind.
LEMMA PathTyped ==
    ASSUME BarsInOrder, NEW side, NEW place \in Nat \ {0}, place < Len(starts), NEW horizon \in Nat \ {0}
    PROVE  /\ Path(side, place, horizon) \in PathRecords
           /\ Path(side, place, horizon).reason # "NO_EVALUABLE_PATH"
<1>1. PICK exit \in place + 1 .. LastOf(place, horizon) :
          Path(side, place, horizon) =
              [closed |-> CloseOf(exit), reason |-> ExitReason(Touch(side, exit)),
               observed |-> Cardinality(place + 1 .. exit)]
  BY PathIs
<1>2. exit \in Nat /\ place <= exit /\ exit \in DOMAIN starts
  BY DEF LastOf, BarsInOrder
<1>3. CloseOf(exit) \in Nat
  BY <1>2 DEF CloseOf, BarsInOrder
<1>4. Cardinality(place + 1 .. exit) \in Nat
  BY <1>2, BarCounts
<1>5. ExitReason(Touch(side, exit)) \in Reasons \ {"NO_EVALUABLE_PATH"}
  BY ExitReasons DEF Reasons
<1> QED BY <1>1, <1>3, <1>4, <1>5 DEF PathRecords

\* A shorter horizon says the same, or it runs out.
LEMMA ShorterHorizons ==
    ASSUME BarsInOrder, NEW side, NEW place \in Nat \ {0}, place + OutcomeBars <= Len(starts),
           NEW h \in EventHorizons
    PROVE  \/ Path(side, place, h).reason = "TIME_EXIT" /\ Path(side, place, h).observed = h
           \/ Path(side, place, h) = Path(side, place, OutcomeBars)
<1>1. /\ h \in Nat /\ h > 0 /\ OutcomeBars \in Nat /\ OutcomeBars > 0 /\ h <= OutcomeBars /\ Len(starts) \in Nat
  BY EventAssumption DEF BarsInOrder
<1>2. LastOf(place, h) = place + h /\ LastOf(place, OutcomeBars) = place + OutcomeBars /\ place < Len(starts)
  BY <1>1 DEF LastOf
<1>3. PICK exit \in place + 1 .. place + OutcomeBars :
          /\ Path(side, place, OutcomeBars) =
                 [closed |-> CloseOf(exit), reason |-> ExitReason(Touch(side, exit)),
                  observed |-> Cardinality(place + 1 .. exit)]
          /\ \A p \in place + 1 .. exit - 1 : ~ Ended(Touch(side, p))
          /\ Ended(Touch(side, exit)) \/ exit = place + OutcomeBars
  <2>1. \E last \in place + 1 .. LastOf(place, OutcomeBars) :
            /\ Path(side, place, OutcomeBars) =
                   [closed |-> CloseOf(last), reason |-> ExitReason(Touch(side, last)),
                    observed |-> Cardinality(place + 1 .. last)]
            /\ \A p \in place + 1 .. last - 1 : ~ Ended(Touch(side, p))
            /\ Ended(Touch(side, last)) \/ last = LastOf(place, OutcomeBars)
    <3>1. place < Len(starts) /\ OutcomeBars \in Nat \ {0}
      BY <1>1, <1>2
    <3> QED BY <3>1, PathIs
  <2> QED BY <1>2, <2>1
<1>4. PICK early \in place + 1 .. place + h :
          /\ Path(side, place, h) =
                 [closed |-> CloseOf(early), reason |-> ExitReason(Touch(side, early)),
                  observed |-> Cardinality(place + 1 .. early)]
          /\ \A p \in place + 1 .. early - 1 : ~ Ended(Touch(side, p))
          /\ Ended(Touch(side, early)) \/ early = place + h
  <2>1. \E last \in place + 1 .. LastOf(place, h) :
            /\ Path(side, place, h) =
                   [closed |-> CloseOf(last), reason |-> ExitReason(Touch(side, last)),
                    observed |-> Cardinality(place + 1 .. last)]
            /\ \A p \in place + 1 .. last - 1 : ~ Ended(Touch(side, p))
            /\ Ended(Touch(side, last)) \/ last = LastOf(place, h)
    <3>1. place < Len(starts) /\ h \in Nat \ {0}
      BY <1>1, <1>2
    <3> QED BY <3>1, PathIs
  <2> QED BY <1>2, <2>1
<1>5. CASE Ended(Touch(side, early))
  <2>1. ~ (exit < early)
    <3> SUFFICES ASSUME exit < early PROVE FALSE
      OBVIOUS
    <3>1. exit \in place + 1 .. early - 1
      BY <1>1
    <3>2. exit = place + OutcomeBars
      BY <1>3, <1>4, <3>1
    <3> QED BY <1>1, <3>2
  <2>2. ~ (early < exit)
    <3> SUFFICES ASSUME early < exit PROVE FALSE
      OBVIOUS
    <3>1. early \in place + 1 .. exit - 1
      BY <1>1
    <3> QED BY <1>3, <1>5, <3>1
  <2>3. early = exit
    BY <1>1, <2>1, <2>2
  <2> QED BY <1>3, <1>4, <2>3
<1>6. CASE ~ Ended(Touch(side, early))
  <2>1. early = place + h
    BY <1>4, <1>6
  <2>2. ExitReason(Touch(side, early)) = "TIME_EXIT"
    BY <1>6 DEF ExitReason
  <2>3. place + h \in Nat /\ place <= place + h /\ (place + h) - place = h
    BY <1>1
  <2>4. Cardinality(place + 1 .. early) = h
    BY <2>1, <2>3, BarCounts
  <2> QED BY <1>4, <2>2, <2>4
<1> QED BY <1>5, <1>6

SensitivityValues == {NoSensitivity} \cup [EventHorizons -> PathRecords]
CohortNames == {"ALL"} \cup DOMAIN CohortNumber
SampleRows == [side : Directions, cohort : CohortNames, event : SweepEvents, opened : Nat,
               split : {"DEVELOPMENT", "VALIDATION"}, closed : Nat, reason : Reasons, observed : Nat,
               sensitivity : SensitivityValues, primary : BOOLEAN]

\* A row that is told of an event, before it is taken into a sample.
LEMMA RowOfPath ==
    ASSUME BarsInOrder, NEW e \in SweepEvents, NEW cohort \in CohortNames, e.shift # 0, e.shift < Len(starts),
           NEW sensitivity,
           \/ sensitivity = NoSensitivity
           \/ sensitivity = Sensitivity(e.side, e.shift) /\ e.shift + OutcomeBars <= Len(starts)
    PROVE  LET row == EventRow(e, CloseOf(e.shift), cohort, Path(e.side, e.shift, OutcomeBars), sensitivity)
           IN  row \in SampleRows /\ SoundOutcome(row)
<1> DEFINE place == e.shift
           path == Path(e.side, place, OutcomeBars)
           opened == CloseOf(place)
           row == EventRow(e, opened, cohort, path, sensitivity)
<1>1. e.side \in Directions /\ place \in Nat \ {0} /\ place < Len(starts) /\ Len(starts) \in Nat
  BY EventAssumption DEF BarsInOrder
<1>2. OutcomeBars \in Nat \ {0} /\ EventHorizons \subseteq Nat \ {0}
  BY EventAssumption
<1>3. path \in PathRecords /\ path.reason # "NO_EVALUABLE_PATH"
  BY <1>1, <1>2, PathTyped
<1>4. PICK exit \in place + 1 .. LastOf(place, OutcomeBars) :
          /\ path = [closed |-> CloseOf(exit), reason |-> ExitReason(Touch(e.side, exit)),
                     observed |-> Cardinality(place + 1 .. exit)]
          /\ \A p \in place + 1 .. exit - 1 : ~ Ended(Touch(e.side, p))
  BY <1>1, <1>2, PathIs
<1>5. place \in DOMAIN starts /\ exit \in DOMAIN starts /\ place < exit
  <2>1. exit \in Nat /\ exit <= Len(starts) /\ place < exit
    BY <1>1, <1>2 DEF LastOf
  <2> QED BY <1>1, <2>1 DEF BarsInOrder
<1>6. opened \in Nat /\ CloseOf(exit) \in Nat /\ opened < CloseOf(exit)
  BY <1>5, TimesArePlaces
<1>7. sensitivity \in SensitivityValues
  <2>1. \A h \in EventHorizons : Path(e.side, place, h) \in PathRecords
    BY <1>1, <1>2, PathTyped
  <2>2. CASE sensitivity = Sensitivity(e.side, place)
    BY <2>1, <2>2 DEF Sensitivity, SensitivityValues
  <2> QED BY <2>2 DEF SensitivityValues
<1>8. \A h \in DOMAIN sensitivity :
          (sensitivity[h].reason = "TIME_EXIT" /\ sensitivity[h].observed = h) \/ sensitivity[h] = path
  <2>1. CASE sensitivity = NoSensitivity
    BY <2>1 DEF NoSensitivity
  <2>2. CASE sensitivity = Sensitivity(e.side, place) /\ place + OutcomeBars <= Len(starts)
    <3>1. \A h \in EventHorizons :
              \/ Path(e.side, place, h).reason = "TIME_EXIT" /\ Path(e.side, place, h).observed = h
              \/ Path(e.side, place, h) = path
      BY <1>1, <2>2, ShorterHorizons
    <3> QED BY <2>2, <3>1 DEF Sensitivity
  <2> QED BY <2>1, <2>2
<1> HIDE DEF place, path, opened
<1>9. row = [side |-> e.side, cohort |-> cohort, event |-> e, opened |-> opened, split |-> Split(opened),
             closed |-> path.closed, reason |-> path.reason, observed |-> path.observed,
             sensitivity |-> sensitivity, primary |-> FALSE]
  BY DEF EventRow
<1>10. Split(opened) \in {"DEVELOPMENT", "VALIDATION"}
  BY DEF Split
<1>11. path = [closed |-> path.closed, reason |-> path.reason, observed |-> path.observed]
  BY <1>3 DEF PathRecords
<1> HIDE DEF row
<1>12. row \in SampleRows
  BY <1>1, <1>3, <1>6, <1>7, <1>9, <1>10 DEF SampleRows, PathRecords
<1>13. SoundOutcome(row)
  <2>1. /\ row.opened = opened /\ row.closed = CloseOf(exit) /\ row.side = e.side /\ row.sensitivity = sensitivity
        /\ row.observed = Cardinality(place + 1 .. exit) /\ row.reason = ExitReason(Touch(e.side, exit))
        /\ path = [closed |-> row.closed, reason |-> row.reason, observed |-> row.observed]
    BY <1>4, <1>9, <1>11
  <2>2. opened = CloseOf(place)
    BY DEF opened
  <2> QED BY <1>4, <1>5, <1>6, <1>8, <2>1, <2>2 DEF SoundOutcome
<1> QED BY <1>12, <1>13 DEF row, opened, path, place
\* If no two keys are the same, one is before all others.
LEMMA FirstKey ==
    ASSUME NEW S, S # {}, NEW n \in Nat, NEW key, NumberKeys(S, n, key),
           \A x, y \in S : SameKey(key[x], key[y], n) => x = y
    PROVE  \E x \in S : \A y \in S \ {x} : KeyBefore(key[x], key[y], n)
<1>1. PICK x \in S : \A y \in S : KeyBefore(key[x], key[y], n) \/ SameKey(key[x], key[y], n)
  BY LeastKey
<1> QED BY <1>1

\* The order of the sides tells them apart.
LEMMA SideNumbers ==
    /\ \A side : SideNumber(side) \in Nat
    /\ \A a, b \in Directions : SideNumber(a) = SideNumber(b) => a = b
BY DEF SideNumber, Directions

\* At most one event of a side for a sweep.
Distinct(S) == \A e, f \in S : e.side = f.side /\ e.sweep = f.sweep => e = f

\* The numbers of an event are numbers, and with a shift it is evaluated at the close of its bar.
LEMMA EventTimes ==
    ASSUME BarsInOrder, NEW e \in SweepEvents
    PROVE  /\ EvaluationTime(e) \in Nat /\ e.sweep \in Nat /\ e.side \in Directions
           /\ e.shift # 0 => EvaluationTime(e) = CloseOf(e.shift)
<1>1. /\ e.sweep \in Nat \ {0} /\ e.reclaim \in Nat /\ e.shift \in Nat /\ e.side \in Directions
      /\ {e.sweep, e.reclaim, e.shift} \subseteq 0..Len(starts) /\ Len(starts) \in Nat
  BY EventAssumption DEF BarsInOrder
<1>2. LatestPhase(e) \in DOMAIN starts
  <2>1. LatestPhase(e) \in {e.sweep, e.reclaim, e.shift} /\ LatestPhase(e) # 0
    BY <1>1 DEF LatestPhase, NoPlace
  <2> QED BY <1>1, <2>1 DEF BarsInOrder
<1>3. EvaluationTime(e) \in Nat
  BY <1>2 DEF EvaluationTime, CloseOf, BarsInOrder
<1> QED BY <1>1, <1>3 DEF EvaluationTime, LatestPhase, NoPlace

\* The event that is replayed next is one of those left, and none is earlier.
LEMMA NextEvent ==
    ASSUME BarsInOrder, NEW S \in SUBSET SweepEvents, S # {}, Distinct(S)
    PROVE  LET e == FirstBy(S, DiagnosticOrder)
           IN  e \in S /\ \A f \in S : EvaluationTime(e) <= EvaluationTime(f)
<1> DEFINE key == [e \in S |-> DiagnosticOrder(e)]
           first == FirstBy(S, DiagnosticOrder)
<1>1. \A e \in S : /\ key[e] = DiagnosticOrder(e) /\ DOMAIN DiagnosticOrder(e) = 1..3
                   /\ key[e][1] = EvaluationTime(e) /\ key[e][2] = SideNumber(e.side) /\ key[e][3] = e.sweep
  BY DEF DiagnosticOrder
<1>2. \A e \in S : EvaluationTime(e) \in Nat /\ e.sweep \in Nat /\ e.side \in Directions
  BY EventTimes
<1> HIDE DEF key
<1>3. 1..3 = {1, 2, 3} /\ 3 \in Nat
  OBVIOUS
<1>4. NumberKeys(S, 3, key)
  BY <1>1, <1>2, <1>3, SideNumbers DEF NumberKeys
<1>5. \A e, f \in S : SameKey(key[e], key[f], 3) => e = f
  BY <1>1, <1>2, <1>3, SideNumbers DEF Distinct, SameKey
<1>6. PICK e \in S : \A f \in S \ {e} :
          KeyBefore(key[e], key[f], 3)
  BY <1>3, <1>4, <1>5, FirstKey
<1>7. \A f \in S \ {e} : Lower(DiagnosticOrder(e), DiagnosticOrder(f))
  BY <1>1, <1>6 DEF Lower, KeyBefore
<1>8. first \in S /\ \A f \in S \ {first} : Lower(DiagnosticOrder(first), DiagnosticOrder(f))
  BY <1>7 DEF FirstBy
<1> HIDE DEF first
<1>9. ASSUME NEW f \in S PROVE EvaluationTime(first) <= EvaluationTime(f)
  <2>1. CASE f = first
    BY <1>2, <1>8, <2>1
  <2>2. CASE f # first
    <3>1. PICK i \in 1..3 : key[first][i] < key[f][i] /\ \A j \in 1..i - 1 : key[first][j] = key[f][j]
      BY <1>1, <1>8, <2>2 DEF Lower
    <3>2. i = 1 \/ 1 \in 1..i - 1
      BY <1>3
    <3>3. EvaluationTime(first) < EvaluationTime(f) \/ EvaluationTime(first) = EvaluationTime(f)
      BY <1>1, <1>8, <3>1, <3>2
    <3> QED BY <1>2, <1>8, <3>3
  <2> QED BY <2>1, <2>2
<1> QED BY <1>8, <1>9 DEF first

\* So is the event of the sweep replay one of those left.
LEMMA NextSweep ==
    ASSUME NEW S \in SUBSET SweepEvents, S # {}, Distinct(S)
    PROVE  FirstBy(S, SweepOrder) \in S
<1> DEFINE key == [e \in S |-> SweepOrder(e)]
<1>1. \A e \in S : /\ key[e] = SweepOrder(e) /\ DOMAIN SweepOrder(e) = 1..2
                   /\ key[e][1] = e.sweep /\ key[e][2] = SideNumber(e.side)
  BY DEF SweepOrder
<1>2. \A e \in S : e.sweep \in Nat /\ e.side \in Directions
  BY EventAssumption
<1> HIDE DEF key
<1>3. 1..2 = {1, 2} /\ 2 \in Nat
  OBVIOUS
<1>4. NumberKeys(S, 2, key)
  BY <1>1, <1>2, <1>3, SideNumbers DEF NumberKeys
<1>5. \A e, f \in S : SameKey(key[e], key[f], 2) => e = f
  BY <1>1, <1>2, <1>3, SideNumbers DEF Distinct, SameKey
<1>6. PICK e \in S : \A f \in S \ {e} :
          KeyBefore(key[e], key[f], 2)
  BY <1>3, <1>4, <1>5, FirstKey
<1>7. \A f \in S \ {e} : Lower(SweepOrder(e), SweepOrder(f))
  BY <1>1, <1>6 DEF Lower, KeyBefore
<1> QED BY <1>7 DEF FirstBy

\* The row that is annotated next is one of those left, and none is earlier.
LEMMA NextRow ==
    ASSUME NEW S, S # {},
           \A row \in S : /\ row.opened \in Nat /\ row.side \in Directions
                          /\ row.cohort \in DOMAIN CohortNumber /\ row.event.sweep \in Nat,
           \A row, other \in S :
               row.side = other.side /\ row.cohort = other.cohort /\ row.event.sweep = other.event.sweep
                   => row = other
    PROVE  LET row == FirstBy(S, RowOrder)
           IN  row \in S /\ \A other \in S : row.opened <= other.opened
<1> DEFINE key == [row \in S |-> RowOrder(row)]
           first == FirstBy(S, RowOrder)
<1>1. \A row \in S : /\ key[row] = RowOrder(row) /\ DOMAIN RowOrder(row) = 1..4
                     /\ key[row][1] = row.opened /\ key[row][2] = SideNumber(row.side)
                     /\ key[row][3] = CohortNumber[row.cohort] /\ key[row][4] = row.event.sweep
  BY DEF RowOrder
<1>2. /\ \A c \in DOMAIN CohortNumber : CohortNumber[c] \in Nat
      /\ \A c, d \in DOMAIN CohortNumber : CohortNumber[c] = CohortNumber[d] => c = d
  BY DEF CohortNumber
<1> HIDE DEF key
<1>3. 1..4 = {1, 2, 3, 4} /\ 4 \in Nat
  OBVIOUS
<1>4. NumberKeys(S, 4, key)
  BY <1>1, <1>2, <1>3, SideNumbers DEF NumberKeys
<1>5. \A row, other \in S : SameKey(key[row], key[other], 4) => row = other
  BY <1>1, <1>2, <1>3, SideNumbers DEF SameKey
<1>6. PICK row \in S : \A other \in S \ {row} :
          KeyBefore(key[row], key[other], 4)
  BY <1>3, <1>4, <1>5, FirstKey
<1>7. \A other \in S \ {row} : Lower(RowOrder(row), RowOrder(other))
  BY <1>1, <1>6 DEF Lower, KeyBefore
<1>8. first \in S /\ \A other \in S \ {first} : Lower(RowOrder(first), RowOrder(other))
  BY <1>7 DEF FirstBy
<1> HIDE DEF first
<1>9. ASSUME NEW other \in S PROVE first.opened <= other.opened
  <2>1. CASE other = first
    BY <1>8, <2>1
  <2>2. CASE other # first
    <3>1. PICK i \in 1..4 : key[first][i] < key[other][i] /\ \A j \in 1..i - 1 : key[first][j] = key[other][j]
      BY <1>1, <1>8, <2>2 DEF Lower
    <3>2. i = 1 \/ 1 \in 1..i - 1
      BY <1>3
    <3>3. first.opened < other.opened \/ first.opened = other.opened
      BY <1>1, <1>8, <3>1, <3>2
    <3> QED BY <1>8, <3>3
  <2> QED BY <2>1, <2>2
<1> QED BY <1>8, <1>9 DEF first
\* What was sampled is sound and in order of time, and a row with a path is
\* primary unless a primary one before it is still open.
InOrder(list) ==
    /\ list \in Seq(SampleRows)
    /\ \A n \in DOMAIN list :
           /\ SoundOutcome(list[n]) /\ list[n].split = Split(list[n].opened)
           /\ list[n].primary => list[n].reason # "NO_EVALUABLE_PATH"
    /\ \A m, n \in DOMAIN list : m < n => list[m].opened <= list[n].opened
Taken(old, row) == old.primary /\ old.side = row.side /\ old.cohort = row.cohort
Picked(list, n) ==
    list[n].primary <=>
        \A m \in 1..n - 1 : ~ (Taken(list[m], list[n]) /\ list[m].closed > list[n].opened)
Picks(list) ==
    NoOverlap => \A n \in DOMAIN list : list[n].reason # "NO_EVALUABLE_PATH" => Picked(list, n)

\* The last exit of a sample is its latest.
LEMMA LastExitIsLatest ==
    ASSUME InOrder(sampled), Picks(sampled), NoOverlap, NEW row
    PROVE  /\ \A m \in DOMAIN sampled : Taken(sampled[m], row) => sampled[m].closed <= LastSampleExit(row)
           /\ \/ LastSampleExit(row) = 0
              \/ \E m \in DOMAIN sampled : Taken(sampled[m], row) /\ sampled[m].closed = LastSampleExit(row)
           /\ LastSampleExit(row) \in Nat
<1> DEFINE before == {n \in DOMAIN sampled : sampled[n].primary /\ SampleOf(sampled[n]) = SampleOf(row)}
<1>1. LastSampleExit(row) = IF before = {} THEN 0 ELSE sampled[Max(before)].closed
  BY DEF LastSampleExit
<1>2. before = {n \in DOMAIN sampled : Taken(sampled[n], row)}
  BY DEF Taken, SampleOf
<1>a. DOMAIN sampled = 1..Len(sampled) /\ Len(sampled) \in Nat
  BY DEF InOrder
<1>b. \A n \in DOMAIN sampled : sampled[n] \in SampleRows
  BY DEF InOrder
<1>3. \A n \in DOMAIN sampled : sampled[n].closed \in Nat /\ sampled[n].opened \in Nat
  BY <1>b DEF SampleRows
<1> HIDE DEF before
<1>4. CASE before = {}
  BY <1>1, <1>2, <1>4
<1>5. CASE before # {}
  <2>1. before \in SUBSET Int /\ Len(sampled) \in Int /\ \A n \in before : n <= Len(sampled)
    BY <1>2, <1>a
  <2>2. Max(before) \in before /\ \A n \in before : Max(before) >= n
    BY <1>5, <2>1, MaxOf
  <2> DEFINE k == Max(before)
  <2> HIDE DEF k
  <2>3. k \in before /\ \A n \in before : k >= n
    BY <2>2 DEF k
  <2>4. LastSampleExit(row) = sampled[k].closed
    BY <1>1, <1>5 DEF k
  <2>5. k \in DOMAIN sampled /\ Taken(sampled[k], row) /\ sampled[k].opened < sampled[k].closed
        /\ sampled[k].reason # "NO_EVALUABLE_PATH"
    BY <1>2, <2>3 DEF InOrder, SoundOutcome, Taken
  <2>6. ASSUME NEW m \in DOMAIN sampled, Taken(sampled[m], row) PROVE sampled[m].closed <= sampled[k].closed
    <3>1. m <= k /\ m \in Int /\ k \in Int /\ m >= 1
      BY <1>2, <1>a, <2>3, <2>6
    <3>2. CASE m = k
      BY <1>3, <3>2
    <3>3. CASE m < k
      <4>1. m \in 1..k - 1
        BY <3>1, <3>3
      <4>2. Taken(sampled[m], sampled[k])
        BY <2>5, <2>6 DEF Taken
      <4>3. Picked(sampled, k)
        BY <2>5 DEF Picks
      <4>4. ~ (sampled[m].closed > sampled[k].opened)
        BY <2>5, <4>1, <4>2, <4>3 DEF Picked, Taken
      <4> QED BY <1>3, <2>5, <4>4
    <3> QED BY <3>1, <3>2, <3>3
  <2> QED BY <1>3, <2>4, <2>5, <2>6
<1> QED BY <1>4, <1>5

\* A row is added that is not earlier than the others, and is primary if it
\* begins no earlier than the last exit of its sample.
LEMMA RowAdded ==
    ASSUME InOrder(sampled), Picks(sampled), NEW row \in SampleRows, SoundOutcome(row), row.split = Split(row.opened),
           \A n \in DOMAIN sampled : sampled[n].opened <= row.opened,
           \/ row.reason = "NO_EVALUABLE_PATH" /\ ~ row.primary
           \/ /\ row.reason # "NO_EVALUABLE_PATH"
              /\ row.primary <=> (NoOverlap => row.opened >= LastSampleExit(row))
    PROVE  InOrder(Append(sampled, row)) /\ Picks(Append(sampled, row))
<1> DEFINE new == Append(sampled, row)
           size == Len(sampled)
<1>1. /\ new \in Seq(SampleRows) /\ size \in Nat /\ DOMAIN sampled = 1..size /\ DOMAIN new = 1..size + 1
      /\ new[size + 1] = row /\ \A n \in 1..size : new[n] = sampled[n]
  BY DEF InOrder
<1>a. \A n \in 1..size : sampled[n] \in SampleRows
  BY <1>1 DEF InOrder
<1>b. \A r \in SampleRows : r.opened \in Nat /\ r.closed \in Nat
  BY DEF SampleRows
<1>2. /\ \A n \in 1..size :
             /\ SoundOutcome(sampled[n]) /\ sampled[n].split = Split(sampled[n].opened)
             /\ sampled[n].primary => sampled[n].reason # "NO_EVALUABLE_PATH"
             /\ sampled[n].opened <= row.opened /\ sampled[n].opened \in Nat /\ sampled[n].closed \in Nat
      /\ \A m, n \in 1..size : m < n => sampled[m].opened <= sampled[n].opened
      /\ row.opened \in Nat /\ row.closed \in Nat
  BY <1>1, <1>a, <1>b DEF InOrder
<1>4. NoOverlap => \A n \in 1..size : sampled[n].reason # "NO_EVALUABLE_PATH" => Picked(sampled, n)
  BY <1>1 DEF Picks
<1>5. NoOverlap =>
          /\ \A m \in 1..size : Taken(sampled[m], row) => sampled[m].closed <= LastSampleExit(row)
          /\ \/ LastSampleExit(row) = 0
             \/ \E m \in 1..size : Taken(sampled[m], row) /\ sampled[m].closed = LastSampleExit(row)
          /\ LastSampleExit(row) \in Nat
  BY <1>1, LastExitIsLatest
<1> HIDE DEF new, size
<1>6. \A n \in 1..size + 1 : n \in 1..size \/ n = size + 1
  BY <1>1
<1>7. \A n \in 1..size + 1 :
          /\ SoundOutcome(new[n]) /\ new[n].split = Split(new[n].opened)
          /\ new[n].primary => new[n].reason # "NO_EVALUABLE_PATH"
  <2> SUFFICES ASSUME NEW n \in 1..size + 1
      PROVE  /\ SoundOutcome(new[n]) /\ new[n].split = Split(new[n].opened)
             /\ new[n].primary => new[n].reason # "NO_EVALUABLE_PATH"
    OBVIOUS
  <2>1. CASE n \in 1..size
    BY <1>1, <1>2, <2>1
  <2>2. CASE n = size + 1
    BY <1>1, <2>2
  <2> QED BY <1>6, <2>1, <2>2
<1>8. \A m, n \in 1..size + 1 : m < n => new[m].opened <= new[n].opened
  BY <1>1, <1>2, <1>6
<1>9. InOrder(new)
  BY <1>1, <1>7, <1>8 DEF InOrder
<1>10. ASSUME NoOverlap, NEW n \in 1..size + 1, new[n].reason # "NO_EVALUABLE_PATH"
       PROVE  Picked(new, n)
  <2>1. CASE n \in 1..size
    <3>1. \A m \in 1..n - 1 : m \in 1..size
      BY <1>1, <2>1
    <3> QED BY <1>1, <1>4, <1>10, <2>1, <3>1 DEF Picked
  <2>2. CASE n = size + 1
    <3> DEFINE open == \E m \in 1..size : Taken(sampled[m], row) /\ sampled[m].closed > row.opened
    <3>1. row.opened >= LastSampleExit(row) <=> ~ open
      <4>1. \A m \in 1..size : Taken(sampled[m], row) => sampled[m].closed <= LastSampleExit(row)
        BY <1>5, <1>10
      <4>2. row.opened >= LastSampleExit(row) => ~ open
        BY <1>2, <1>5, <1>10, <4>1
      <4>3. ~ (row.opened >= LastSampleExit(row)) => open
        <5> SUFFICES ASSUME ~ (row.opened >= LastSampleExit(row)) PROVE open
          OBVIOUS
        <5>1. LastSampleExit(row) > row.opened /\ LastSampleExit(row) # 0
          BY <1>2, <1>5, <1>10
        <5> QED BY <1>5, <1>10, <5>1
      <4> QED BY <4>2, <4>3
    <3>2. new[n] = row /\ n - 1 = size /\ \A m \in 1..size : new[m] = sampled[m]
      BY <1>1, <2>2
    <3>3. row.primary <=> row.opened >= LastSampleExit(row)
      BY <1>10, <3>2
    <3>4. ~ open <=> \A m \in 1..n - 1 : ~ (Taken(new[m], new[n]) /\ new[m].closed > new[n].opened)
      BY <3>2
    <3> HIDE DEF open
    <3> QED BY <3>1, <3>2, <3>3, <3>4 DEF Picked
  <2> QED BY <1>6, <2>1, <2>2
<1>11. Picks(new)
  BY <1>1, <1>10 DEF Picks
<1> QED BY <1>9, <1>11 DEF new
\* The annotation of a row with a path decides only whether it is primary.
LEMMA AnnotatedRow ==
    ASSUME NEW row \in SampleRows, SoundOutcome(row)
    PROVE  LET done == Annotated(row)
           IN  /\ done \in SampleRows /\ SoundOutcome(done)
               /\ done.opened = row.opened /\ done.split = row.split /\ done.reason = row.reason
               /\ done.primary <=> (NoOverlap => row.opened >= LastSampleExit(row))
               /\ LastSampleExit(done) = LastSampleExit(row)
<1> DEFINE free == NoOverlap => row.opened >= LastSampleExit(row)
           done == [row EXCEPT !.primary = free]
<1>1. free \in BOOLEAN
  OBVIOUS
<1> HIDE DEF free
<1>2. /\ done \in SampleRows /\ done.opened = row.opened /\ done.split = row.split /\ done.reason = row.reason
      /\ done.side = row.side /\ done.cohort = row.cohort /\ done.closed = row.closed
      /\ done.observed = row.observed /\ done.sensitivity = row.sensitivity /\ done.primary = free
  BY <1>1 DEF SampleRows
<1>3. Annotated(row) = done
  BY DEF Annotated, free
<1> HIDE DEF done
<1>4. SoundOutcome(done)
  BY <1>2 DEF SoundOutcome
<1>5. LastSampleExit(done) = LastSampleExit(row)
  BY <1>2 DEF LastSampleExit, SampleOf
<1>6. done.primary <=> free
  BY <1>1, <1>2
<1> QED BY <1>2, <1>3, <1>4, <1>5, <1>6 DEF free

\* A row of the sweep replay that is not annotated yet.
RowLeft(row) ==
    \E e \in SweepEvents, cohort \in DOMAIN CohortNumber :
        /\ e.shift # 0 /\ e.shift < Len(starts)
        /\ row = EventRow(e, CloseOf(e.shift), cohort, Path(e.side, e.shift, OutcomeBars), NoSensitivity)

\* Nothing that is left is earlier than what was sampled.
EventInv ==
    /\ BarsInOrder /\ InOrder(sampled) /\ Picks(sampled)
    /\ study \in {"diagnostics", "sweeps"} /\ eventsLeft \subseteq SweepEvents
    /\ Distinct(eventsLeft \cup {row.event : row \in rowsLeft})
    /\ \A row \in rowsLeft : RowLeft(row)
    /\ study = "diagnostics" =>
           rowsLeft = {} /\ \A n \in DOMAIN sampled, e \in eventsLeft : sampled[n].opened <= EvaluationTime(e)
    /\ study = "sweeps" =>
           /\ eventsLeft # {} => sampled = <<>>
           /\ \A n \in DOMAIN sampled, row \in rowsLeft : sampled[n].opened <= row.opened

\* What is left to be annotated is a row like those of the sample.
LEMMA RowsLeft ==
    ASSUME BarsInOrder, NEW row, RowLeft(row)
    PROVE  /\ row \in SampleRows /\ SoundOutcome(row) /\ row.opened \in Nat /\ row.side \in Directions
           /\ row.cohort \in DOMAIN CohortNumber /\ row.event \in SweepEvents /\ row.event.sweep \in Nat
           /\ row.split = Split(row.opened) /\ row.reason # "NO_EVALUABLE_PATH" /\ row.side = row.event.side
           /\ row = EventRow(row.event, CloseOf(row.event.shift), row.cohort,
                             Path(row.side, row.event.shift, OutcomeBars), NoSensitivity)
<1>1. PICK e \in SweepEvents, cohort \in DOMAIN CohortNumber :
          /\ e.shift # 0 /\ e.shift < Len(starts)
          /\ row = EventRow(e, CloseOf(e.shift), cohort, Path(e.side, e.shift, OutcomeBars), NoSensitivity)
  BY DEF RowLeft
<1>2. /\ row.side = e.side /\ row.cohort = cohort /\ row.event = e /\ row.opened = CloseOf(e.shift)
      /\ row.split = Split(CloseOf(e.shift)) /\ row.reason = Path(e.side, e.shift, OutcomeBars).reason
  <2> DEFINE path == Path(e.side, e.shift, OutcomeBars)
             opened == CloseOf(e.shift)
  <2> HIDE DEF path, opened
  <2>1. row = EventRow(e, opened, cohort, path, NoSensitivity)
    BY <1>1 DEF path, opened
  <2>2. /\ row.side = e.side /\ row.cohort = cohort /\ row.event = e /\ row.opened = opened
        /\ row.split = Split(opened) /\ row.reason = path.reason
    BY <2>1 DEF EventRow
  <2> QED BY <2>2 DEF path, opened
<1>3. cohort \in CohortNames
  BY DEF CohortNames
<1>4. row \in SampleRows /\ SoundOutcome(row)
  BY <1>1, <1>3, RowOfPath
<1>5. e.shift \in Nat \ {0} /\ OutcomeBars \in Nat \ {0} /\ e.sweep \in Nat /\ e.side \in Directions
  BY <1>1, EventAssumption
<1>6. Path(e.side, e.shift, OutcomeBars).reason # "NO_EVALUABLE_PATH"
  BY <1>1, <1>5, PathTyped
<1>7. row.opened \in Nat
  BY <1>4 DEF SampleRows
<1> QED BY <1>1, <1>2, <1>4, <1>5, <1>6, <1>7

\* What a step leaves of the bars it leaves of what is said about them.
LEMMA BarsStand ==
    ASSUME UNCHANGED replayVars
    PROVE  /\ BarsInOrder => BarsInOrder'
           /\ \A list : InOrder(list) /\ Picks(list) => (InOrder(list) /\ Picks(list))'
           /\ \A row : RowLeft(row) => RowLeft(row)'
           /\ \A e : EvaluationTime(e)' = EvaluationTime(e)
<1>1. starts' = starts /\ market' = market
  BY DEF replayVars
<1>2. BarsInOrder => BarsInOrder'
  BY <1>1 DEF BarsInOrder
<1>3. \A row : SoundOutcome(row) => SoundOutcome(row)'
  BY <1>1 DEF SoundOutcome, CloseOf, Touch
<1>4. \A list : InOrder(list) => InOrder(list)'
  BY <1>3 DEF InOrder
<1>5. \A list : Picks(list) => Picks(list)'
  BY DEF Picks, Picked, Taken
<1>6. \A place : CloseOf(place)' = CloseOf(place)
  BY <1>1 DEF CloseOf
<1>7. ASSUME NEW side, NEW place
      PROVE  Path(side, place, OutcomeBars)' = Path(side, place, OutcomeBars)
  <2> DEFINE future == Future(place, OutcomeBars)
             ended == {p \in future : Ended(Touch(side, p))}
             exit == Min(ended \cup {Max(future)})
             seen == {p \in future : p <= exit}
  <2>1. Path(side, place, OutcomeBars) =
            [closed |-> CloseOf(exit), reason |-> ExitReason(Touch(side, exit)), observed |-> Cardinality(seen)]
    BY DEF Path
  <2>2. Path(side, place, OutcomeBars)' =
            [closed |-> CloseOf(exit), reason |-> ExitReason(Touch(side, exit)), observed |-> Cardinality(seen)]'
    BY DEF Path
  <2>3. future' = future
    BY <1>1 DEF Future
  <2>4. \A p : Touch(side, p)' = Touch(side, p)
    BY <1>1 DEF Touch
  <2> HIDE DEF future
  <2>5. ended' = ended
    BY <2>3, <2>4
  <2> HIDE DEF ended
  <2>6. exit' = exit
    BY <2>3, <2>5
  <2> HIDE DEF exit
  <2>7. seen' = seen
    BY <2>3, <2>6
  <2> HIDE DEF seen
  <2>8. CloseOf(exit)' = CloseOf(exit) /\ Touch(side, exit)' = Touch(side, exit)
    BY <1>1, <2>6 DEF CloseOf, Touch
  <2> QED BY <2>1, <2>2, <2>7, <2>8
<1>8. \A row : RowLeft(row) => RowLeft(row)'
  BY <1>1, <1>6, <1>7 DEF RowLeft, EventRow
<1>9. \A e : EvaluationTime(e)' = EvaluationTime(e)
  BY <1>6 DEF EvaluationTime
<1> QED BY <1>2, <1>4, <1>5, <1>8, <1>9
\* What a diagnostic row is of an event that is no earlier than the sample.
LEMMA DiagnosticRowIs ==
    ASSUME BarsInOrder, InOrder(sampled), Picks(sampled), NEW e \in SweepEvents
    PROVE  LET row == DiagnosticRow(e)
           IN  /\ row \in SampleRows /\ SoundOutcome(row)
               /\ row.split = Split(row.opened) /\ row.opened = EvaluationTime(e)
               /\ \/ row.reason = "NO_EVALUABLE_PATH" /\ ~ row.primary
                  \/ /\ row.reason # "NO_EVALUABLE_PATH"
                     /\ row.primary <=> (NoOverlap => row.opened >= LastSampleExit(row))
<1> DEFINE opened == EvaluationTime(e)
<1>1. opened \in Nat /\ e.side \in Directions
  BY EventTimes
<1>2. CASE ~ Evaluable(e)
  <2> DEFINE row == EventRow(e, opened, "ALL", NoPath, NoSensitivity)
  <2>1. DiagnosticRow(e) = row
    BY <1>2 DEF DiagnosticRow
  <2> HIDE DEF opened
  <2>2. row.reason = "NO_EVALUABLE_PATH" /\ row.primary = FALSE /\ row.opened = opened
        /\ row.split = Split(row.opened)
    BY DEF EventRow, NoPath
  <2>3. Split(opened) \in {"DEVELOPMENT", "VALIDATION"} /\ "ALL" \in CohortNames
        /\ NoSensitivity \in SensitivityValues /\ "NO_EVALUABLE_PATH" \in Reasons
    BY DEF Split, CohortNames, SensitivityValues, Reasons
  <2>4. row \in SampleRows
    BY <1>1, <2>3 DEF EventRow, NoPath, SampleRows
  <2> HIDE DEF row
  <2>5. SoundOutcome(row)
    BY <2>2 DEF SoundOutcome
  <2> QED BY <2>1, <2>2, <2>4, <2>5 DEF opened
<1>3. CASE Evaluable(e)
  <2> DEFINE path == Path(e.side, e.shift, OutcomeBars)
             sensitivity == Sensitivity(e.side, e.shift)
             row == EventRow(e, opened, "ALL", path, sensitivity)
  <2>1. /\ e.shift # 0 /\ e.shift \in Nat \ {0} /\ e.shift + OutcomeBars <= Len(starts)
        /\ OutcomeBars \in EventHorizons /\ OutcomeBars \in Nat \ {0}
    BY <1>3, EventAssumption DEF Evaluable, NoPlace
  <2>2. e.shift < Len(starts) /\ opened = CloseOf(e.shift)
    BY <2>1, EventTimes DEF BarsInOrder
  <2>3. "ALL" \in CohortNames
    BY DEF CohortNames
  <2>4. row \in SampleRows /\ SoundOutcome(row)
    BY <2>1, <2>2, <2>3, RowOfPath
  <2>5. path.reason # "NO_EVALUABLE_PATH"
    BY <2>1, <2>2, PathTyped
  <2>6. sensitivity[OutcomeBars] = path
    BY <2>1 DEF Sensitivity
  <2> HIDE DEF path, sensitivity, opened
  <2>7. DiagnosticRow(e) = Annotated(row)
    BY <1>3, <2>6 DEF DiagnosticRow, opened, sensitivity
  <2>8. row.reason # "NO_EVALUABLE_PATH" /\ row.split = Split(row.opened) /\ row.opened = opened
    BY <2>5 DEF EventRow
  <2> HIDE DEF row
  <2> QED BY <2>4, <2>7, <2>8, AnnotatedRow DEF opened
<1> QED BY <1>2, <1>3

\* The next event is added to the sample where it belongs.
LEMMA DiagnoseEventStep ==
    ASSUME EventInv, DiagnoseEvent
    PROVE  EventInv'
<1> DEFINE e == FirstBy(eventsLeft, DiagnosticOrder)
           row == DiagnosticRow(e)
           more == Append(sampled, row)
<1>1. /\ study = "diagnostics" /\ study' = study /\ eventsLeft # {} /\ eventsLeft' = eventsLeft \ {e}
      /\ rowsLeft' = rowsLeft /\ UNCHANGED replayVars /\ sampled' \in {sampled, more}
  BY DEF DiagnoseEvent
<1>2. /\ BarsInOrder /\ InOrder(sampled) /\ Picks(sampled) /\ eventsLeft \subseteq SweepEvents /\ rowsLeft = {}
      /\ \A n \in DOMAIN sampled, f \in eventsLeft : sampled[n].opened <= EvaluationTime(f)
  BY <1>1 DEF EventInv
<1>3. Distinct(eventsLeft)
  BY DEF EventInv, Distinct
<1>4. e \in eventsLeft /\ \A f \in eventsLeft : EvaluationTime(e) <= EvaluationTime(f)
  BY <1>1, <1>2, <1>3, NextEvent
<1> HIDE DEF e
<1>5. /\ row \in SampleRows /\ SoundOutcome(row)
      /\ row.split = Split(row.opened) /\ row.opened = EvaluationTime(e)
      /\ \/ row.reason = "NO_EVALUABLE_PATH" /\ ~ row.primary
         \/ /\ row.reason # "NO_EVALUABLE_PATH"
            /\ row.primary <=> (NoOverlap => row.opened >= LastSampleExit(row))
  BY <1>2, <1>4, DiagnosticRowIs
<1> HIDE DEF row
<1>6. InOrder(more) /\ Picks(more)
  BY <1>2, <1>4, <1>5, RowAdded
<1>7. \A n \in DOMAIN more : more[n] = row \/ \E m \in DOMAIN sampled : more[n] = sampled[m]
  BY <1>2 DEF InOrder
<1> HIDE DEF more
<1>8. InOrder(sampled') /\ Picks(sampled')
  BY <1>1, <1>2, <1>6
<1>9. InOrder(sampled)' /\ Picks(sampled)' /\ BarsInOrder'
  BY <1>1, <1>2, <1>8, BarsStand
<1>10. \A n \in DOMAIN sampled', f \in eventsLeft' : sampled'[n].opened <= EvaluationTime(f)
  BY <1>1, <1>2, <1>4, <1>5, <1>7
<1>11. \A n \in DOMAIN sampled', f \in eventsLeft' : sampled'[n].opened <= EvaluationTime(f)'
  BY <1>1, <1>10, BarsStand
<1>12. Distinct(eventsLeft \cup {r.event : r \in rowsLeft})'
  BY <1>1, <1>2, <1>3 DEF Distinct
<1> QED BY <1>1, <1>2, <1>9, <1>11, <1>12 DEF EventInv
\* A sweep that is ready leaves its rows, before any row is annotated.
LEMMA ReplaySweepStep ==
    ASSUME EventInv, ReplaySweep
    PROVE  EventInv'
<1> DEFINE e == FirstBy(eventsLeft, SweepOrder)
<1>1. /\ study = "sweeps" /\ study' = study /\ eventsLeft # {} /\ eventsLeft' = eventsLeft \ {e}
      /\ rowsLeft' = IF Replayed(e) THEN rowsLeft \cup SweepRows(e) ELSE rowsLeft
      /\ UNCHANGED replayVars /\ sampled' = sampled
  BY DEF ReplaySweep
<1>2. /\ BarsInOrder /\ InOrder(sampled) /\ Picks(sampled) /\ eventsLeft \subseteq SweepEvents /\ sampled = <<>>
      /\ Distinct(eventsLeft \cup {row.event : row \in rowsLeft}) /\ \A row \in rowsLeft : RowLeft(row)
  BY <1>1 DEF EventInv
<1>3. Distinct(eventsLeft)
  BY <1>2 DEF Distinct
<1>4. e \in eventsLeft /\ e \in SweepEvents
  BY <1>1, <1>2, <1>3, NextSweep
<1> HIDE DEF e
<1>5. ASSUME Replayed(e), NEW row \in SweepRows(e) PROVE RowLeft(row) /\ row.event = e
  <2>1. PICK cohort \in CohortsOf(e) :
            row = EventRow(e, CloseOf(e.shift), cohort, Path(e.side, e.shift, OutcomeBars), NoSensitivity)
    BY <1>5 DEF SweepRows
  <2>2. cohort \in DOMAIN CohortNumber
    BY DEF CohortsOf, CohortNumber
  <2>3. e.shift # 0 /\ Future(e.shift, OutcomeBars) # {}
    BY <1>5 DEF Replayed, NoPlace
  <2>4. PICK p \in DOMAIN starts : e.shift < p
    BY <2>3 DEF Future
  <2>5. e.shift < Len(starts)
    <3>1. e.shift \in Nat /\ Len(starts) \in Nat /\ p \in 1..Len(starts)
      BY <1>2, <1>4, EventAssumption DEF BarsInOrder
    <3> QED BY <2>4, <3>1
  <2>6. row.event = e
    BY <2>1 DEF EventRow
  <2> QED BY <1>4, <2>1, <2>2, <2>3, <2>5, <2>6 DEF RowLeft
<1>6. \A row \in rowsLeft' : row \in rowsLeft \/ (RowLeft(row) /\ row.event = e)
  BY <1>1, <1>5
<1>7. \A row \in rowsLeft' : RowLeft(row)
  BY <1>2, <1>6
<1>8. \A row \in rowsLeft' : RowLeft(row)'
  BY <1>1, <1>7, BarsStand
<1>9. eventsLeft' \cup {row.event : row \in rowsLeft'} \subseteq eventsLeft \cup {row.event : row \in rowsLeft}
  BY <1>1, <1>4, <1>6
<1>10. Distinct(eventsLeft \cup {row.event : row \in rowsLeft})'
  BY <1>2, <1>9 DEF Distinct
<1>11. BarsInOrder' /\ InOrder(sampled)' /\ Picks(sampled)'
  BY <1>1, <1>2, BarsStand
<1>12. DOMAIN sampled' = {}
  BY <1>1, <1>2
<1> QED BY <1>1, <1>2, <1>8, <1>10, <1>11, <1>12 DEF EventInv

\* The next row is annotated and added to the sample where it belongs.
LEMMA AnnotateRowStep ==
    ASSUME EventInv, AnnotateRow
    PROVE  EventInv'
<1> DEFINE row == FirstBy(rowsLeft, RowOrder)
           done == Annotated(row)
           more == Append(sampled, done)
<1>1. /\ study = "sweeps" /\ study' = study /\ eventsLeft = {} /\ eventsLeft' = eventsLeft /\ rowsLeft # {}
      /\ rowsLeft' = rowsLeft \ {row} /\ UNCHANGED replayVars /\ sampled' = more
  BY DEF AnnotateRow
<1>2. /\ BarsInOrder /\ InOrder(sampled) /\ Picks(sampled)
      /\ Distinct(eventsLeft \cup {r.event : r \in rowsLeft}) /\ \A r \in rowsLeft : RowLeft(r)
      /\ \A n \in DOMAIN sampled, r \in rowsLeft : sampled[n].opened <= r.opened
  BY <1>1 DEF EventInv
<1>3. \A r \in rowsLeft :
          /\ r \in SampleRows /\ SoundOutcome(r) /\ r.opened \in Nat /\ r.side \in Directions
          /\ r.cohort \in DOMAIN CohortNumber /\ r.event.sweep \in Nat
          /\ r.split = Split(r.opened) /\ r.reason # "NO_EVALUABLE_PATH"
  BY <1>2, RowsLeft
<1>4. ASSUME NEW r \in rowsLeft, NEW s \in rowsLeft,
             r.side = s.side, r.cohort = s.cohort, r.event.sweep = s.event.sweep
      PROVE  r = s
  <2>1. r.side = r.event.side /\ s.side = s.event.side
    BY <1>2, RowsLeft
  <2>2. r.event = s.event
    BY <1>2, <1>4, <2>1 DEF Distinct
  <2>3. /\ r = EventRow(r.event, CloseOf(r.event.shift), r.cohort,
                        Path(r.side, r.event.shift, OutcomeBars), NoSensitivity)
        /\ s = EventRow(s.event, CloseOf(s.event.shift), s.cohort,
                        Path(s.side, s.event.shift, OutcomeBars), NoSensitivity)
    BY <1>2, RowsLeft
  <2> QED BY <1>4, <2>2, <2>3
<1>5. row \in rowsLeft /\ \A r \in rowsLeft : row.opened <= r.opened
  BY <1>1, <1>3, <1>4, NextRow
<1> HIDE DEF row
<1>6. /\ done \in SampleRows /\ SoundOutcome(done) /\ done.opened = row.opened
      /\ done.split = Split(done.opened) /\ done.reason # "NO_EVALUABLE_PATH"
      /\ done.primary <=> (NoOverlap => done.opened >= LastSampleExit(done))
  BY <1>3, <1>5, AnnotatedRow
<1> HIDE DEF done
<1>7. \A n \in DOMAIN sampled : sampled[n].opened <= done.opened
  BY <1>2, <1>5, <1>6
<1>8. InOrder(more) /\ Picks(more)
  BY <1>2, <1>6, <1>7, RowAdded
<1>9. \A n \in DOMAIN more : more[n] = done \/ \E m \in DOMAIN sampled : more[n] = sampled[m]
  BY <1>2 DEF InOrder
<1> HIDE DEF more
<1>10. BarsInOrder' /\ InOrder(sampled)' /\ Picks(sampled)'
  BY <1>1, <1>2, <1>8, BarsStand
<1>11. \A r \in rowsLeft' : RowLeft(r)'
  BY <1>1, <1>2, BarsStand
<1>12. Distinct(eventsLeft \cup {r.event : r \in rowsLeft})'
  <2>1. eventsLeft' \cup {r.event : r \in rowsLeft'} \subseteq eventsLeft \cup {r.event : r \in rowsLeft}
    BY <1>1
  <2> QED BY <1>2, <2>1 DEF Distinct
<1>13. \A n \in DOMAIN sampled', r \in rowsLeft' : sampled'[n].opened <= r.opened
  BY <1>1, <1>2, <1>5, <1>6, <1>9
<1> QED BY <1>1, <1>2, <1>10, <1>11, <1>12, <1>13 DEF EventInv

\* A study begins with its bars in order and nothing sampled.
LEMMA EventStarts == EventInit => EventInv
<1> SUFFICES ASSUME EventInit PROVE EventInv
  OBVIOUS
<1>1. market \in EventMarkets /\ DOMAIN market \in SUBSET Nat /\ IsFiniteSet(DOMAIN market)
  BY EventAssumption DEF EventInit
<1>2. /\ starts = Sorted(DOMAIN market) /\ rowsLeft = {} /\ sampled = <<>> /\ study \in {"diagnostics", "sweeps"}
      /\ eventsLeft \in EventSets
  BY DEF EventInit
<1>3. /\ starts \in Seq(Nat) /\ Len(starts) = Cardinality(DOMAIN market)
      /\ \A i, j \in DOMAIN starts : i < j => starts[i] < starts[j]
  BY <1>1, <1>2, SortedBars
<1>4. \A e \in SweepEvents : {e.sweep, e.reclaim, e.shift} \subseteq 0..Len(starts)
  BY <1>1, <1>3, EventAssumption
<1>5. eventsLeft \subseteq SweepEvents /\ Distinct(eventsLeft)
  <2>1. eventsLeft \in UNION {kSubset(n, SweepEvents) : n \in 0..MaxEvents} /\ Distinct(eventsLeft)
    BY <1>2 DEF EventSets, Distinct
  <2>2. PICK n \in 0..MaxEvents : eventsLeft \in kSubset(n, SweepEvents)
    BY <2>1
  <2> QED BY <2>1, <2>2 DEF kSubset
<1>6. Distinct(eventsLeft \cup {row.event : row \in rowsLeft})
  BY <1>2, <1>5 DEF Distinct
<1>7. DOMAIN sampled = {} /\ sampled \in Seq(SampleRows)
  BY <1>2
<1> QED BY <1>2, <1>3, <1>4, <1>5, <1>6, <1>7 DEF EventInv, BarsInOrder, InOrder, Picks

\* A step that leaves everything as it is keeps what holds of a study.
LEMMA EventStutters ==
    ASSUME EventInv, UNCHANGED <<eventVars, replayVars>>
    PROVE  EventInv'
<1>1. UNCHANGED replayVars /\ UNCHANGED <<study, eventsLeft, rowsLeft, sampled>>
  BY DEF eventVars
<1>2. BarsInOrder' /\ InOrder(sampled)' /\ Picks(sampled)' /\ \A r \in rowsLeft' : RowLeft(r)'
  BY <1>1, BarsStand DEF EventInv
<1>3. \A e : EvaluationTime(e)' = EvaluationTime(e)
  BY <1>1, BarsStand
<1>4. Distinct(eventsLeft \cup {r.event : r \in rowsLeft})'
  BY <1>1 DEF EventInv, Distinct
<1> QED BY <1>1, <1>2, <1>3, <1>4 DEF EventInv
\* A row with a path is primary unless an open one of its sample is.
LEMMA PrimaryByTime == EventInv => PrimaryIsByTime
<1> SUFFICES ASSUME EventInv, NoOverlap, NEW n \in DOMAIN sampled, sampled[n].reason # "NO_EVALUABLE_PATH"
    PROVE  sampled[n].primary <=>
               {m \in DOMAIN sampled \ {n} :
                   /\ sampled[m].primary
                   /\ <<sampled[m].side, sampled[m].cohort>> = <<sampled[n].side, sampled[n].cohort>>
                   /\ sampled[m].opened <= sampled[n].opened /\ sampled[n].opened < sampled[m].closed} = {}
  BY DEF PrimaryIsByTime
<1> DEFINE open == {m \in DOMAIN sampled \ {n} :
                       /\ sampled[m].primary
                       /\ <<sampled[m].side, sampled[m].cohort>> = <<sampled[n].side, sampled[n].cohort>>
                       /\ sampled[m].opened <= sampled[n].opened /\ sampled[n].opened < sampled[m].closed}
<1>1. open = {m \in DOMAIN sampled \ {n} : Taken(sampled[m], sampled[n])
                  /\ sampled[m].opened <= sampled[n].opened /\ sampled[n].opened < sampled[m].closed}
  BY DEF Taken
<1> HIDE DEF open
<1>2. InOrder(sampled) /\ Picks(sampled)
  BY DEF EventInv
<1>3. DOMAIN sampled = 1..Len(sampled) /\ Len(sampled) \in Nat /\ \A m \in DOMAIN sampled : sampled[m] \in SampleRows
  BY <1>2 DEF InOrder
<1>4. \A m \in DOMAIN sampled : sampled[m].opened \in Nat /\ sampled[m].closed \in Nat
  BY <1>3 DEF SampleRows
<1>5. \A m, k \in DOMAIN sampled : m < k => sampled[m].opened <= sampled[k].opened
  BY <1>2 DEF InOrder
<1>6. ASSUME open = {} PROVE sampled[n].primary
  <2>1. ASSUME NEW m \in 1..n - 1, Taken(sampled[m], sampled[n]), sampled[m].closed > sampled[n].opened
        PROVE  FALSE
    <3>1. m \in DOMAIN sampled \ {n} /\ m < n
      BY <1>3
    <3>2. m \in open
      BY <1>1, <1>4, <1>5, <2>1, <3>1
    <3> QED BY <1>6, <3>2
  <2>2. Picked(sampled, n)
    BY <1>2 DEF Picks
  <2> QED BY <2>1, <2>2 DEF Picked
<1>7. ASSUME sampled[n].primary, NEW m \in open PROVE FALSE
  <2>1. /\ m \in DOMAIN sampled /\ m # n /\ Taken(sampled[m], sampled[n])
        /\ sampled[m].opened <= sampled[n].opened /\ sampled[n].opened < sampled[m].closed
    BY <1>1, <1>7
  <2>2. CASE m < n
    <3>1. m \in 1..n - 1
      BY <1>3, <2>1, <2>2
    <3>2. Picked(sampled, n)
      BY <1>2 DEF Picks
    <3>3. sampled[m].closed > sampled[n].opened
      BY <1>4, <2>1
    <3> QED BY <1>7, <2>1, <3>1, <3>2, <3>3 DEF Picked
  <2>3. CASE n < m
    <3>1. n \in 1..m - 1
      BY <1>3, <2>1, <2>3
    <3>2. sampled[n].opened = sampled[m].opened
      BY <1>4, <1>5, <2>1, <2>3
    <3>3. sampled[n].opened < sampled[n].closed
      BY <1>2 DEF InOrder, SoundOutcome
    <3>4. sampled[m].primary /\ Taken(sampled[n], sampled[m])
      BY <1>7, <2>1 DEF Taken
    <3>5. sampled[m].reason # "NO_EVALUABLE_PATH"
      BY <1>2, <2>1, <3>4 DEF InOrder
    <3>6. Picked(sampled, m)
      BY <1>2, <2>1, <3>5 DEF Picks
    <3>7. sampled[n].closed > sampled[m].opened
      BY <1>4, <2>1, <3>2, <3>3
    <3> QED BY <3>1, <3>4, <3>6, <3>7 DEF Picked
  <2>4. m < n \/ n < m
    BY <1>3, <2>1
  <2> QED BY <2>2, <2>3, <2>4
<1>8. sampled[n].primary <=> open = {}
  BY <1>6, <1>7
<1> QED BY <1>8 DEF open

\* The outcome of a row is that of the bars between its times.
LEMMA OutcomeAfterConfirmation == EventInv => OutcomeIsAfterConfirmation
<1> SUFFICES ASSUME EventInv, NEW n \in DOMAIN sampled, sampled[n].reason # "NO_EVALUABLE_PATH"
    PROVE  LET row == sampled[n]
               places == {p \in DOMAIN starts : row.opened <= starts[p] /\ starts[p] < row.closed}
           IN  /\ places # {} /\ row.observed = Cardinality(places)
               /\ \A p \in places \ {Max(places)} : ~Ended(Touch(row.side, p))
               /\ row.reason = ExitReason(Touch(row.side, Max(places)))
               /\ \A h \in DOMAIN row.sensitivity :
                      \/ row.sensitivity[h].reason = "TIME_EXIT" /\ row.sensitivity[h].observed = h
                      \/ row.sensitivity[h] =
                             [closed |-> row.closed, reason |-> row.reason, observed |-> row.observed]
  BY DEF OutcomeIsAfterConfirmation
<1> DEFINE row == sampled[n]
           places == {p \in DOMAIN starts : row.opened <= starts[p] /\ starts[p] < row.closed}
<1>1. BarsInOrder /\ SoundOutcome(row)
  BY DEF EventInv, InOrder
<1> HIDE DEF row
<1>2. row.reason # "NO_EVALUABLE_PATH"
  BY DEF row
<1>3. PICK place, exit \in DOMAIN starts :
          /\ place < exit /\ row.opened = CloseOf(place) /\ row.closed = CloseOf(exit)
          /\ row.observed = Cardinality(place + 1 .. exit)
          /\ row.reason = ExitReason(Touch(row.side, exit))
          /\ \A p \in place + 1 .. exit - 1 : ~ Ended(Touch(row.side, p))
  BY <1>1, <1>2 DEF SoundOutcome
<1>4. places = place + 1 .. exit
  BY <1>1, <1>3, TimesArePlaces
<1>5. place \in Nat /\ exit \in Nat
  BY <1>1 DEF BarsInOrder
<1> HIDE DEF places
<1>6. exit \in places /\ places \in SUBSET Int /\ \A p \in places : p <= exit
  BY <1>3, <1>4, <1>5
<1>7. Max(places) = exit
  <2>1. places # {} /\ exit \in Int
    BY <1>5, <1>6
  <2>2. Max(places) \in places /\ \A p \in places : Max(places) >= p
    BY <1>6, <2>1, MaxOf
  <2> DEFINE last == Max(places)
  <2> HIDE DEF last
  <2>3. last \in places /\ last >= exit
    BY <1>6, <2>2 DEF last
  <2>4. last \in Int /\ last <= exit
    BY <1>6, <2>3
  <2> QED BY <1>5, <2>3, <2>4 DEF last
<1>8. \A p \in places \ {exit} : p \in place + 1 .. exit - 1
  BY <1>4, <1>5
<1>9. \A h \in DOMAIN row.sensitivity :
          \/ row.sensitivity[h].reason = "TIME_EXIT" /\ row.sensitivity[h].observed = h
          \/ row.sensitivity[h] = [closed |-> row.closed, reason |-> row.reason, observed |-> row.observed]
  BY <1>1, <1>2 DEF SoundOutcome
<1>10. /\ places # {} /\ row.observed = Cardinality(places)
       /\ \A p \in places \ {Max(places)} : ~Ended(Touch(row.side, p))
       /\ row.reason = ExitReason(Touch(row.side, Max(places)))
  BY <1>3, <1>4, <1>6, <1>7, <1>8
<1> QED BY <1>9, <1>10 DEF row, places

\* Development comes before validation, as its rows come first.
LEMMA SplitByTime == EventInv => SplitIsChronological
<1> SUFFICES ASSUME EventInv, NEW n \in DOMAIN sampled, NEW m \in DOMAIN sampled,
                    m < n, sampled[n].split = "DEVELOPMENT"
    PROVE  sampled[m].split = "DEVELOPMENT"
  BY DEF SplitIsChronological
<1>1. /\ sampled[n].split = Split(sampled[n].opened) /\ sampled[m].split = Split(sampled[m].opened)
      /\ sampled[m].opened <= sampled[n].opened
  BY DEF EventInv, InOrder
<1>2. sampled[m] \in SampleRows /\ sampled[n] \in SampleRows
  BY DEF EventInv, InOrder
<1>3. sampled[m].opened \in Nat /\ sampled[n].opened \in Nat /\ DevelopmentEnd \in Nat
  BY <1>2, EventAssumption DEF SampleRows
<1>4. sampled[n].opened < DevelopmentEnd
  BY <1>1 DEF Split
<1> QED BY <1>1, <1>3, <1>4 DEF Split

\* The primary samples of both studies are without overlap and leave out
\* nothing else, an outcome is that of the bars behind the confirmation, and
\* the split is chronological.
THEOREM EventSamplesAreSoundHolds == EventSpec => []EventSamplesAreSound
<1>1. EventInv /\ [EventNext]_<<eventVars, replayVars>> => EventInv'
  <2> SUFFICES ASSUME EventInv, [EventNext]_<<eventVars, replayVars>> PROVE EventInv'
    OBVIOUS
  <2>1. CASE DiagnoseEvent
    BY <2>1, DiagnoseEventStep
  <2>2. CASE ReplaySweep
    BY <2>2, ReplaySweepStep
  <2>3. CASE AnnotateRow
    BY <2>3, AnnotateRowStep
  <2>4. CASE UNCHANGED <<eventVars, replayVars>>
    BY <2>4, EventStutters
  <2> QED BY <2>1, <2>2, <2>3, <2>4 DEF EventNext
<1>2. EventInv => EventSamplesAreSound
  BY PrimaryByTime, OutcomeAfterConfirmation, SplitByTime DEF EventSamplesAreSound
<1> QED BY <1>1, <1>2, EventStarts, PTL DEF EventSpec
=============================================================================
