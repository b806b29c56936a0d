--------------------------- MODULE KeyVaultProofs ---------------------------
(* Proofs about KeyVault, for any secrets and any bounds.                  *)
EXTENDS KeyVault, TLAPS

\* The values that stand for nothing.
LEMMA NoneTypes ==
  NoKey \in Keys /\ NoTask \in Tasks /\ NoProbe \in Probes /\ NoExport \in Exports
BY VersionsAssumption
DEF NoKey, Keys, NoTask, Tasks, Pcs, NoProbe, Probes, NoExport, Exports

LEMMA InitTypeOK == Init => TypeOK
<1> SUFFICES ASSUME Init PROVE TypeOK
  OBVIOUS
<1>1. store \in [Versions -> Nat] /\ vault \in [Secrets -> Keys]
  BY NoneTypes DEF Init
<1>2. cleanup \in 0..MaxVersion /\ minted \in Nat /\ held \in SUBSET Nat
  BY VersionsAssumption DEF Init
<1>3. budget \in [Events -> Nat]
  BY EventsAssumption DEF Init
<1> QED
  BY <1>1, <1>2, <1>3, NoneTypes DEF Init, TypeOK

LEMMA LostBudget ==
  Budget["lose"] \in Nat /\ (TypeOK => budget["lose"] \in Nat)
BY EventsAssumption DEF TypeOK, Events

LEMMA InitInv == Init => Inv
<1> SUFFICES ASSUME Init PROVE Inv
  OBVIOUS
<1>1. /\ TypeOK /\ budget = Budget
      /\ task.pc = "idle" /\ probe.pc = "idle" /\ export.pc = "idle"
      /\ task = NoTask /\ probe = NoProbe /\ export = NoExport
      /\ record = NoKey /\ material = NoKey /\ cleanup = 0 /\ mark = FALSE
      /\ \A s \in Secrets : vault[s] = NoKey
      /\ \A v \in Versions : store[v] = 0
  BY InitTypeOK DEF Init, NoTask, NoProbe, NoExport
<1>2. Spent
  BY <1>1, LostBudget DEF Spent
<1>3. Quiet /\ OldVersions /\ Deleted /\ TaskKeys /\ Marked
  BY <1>1
  DEF Quiet, OldVersions, Deleted, TaskKeys, Marked, Rotating, Importing,
      Committed
<1>4. KeyIsStored /\ SecretsAreCurrent /\ OldKeysAreCleaned
  BY <1>1 DEF KeyIsStored, SecretsAreCurrent, OldKeysAreCleaned
<1> QED
  BY <1>1, <1>2, <1>3, <1>4 DEF Inv

\* An event happens once more.
LEMMA SpendType ==
  ASSUME TypeOK, NEW e \in Events, Spend(e) PROVE budget' \in [Events -> Nat]
BY DEF TypeOK, Spend

\* The running operation moves to its next step.
LEMMA GotoType ==
  ASSUME TypeOK, NEW pc \in Pcs, Goto(pc) PROVE task' \in Tasks
BY DEF TypeOK, Tasks, Goto

-----------------------------------------------------------------------------
\* What an empty database's first start leaves for InitializeRecord.
LEMMA StartFreshTask ==
  ASSUME Inv, StartFresh
  PROVE  /\ task = NoTask /\ probe.pc = "idle" /\ probe' = probe
         /\ \/ task' = NoTask
            \/ /\ task'.pc = "record" /\ task'.new.version = 1
               /\ task'.new.key = store'[1]
<1>1. task = NoTask /\ probe.pc = "idle" /\ probe' = probe
  BY DEF StartFresh, Inv, Quiet, NoProbe
<1>2. 1 \in Versions /\ store \in [Versions -> Nat]
  BY VersionsAssumption DEF Inv, TypeOK, Versions
<1> DEFINE Recording(k) == [NoTask EXCEPT !.pc = "record", !.new = k]
<1>3. \A k : Recording(k).pc = "record" /\ Recording(k).new = k
  BY DEF NoTask
<1>4. CASE store[1] # 0 /\ UNCHANGED store
                       /\ task' = Recording([version |-> 1, key |-> store[1]])
  BY <1>1, <1>3, <1>4
<1>5. CASE /\ store' = [store EXCEPT ![1] = minted + 1]
           /\ task' = Recording([version |-> 1, key |-> minted + 1])
  <2>1. store'[1] = minted + 1
    BY <1>2, <1>5
  <2> QED
    BY <1>1, <1>3, <1>5, <2>1
<1>6. CASE UNCHANGED task
  BY <1>1, <1>6
<1> QED
  BY <1>4, <1>5, <1>6 DEF StartFresh

\* Every variable keeps its type.
LEMMA TypeStep == Inv /\ [Next]_vars => TypeOK'
<1> SUFFICES ASSUME Inv, [Next]_vars PROVE TypeOK'
  OBVIOUS
<1> USE VersionsAssumption
    DEF Inv, TypeOK, At, Free, disk, history, aside
<1>1. CASE Start
  BY <1>1, NoneTypes, SpendType DEF Start, Events
<1>2. CASE StartFresh
  <2>1. /\ [version |-> 1, key |-> store[1]] \in Keys
        /\ [version |-> 1, key |-> minted + 1] \in Keys
    BY DEF Keys, Versions
  <2>2. \A k \in Keys : [NoTask EXCEPT !.pc = "record", !.new = k] \in Tasks
    BY NoneTypes DEF Tasks, Pcs
  <2>3. task' \in Tasks
    BY <1>2, <2>1, <2>2 DEF StartFresh
  <2>4. store' \in [Versions -> Nat] /\ minted' \in Nat
    BY <1>2 DEF StartFresh
  <2>5. budget' \in [Events -> Nat]
    BY <1>2, SpendType DEF StartFresh, Events
  <2> QED
    BY <1>2, <2>3, <2>4, <2>5 DEF StartFresh
<1>3. CASE InitializeRecord
  BY <1>3, NoneTypes DEF InitializeRecord, Tasks, Keys
<1>4. CASE Rotate
  BY <1>4, NoneTypes DEF Rotate, Tasks, Pcs
<1>5. CASE RetryDelete
  BY <1>5, GotoType DEF RetryDelete, Pcs, Tasks
<1>6. CASE RetryClear
  BY <1>6, GotoType DEF RetryClear, Pcs
<1>7. CASE ReadSecrets
  BY <1>7, NoneTypes DEF ReadSecrets, Tasks, Pcs, CanRotate, Rows, Keys, Unlocked, NoKey
<1>8. CASE StoreKey
  BY <1>8, GotoType DEF StoreKey, Pcs, Tasks, Keys
<1>9. CASE Commit
  BY <1>9, GotoType DEF Commit, Pcs, Tasks, Keys
<1>10. CASE LoadKey
  BY <1>10, GotoType DEF LoadKey, Pcs, Tasks, Keys
<1>11. CASE DeleteOld
  BY <1>11, GotoType DEF DeleteOld, Pcs, Tasks
<1>12. CASE ClearCleanup
  BY <1>12, GotoType DEF ClearCleanup, Pcs
<1>13. CASE Unmark
  BY <1>13, NoneTypes DEF Unmark
<1>14. CASE UndoStore
  BY <1>14, NoneTypes, SpendType DEF UndoStore, Events
<1>15. CASE Import
  BY <1>15, NoneTypes DEF Import, Tasks, Pcs
<1>16. CASE ImportStore
  BY <1>16, GotoType DEF ImportStore, Pcs, Tasks, Keys
<1>17. CASE ImportLoad
  BY <1>17, GotoType DEF ImportLoad, Pcs, Tasks, Keys
<1>18. CASE ImportMark
  BY <1>18, NoneTypes DEF ImportMark
<1>19. ASSUME NEW s \in Secrets, PutSecret(s) PROVE TypeOK'
  BY <1>19 DEF PutSecret, MayWrite
<1>20. ASSUME NEW s \in Secrets, DropSecret(s) PROVE TypeOK'
  BY <1>20, NoneTypes DEF DropSecret
<1>21. CASE ExportKey
  BY <1>21 DEF ExportKey, Exports
<1>22. CASE MarkHeld
  BY <1>22 DEF MarkHeld, Exports
<1>23. CASE AnswerExport
  BY <1>23, NoneTypes DEF AnswerExport, Exports, Keys
<1>24. CASE Doctor
  BY <1>24 DEF Doctor, Probes
<1>25. CASE DoctorDelete
  BY <1>25, NoneTypes, SpendType DEF DoctorDelete, Probes, Events
<1>26. CASE DoctorClear
  BY <1>26, NoneTypes DEF DoctorClear
<1>27. CASE Fail
  BY <1>27, NoneTypes, SpendType, GotoType DEF Fail, Pcs, Committed, Events
<1>28. CASE Crash
  BY <1>28, NoneTypes, SpendType DEF Crash, Committed, Events
<1>29. CASE LoseKey
  BY <1>29, SpendType DEF LoseKey, Events
<1>30. CASE UNCHANGED vars
  BY <1>30 DEF vars, disk, history, aside
<1> QED
  BY <1>1, <1>2, <1>3, <1>4, <1>5, <1>6, <1>7, <1>8, <1>9, <1>10, <1>11,
     <1>12, <1>13, <1>14, <1>15, <1>16, <1>17, <1>18, <1>19, <1>20, <1>21,
     <1>22, <1>23, <1>24, <1>25, <1>26, <1>27, <1>28, <1>29, <1>30
     DEF Next

\* Budgets only shrink.
LEMMA SpentStep == Inv /\ [Next]_vars => Spent'
<1> SUFFICES ASSUME Inv, [Next]_vars PROVE Spent'
  OBVIOUS
<1> USE VersionsAssumption
    DEF Inv, Spent, At, Goto, Free, Spend, Unlocked, disk, history, aside
<1>1. CASE Start
  BY <1>1 DEF Start, TypeOK, Events
<1>2. CASE StartFresh
  BY <1>2 DEF StartFresh, TypeOK, Events
<1>3. CASE InitializeRecord
  BY <1>3 DEF InitializeRecord, TypeOK, Events
<1>4. CASE Rotate
  BY <1>4 DEF Rotate, TypeOK, Events
<1>5. CASE RetryDelete
  BY <1>5 DEF RetryDelete, TypeOK, Events
<1>6. CASE RetryClear
  BY <1>6 DEF RetryClear, TypeOK, Events
<1>7. CASE ReadSecrets
  BY <1>7 DEF ReadSecrets, CanRotate, Rows, TypeOK, Events
<1>8. CASE StoreKey
  BY <1>8 DEF StoreKey, TypeOK, Events
<1>9. CASE Commit
  BY <1>9 DEF Commit, TypeOK, Events
<1>10. CASE LoadKey
  BY <1>10 DEF LoadKey, TypeOK, Events
<1>11. CASE DeleteOld
  BY <1>11 DEF DeleteOld, TypeOK, Events
<1>12. CASE ClearCleanup
  BY <1>12 DEF ClearCleanup, TypeOK, Events
<1>13. CASE Unmark
  BY <1>13 DEF Unmark, TypeOK, Events
<1>14. CASE UndoStore
  BY <1>14 DEF UndoStore, TypeOK, Events
<1>15. CASE Import
  BY <1>15 DEF Import, TypeOK, Events
<1>16. CASE ImportStore
  BY <1>16 DEF ImportStore, TypeOK, Events
<1>17. CASE ImportLoad
  BY <1>17 DEF ImportLoad, TypeOK, Events
<1>18. CASE ImportMark
  BY <1>18 DEF ImportMark, TypeOK, Events
<1>19. ASSUME NEW s \in Secrets, PutSecret(s) PROVE Spent'
  BY <1>19 DEF PutSecret, MayWrite, TypeOK, Events
<1>20. ASSUME NEW s \in Secrets, DropSecret(s) PROVE Spent'
  BY <1>20 DEF DropSecret, TypeOK, Events
<1>21. CASE ExportKey
  BY <1>21 DEF ExportKey, TypeOK, Events
<1>22. CASE MarkHeld
  BY <1>22 DEF MarkHeld, TypeOK, Events
<1>23. CASE AnswerExport
  BY <1>23 DEF AnswerExport, TypeOK, Events
<1>24. CASE Doctor
  BY <1>24 DEF Doctor, TypeOK, Events
<1>25. CASE DoctorDelete
  BY <1>25 DEF DoctorDelete, TypeOK, Events
<1>26. CASE DoctorClear
  BY <1>26 DEF DoctorClear, TypeOK, Events
<1>27. CASE Fail
  BY <1>27 DEF Fail, Committed, TypeOK, Events
<1>28. CASE Crash
  BY <1>28 DEF Crash, Committed, TypeOK, Events
<1>29. CASE LoseKey
  <2>1. budget'["lose"] = budget["lose"] - 1
    BY <1>29 DEF LoseKey, TypeOK, Events
  <2> QED
    BY <2>1, LostBudget
<1>30. CASE UNCHANGED vars
  BY <1>30 DEF vars, disk, history, aside
<1> QED
  BY <1>1, <1>2, <1>3, <1>4, <1>5, <1>6, <1>7, <1>8, <1>9, <1>10, <1>11,
     <1>12, <1>13, <1>14, <1>15, <1>16, <1>17, <1>18, <1>19, <1>20, <1>21,
     <1>22, <1>23, <1>24, <1>25, <1>26, <1>27, <1>28, <1>29, <1>30
     DEF Next

\* A daemon that is down does nothing.
LEMMA QuietStep == Inv /\ [Next]_vars => Quiet'
<1> SUFFICES ASSUME Inv, [Next]_vars PROVE Quiet'
  OBVIOUS
<1> USE VersionsAssumption
    DEF Inv, Quiet, At, Goto, Free, Spend, Unlocked, disk, history, aside,
        TypeOK, TaskKeys, OldVersions, Committed, Rotating, Importing, Keys,
        NoKey, Tasks, Probes, Exports, NoTask, NoProbe, NoExport, Versions
<1>1. CASE Start
  BY <1>1 DEF Start
<1>2. CASE StartFresh
  BY <1>2 DEF StartFresh
<1>3. CASE InitializeRecord
  BY <1>3 DEF InitializeRecord
<1>4. CASE Rotate
  BY <1>4 DEF Rotate
<1>5. CASE RetryDelete
  BY <1>5 DEF RetryDelete
<1>6. CASE RetryClear
  BY <1>6 DEF RetryClear
<1>7. CASE ReadSecrets
  BY <1>7 DEF ReadSecrets, CanRotate, Rows
<1>8. CASE StoreKey
  BY <1>8 DEF StoreKey
<1>9. CASE Commit
  BY <1>9 DEF Commit
<1>10. CASE LoadKey
  BY <1>10 DEF LoadKey
<1>11. CASE DeleteOld
  BY <1>11 DEF DeleteOld
<1>12. CASE ClearCleanup
  BY <1>12 DEF ClearCleanup
<1>13. CASE Unmark
  BY <1>13 DEF Unmark
<1>14. CASE UndoStore
  BY <1>14 DEF UndoStore
<1>15. CASE Import
  BY <1>15 DEF Import
<1>16. CASE ImportStore
  BY <1>16 DEF ImportStore
<1>17. CASE ImportLoad
  BY <1>17 DEF ImportLoad
<1>18. CASE ImportMark
  BY <1>18 DEF ImportMark
<1>19. ASSUME NEW s \in Secrets, PutSecret(s) PROVE Quiet'
  BY <1>19 DEF PutSecret, MayWrite
<1>20. ASSUME NEW s \in Secrets, DropSecret(s) PROVE Quiet'
  BY <1>20 DEF DropSecret
<1>21. CASE ExportKey
  BY <1>21 DEF ExportKey
<1>22. CASE MarkHeld
  BY <1>22 DEF MarkHeld
<1>23. CASE AnswerExport
  BY <1>23 DEF AnswerExport
<1>24. CASE Doctor
  BY <1>24 DEF Doctor
<1>25. CASE DoctorDelete
  BY <1>25 DEF DoctorDelete
<1>26. CASE DoctorClear
  BY <1>26 DEF DoctorClear
<1>27. CASE Fail
  BY <1>27 DEF Fail
<1>28. CASE Crash
  BY <1>28 DEF Crash
<1>29. CASE LoseKey
  BY <1>29 DEF LoseKey
<1>30. CASE UNCHANGED vars
  BY <1>30 DEF vars
<1> QED
  BY <1>1, <1>2, <1>3, <1>4, <1>5, <1>6, <1>7, <1>8, <1>9, <1>10, <1>11,
     <1>12, <1>13, <1>14, <1>15, <1>16, <1>17, <1>18, <1>19, <1>20, <1>21,
     <1>22, <1>23, <1>24, <1>25, <1>26, <1>27, <1>28, <1>29, <1>30
     DEF Next

\* Deletions aim at versions older than the current one.
LEMMA OldVersionsStep == Inv /\ [Next]_vars => OldVersions'
<1> SUFFICES ASSUME Inv, [Next]_vars PROVE OldVersions'
  OBVIOUS
<1> USE VersionsAssumption
    DEF Inv, OldVersions, At, Goto, Free, Spend, Unlocked, disk, history,
        aside, TypeOK, Quiet, TaskKeys, Committed, Rotating, Keys, NoKey,
        Tasks, Probes, Exports, NoTask, NoProbe, Versions
<1>1. CASE Start
  BY <1>1 DEF Start
<1>2. CASE StartFresh
  <2>1. /\ task'.pc \in {"idle", "record"} /\ probe'.pc = "idle"
        /\ record' = record /\ cleanup' = cleanup
    BY <1>2, StartFreshTask DEF StartFresh
  <2> QED
    BY <2>1
<1>3. CASE InitializeRecord
  BY <1>3 DEF InitializeRecord
<1>4. CASE Rotate
  BY <1>4 DEF Rotate
<1>5. CASE RetryDelete
  BY <1>5 DEF RetryDelete
<1>6. CASE RetryClear
  BY <1>6 DEF RetryClear
<1>7. CASE ReadSecrets
  BY SMTT(30), <1>7 DEF ReadSecrets, CanRotate, Rows
<1>8. CASE StoreKey
  BY <1>8 DEF StoreKey
<1>9. CASE Commit
  BY <1>9 DEF Commit
<1>10. CASE LoadKey
  <2>1. task.old < record.version /\ cleanup \in {0, task.old}
    BY <1>10 DEF LoadKey
  <2> QED
    BY <1>10, <2>1 DEF LoadKey, TypeOK, Tasks
<1>11. CASE DeleteOld
  BY <1>11 DEF DeleteOld
<1>12. CASE ClearCleanup
  BY <1>12 DEF ClearCleanup
<1>13. CASE Unmark
  BY <1>13 DEF Unmark
<1>14. CASE UndoStore
  BY <1>14 DEF UndoStore
<1>15. CASE Import
  BY <1>15 DEF Import
<1>16. CASE ImportStore
  BY <1>16 DEF ImportStore
<1>17. CASE ImportLoad
  BY <1>17 DEF ImportLoad
<1>18. CASE ImportMark
  BY <1>18 DEF ImportMark
<1>19. ASSUME NEW s \in Secrets, PutSecret(s) PROVE OldVersions'
  BY <1>19 DEF PutSecret, MayWrite
<1>20. ASSUME NEW s \in Secrets, DropSecret(s) PROVE OldVersions'
  BY <1>20 DEF DropSecret
<1>21. CASE ExportKey
  BY <1>21 DEF ExportKey
<1>22. CASE MarkHeld
  BY <1>22 DEF MarkHeld
<1>23. CASE AnswerExport
  BY <1>23 DEF AnswerExport
<1>24. CASE Doctor
  BY <1>24 DEF Doctor
<1>25. CASE DoctorDelete
  BY <1>25 DEF DoctorDelete
<1>26. CASE DoctorClear
  BY <1>26 DEF DoctorClear
<1>27. CASE Fail
  BY <1>27 DEF Fail
<1>28. CASE Crash
  BY <1>28 DEF Crash
<1>29. CASE LoseKey
  BY <1>29 DEF LoseKey
<1>30. CASE UNCHANGED vars
  BY <1>30 DEF vars
<1> QED
  BY <1>1, <1>2, <1>3, <1>4, <1>5, <1>6, <1>7, <1>8, <1>9, <1>10, <1>11,
     <1>12, <1>13, <1>14, <1>15, <1>16, <1>17, <1>18, <1>19, <1>20, <1>21,
     <1>22, <1>23, <1>24, <1>25, <1>26, <1>27, <1>28, <1>29, <1>30
     DEF Next

\* What was deleted stays deleted.
LEMMA DeletedStep == Inv /\ [Next]_vars => Deleted'
<1> SUFFICES ASSUME Inv, [Next]_vars PROVE Deleted'
  OBVIOUS
<1> USE VersionsAssumption
    DEF Inv, Deleted, At, Goto, Free, Spend, Unlocked, disk, history, aside,
        TypeOK, Quiet, OldVersions, TaskKeys, Committed, Rotating, Importing,
        Keys, NoKey, Tasks, Probes, Exports, NoTask, NoProbe, Versions
<1>1. CASE Start
  BY <1>1 DEF Start
<1>2. CASE StartFresh
  <2>1. task'.pc \in {"idle", "record"} /\ probe'.pc = "idle"
    BY SMTT(30), <1>2, StartFreshTask
  <2> QED
    BY <2>1
<1>3. CASE InitializeRecord
  BY <1>3 DEF InitializeRecord
<1>4. CASE Rotate
  BY <1>4 DEF Rotate
<1>5. CASE RetryDelete
  BY <1>5 DEF RetryDelete
<1>6. CASE RetryClear
  BY <1>6 DEF RetryClear
<1>7. CASE ReadSecrets
  BY SMTT(30), <1>7 DEF ReadSecrets, CanRotate, Rows
<1>8. CASE StoreKey
  BY <1>8 DEF StoreKey
<1>9. CASE Commit
  BY <1>9 DEF Commit
<1>10. CASE LoadKey
  BY <1>10 DEF LoadKey
<1>11. CASE DeleteOld
  BY <1>11 DEF DeleteOld
<1>12. CASE ClearCleanup
  BY <1>12 DEF ClearCleanup
<1>13. CASE Unmark
  BY <1>13 DEF Unmark
<1>14. CASE UndoStore
  BY <1>14 DEF UndoStore
<1>15. CASE Import
  BY <1>15 DEF Import
<1>16. CASE ImportStore
  BY <1>16 DEF ImportStore
<1>17. CASE ImportLoad
  BY <1>17 DEF ImportLoad
<1>18. CASE ImportMark
  BY <1>18 DEF ImportMark
<1>19. ASSUME NEW s \in Secrets, PutSecret(s) PROVE Deleted'
  BY <1>19 DEF PutSecret, MayWrite
<1>20. ASSUME NEW s \in Secrets, DropSecret(s) PROVE Deleted'
  BY <1>20 DEF DropSecret
<1>21. CASE ExportKey
  BY <1>21 DEF ExportKey
<1>22. CASE MarkHeld
  BY <1>22 DEF MarkHeld
<1>23. CASE AnswerExport
  BY <1>23 DEF AnswerExport
<1>24. CASE Doctor
  BY <1>24 DEF Doctor
<1>25. CASE DoctorDelete
  <2>1. store' = [store EXCEPT ![probe.version] = 0] \/ store' = store
    BY <1>25 DEF DoctorDelete
  <2>2. \A v \in Versions : store[v] = 0 => store'[v] = 0
    BY <2>1 DEF TypeOK
  <2>3. probe'.pc = "clear" =>
          /\ probe'.version = probe.version
          /\ store' = [store EXCEPT ![probe.version] = 0]
    BY SMTT(30), <1>25 DEF DoctorDelete, NoProbe, TypeOK, Probes
  <2>4. task' = task
    BY <1>25 DEF DoctorDelete
  <2> QED
    BY <2>2, <2>3, <2>4 DEF TypeOK
<1>26. CASE DoctorClear
  BY <1>26 DEF DoctorClear
<1>27. CASE Fail
  BY <1>27 DEF Fail
<1>28. CASE Crash
  BY <1>28 DEF Crash
<1>29. CASE LoseKey
  BY <1>29 DEF LoseKey
<1>30. CASE UNCHANGED vars
  BY <1>30 DEF vars
<1> QED
  BY <1>1, <1>2, <1>3, <1>4, <1>5, <1>6, <1>7, <1>8, <1>9, <1>10, <1>11,
     <1>12, <1>13, <1>14, <1>15, <1>16, <1>17, <1>18, <1>19, <1>20, <1>21,
     <1>22, <1>23, <1>24, <1>25, <1>26, <1>27, <1>28, <1>29, <1>30
     DEF Next

\* The key of the running task and the key in memory.
LEMMA TaskKeysStep == Inv /\ [Next]_vars => TaskKeys'
<1> SUFFICES ASSUME Inv, [Next]_vars PROVE TaskKeys'
  OBVIOUS
<1> USE VersionsAssumption
    DEF Inv, TaskKeys, At, Goto, Free, Spend, Unlocked, disk, history, aside,
        TypeOK, Quiet, OldVersions, SecretsAreCurrent, Rows, Committed,
        Rotating, Importing, Keys, NoKey, Tasks, Probes, Exports, NoTask,
        Versions
<1>1. CASE Start
  BY <1>1 DEF Start
<1>2. CASE StartFresh
  <2>1. /\ record' = NoKey /\ material' = NoKey
        /\ task' = NoTask \/ task'.pc = "record"
        /\ task'.pc = "record" =>
             task'.new.version = 1 /\ task'.new.key = store'[1]
    BY <1>2, StartFreshTask DEF StartFresh
  <2>2. task'.pc \in {"idle", "record"}
    BY <2>1
  <2> QED
    BY <2>1, <2>2
<1>3. CASE InitializeRecord
  BY <1>3 DEF InitializeRecord
<1>4. CASE Rotate
  BY <1>4 DEF Rotate
<1>5. CASE RetryDelete
  BY <1>5 DEF RetryDelete
<1>6. CASE RetryClear
  BY <1>6 DEF RetryClear
<1>7. CASE ReadSecrets
  <2>1. UNCHANGED <<store, record, vault, material, held>> /\ task.pc = "read"
    BY <1>7 DEF ReadSecrets
  <2>2. CASE CanRotate
    <3>1. /\ task'.pc = "store" /\ task'.rows = Rows
          /\ task'.new.version = material.version + 1
          /\ task'.old = material.version
      BY <1>7, <2>2 DEF ReadSecrets
    <3>2. material = record /\ record # NoKey /\ material.version + 1 \in Versions
      BY <2>1, <2>2 DEF CanRotate, TypeOK, Keys, Versions
    <3> QED
      BY SMTT(30), <2>1, <3>1, <3>2 DEF Rows, Rotating, Committed, Importing
  <2>3. CASE ~CanRotate
    BY SMTT(30), <1>7, <2>1, <2>3
    DEF ReadSecrets, NoTask, Rotating, Committed, Importing
  <2> QED
    BY <2>2, <2>3
<1>8. CASE StoreKey
  BY <1>8 DEF StoreKey
<1>9. CASE Commit
  BY <1>9 DEF Commit
<1>10. CASE LoadKey
  BY <1>10 DEF LoadKey
<1>11. CASE DeleteOld
  BY <1>11 DEF DeleteOld
<1>12. CASE ClearCleanup
  BY <1>12 DEF ClearCleanup
<1>13. CASE Unmark
  BY <1>13 DEF Unmark
<1>14. CASE UndoStore
  BY <1>14 DEF UndoStore
<1>15. CASE Import
  BY <1>15 DEF Import
<1>16. CASE ImportStore
  BY <1>16 DEF ImportStore
<1>17. CASE ImportLoad
  BY <1>17 DEF ImportLoad
<1>18. CASE ImportMark
  BY <1>18 DEF ImportMark
<1>19. ASSUME NEW s \in Secrets, PutSecret(s) PROVE TaskKeys'
  BY <1>19 DEF PutSecret, MayWrite
<1>20. ASSUME NEW s \in Secrets, DropSecret(s) PROVE TaskKeys'
  BY <1>20 DEF DropSecret
<1>21. CASE ExportKey
  BY <1>21 DEF ExportKey
<1>22. CASE MarkHeld
  BY <1>22 DEF MarkHeld
<1>23. CASE AnswerExport
  BY <1>23 DEF AnswerExport
<1>24. CASE Doctor
  BY <1>24 DEF Doctor
<1>25. CASE DoctorDelete
  BY SMTT(30), <1>25 DEF DoctorDelete
<1>26. CASE DoctorClear
  BY <1>26 DEF DoctorClear
<1>27. CASE Fail
  <2>1. UNCHANGED <<store, record, vault, material, held>>
    BY <1>27 DEF Fail
  <2>2. task.pc # "load"
    BY <1>27 DEF Fail
  <2>3. CASE task.pc = "commit"
    <3>1. task' = [task EXCEPT !.pc = "undo"]
      BY <1>27, <2>3 DEF Fail
    <3>2. task'.pc = "undo" /\ task'.new = task.new
          /\ task'.old = task.old /\ task'.rows = task.rows
      BY <3>1 DEF TypeOK, Tasks
    <3> QED
      BY <2>1, <2>3, <3>2 DEF Rows, Rotating, Committed, Importing
  <2>4. CASE task.pc # "commit"
    <3>1. task'.pc = "idle"
      BY <1>27, <2>4 DEF Fail, NoTask
    <3> QED
      BY <2>1, <2>2, <3>1 DEF Rotating, Committed, Importing
  <2> QED
    BY <2>3, <2>4
<1>28. CASE Crash
  BY <1>28 DEF Crash
<1>29. CASE LoseKey
  BY <1>29 DEF LoseKey
<1>30. CASE UNCHANGED vars
  BY <1>30 DEF vars
<1> QED
  BY <1>1, <1>2, <1>3, <1>4, <1>5, <1>6, <1>7, <1>8, <1>9, <1>10, <1>11,
     <1>12, <1>13, <1>14, <1>15, <1>16, <1>17, <1>18, <1>19, <1>20, <1>21,
     <1>22, <1>23, <1>24, <1>25, <1>26, <1>27, <1>28, <1>29, <1>30
     DEF Next

\* The mark and the key the operator has.
LEMMA MarkedStep == Inv /\ [Next]_vars => Marked'
<1> SUFFICES ASSUME Inv, [Next]_vars PROVE Marked'
  OBVIOUS
<1> USE VersionsAssumption
    DEF Inv, Marked, At, Goto, Free, Spend, Unlocked, disk, history, aside,
        TypeOK, Quiet, TaskKeys, Rotating, Importing, Committed, Keys, NoKey,
        Tasks, Probes, Exports, NoTask, NoExport
<1>1. CASE Start
  BY <1>1 DEF Start
<1>2. CASE StartFresh
  BY <1>2 DEF StartFresh
<1>3. CASE InitializeRecord
  BY <1>3 DEF InitializeRecord
<1>4. CASE Rotate
  BY <1>4 DEF Rotate
<1>5. CASE RetryDelete
  BY <1>5 DEF RetryDelete
<1>6. CASE RetryClear
  BY <1>6 DEF RetryClear
<1>7. CASE ReadSecrets
  BY <1>7 DEF ReadSecrets, CanRotate, Rows
<1>8. CASE StoreKey
  BY <1>8 DEF StoreKey
<1>9. CASE Commit
  BY <1>9 DEF Commit
<1>10. CASE LoadKey
  BY <1>10 DEF LoadKey
<1>11. CASE DeleteOld
  BY <1>11 DEF DeleteOld
<1>12. CASE ClearCleanup
  BY <1>12 DEF ClearCleanup
<1>13. CASE Unmark
  BY <1>13 DEF Unmark
<1>14. CASE UndoStore
  BY <1>14 DEF UndoStore
<1>15. CASE Import
  BY <1>15 DEF Import
<1>16. CASE ImportStore
  BY <1>16 DEF ImportStore
<1>17. CASE ImportLoad
  BY <1>17 DEF ImportLoad
<1>18. CASE ImportMark
  BY <1>18 DEF ImportMark
<1>19. ASSUME NEW s \in Secrets, PutSecret(s) PROVE Marked'
  BY <1>19 DEF PutSecret, MayWrite
<1>20. ASSUME NEW s \in Secrets, DropSecret(s) PROVE Marked'
  BY <1>20 DEF DropSecret
<1>21. CASE ExportKey
  BY <1>21 DEF ExportKey
<1>22. CASE MarkHeld
  BY <1>22 DEF MarkHeld
<1>23. CASE AnswerExport
  BY <1>23 DEF AnswerExport
<1>24. CASE Doctor
  BY <1>24 DEF Doctor
<1>25. CASE DoctorDelete
  BY <1>25 DEF DoctorDelete
<1>26. CASE DoctorClear
  BY <1>26 DEF DoctorClear
<1>27. CASE Fail
  BY <1>27 DEF Fail
<1>28. CASE Crash
  BY <1>28 DEF Crash
<1>29. CASE LoseKey
  BY <1>29 DEF LoseKey
<1>30. CASE UNCHANGED vars
  BY <1>30 DEF vars
<1> QED
  BY <1>1, <1>2, <1>3, <1>4, <1>5, <1>6, <1>7, <1>8, <1>9, <1>10, <1>11,
     <1>12, <1>13, <1>14, <1>15, <1>16, <1>17, <1>18, <1>19, <1>20, <1>21,
     <1>22, <1>23, <1>24, <1>25, <1>26, <1>27, <1>28, <1>29, <1>30
     DEF Next

\* The current key stays in the key store.
LEMMA StoredStep == Inv /\ [Next]_vars => KeyIsStored'
<1> SUFFICES ASSUME Inv, [Next]_vars PROVE KeyIsStored'
  OBVIOUS
<1> USE VersionsAssumption
    DEF Inv, KeyIsStored, At, Goto, Free, Spend, Unlocked, disk, history,
        aside, TypeOK, Quiet, OldVersions, TaskKeys, Committed, Rotating,
        Importing, Keys, NoKey, Tasks, Probes, Exports, NoTask, Versions,
        Events
<1>1. CASE Start
  BY <1>1 DEF Start
<1>2. CASE StartFresh
  BY <1>2 DEF StartFresh
<1>3. CASE InitializeRecord
  BY <1>3 DEF InitializeRecord
<1>4. CASE Rotate
  BY <1>4 DEF Rotate
<1>5. CASE RetryDelete
  BY <1>5 DEF RetryDelete
<1>6. CASE RetryClear
  BY <1>6 DEF RetryClear
<1>7. CASE ReadSecrets
  BY <1>7 DEF ReadSecrets, CanRotate, Rows
<1>8. CASE StoreKey
  BY <1>8 DEF StoreKey
<1>9. CASE Commit
  BY <1>9 DEF Commit
<1>10. CASE LoadKey
  BY <1>10 DEF LoadKey
<1>11. CASE DeleteOld
  BY <1>11 DEF DeleteOld
<1>12. CASE ClearCleanup
  BY <1>12 DEF ClearCleanup
<1>13. CASE Unmark
  BY <1>13 DEF Unmark
<1>14. CASE UndoStore
  BY SMTT(30), <1>14 DEF UndoStore
<1>15. CASE Import
  BY <1>15 DEF Import
<1>16. CASE ImportStore
  BY <1>16 DEF ImportStore
<1>17. CASE ImportLoad
  BY <1>17 DEF ImportLoad
<1>18. CASE ImportMark
  BY <1>18 DEF ImportMark
<1>19. ASSUME NEW s \in Secrets, PutSecret(s) PROVE KeyIsStored'
  BY <1>19 DEF PutSecret, MayWrite
<1>20. ASSUME NEW s \in Secrets, DropSecret(s) PROVE KeyIsStored'
  BY <1>20 DEF DropSecret
<1>21. CASE ExportKey
  BY <1>21 DEF ExportKey
<1>22. CASE MarkHeld
  BY <1>22 DEF MarkHeld
<1>23. CASE AnswerExport
  BY <1>23 DEF AnswerExport
<1>24. CASE Doctor
  BY <1>24 DEF Doctor
<1>25. CASE DoctorDelete
  <2>1. record # NoKey => record.version # probe.version
    BY <1>25 DEF DoctorDelete, OldVersions, TypeOK, Keys, Probes
  <2>2. store' = [store EXCEPT ![probe.version] = 0] \/ store' = store
    BY <1>25 DEF DoctorDelete
  <2>3. record' = record /\ budget'["lose"] = budget["lose"]
    BY <1>25 DEF DoctorDelete, TypeOK, Events
  <2>4. record # NoKey => record.version \in Versions
    BY DEF Quiet
  <2> QED
    BY <2>1, <2>2, <2>3, <2>4 DEF TypeOK
<1>26. CASE DoctorClear
  BY <1>26 DEF DoctorClear
<1>27. CASE Fail
  BY <1>27 DEF Fail
<1>28. CASE Crash
  BY <1>28 DEF Crash
<1>29. CASE LoseKey
  <2>1. budget["lose"] \in Nat /\ budget'["lose"] = budget["lose"] - 1
    BY <1>29 DEF LoseKey, TypeOK, Events
  <2> QED
    BY <2>1, <1>29 DEF Spent, TypeOK
<1>30. CASE UNCHANGED vars
  BY <1>30 DEF vars
<1> QED
  BY <1>1, <1>2, <1>3, <1>4, <1>5, <1>6, <1>7, <1>8, <1>9, <1>10, <1>11,
     <1>12, <1>13, <1>14, <1>15, <1>16, <1>17, <1>18, <1>19, <1>20, <1>21,
     <1>22, <1>23, <1>24, <1>25, <1>26, <1>27, <1>28, <1>29, <1>30
     DEF Next

\* Secrets follow the record.
LEMMA CurrentStep == Inv /\ [Next]_vars => SecretsAreCurrent'
<1> SUFFICES ASSUME Inv, [Next]_vars PROVE SecretsAreCurrent'
  OBVIOUS
<1> USE VersionsAssumption
    DEF Inv, SecretsAreCurrent, At, Goto, Free, Spend, Unlocked, disk, history,
        aside, TypeOK, Quiet, TaskKeys, Rows, Committed, Rotating, Keys, NoKey,
        Tasks, Probes, Exports, NoTask, Versions
<1>1. CASE Start
  BY <1>1 DEF Start
<1>2. CASE StartFresh
  BY <1>2 DEF StartFresh
<1>3. CASE InitializeRecord
  BY <1>3 DEF InitializeRecord
<1>4. CASE Rotate
  BY <1>4 DEF Rotate
<1>5. CASE RetryDelete
  BY <1>5 DEF RetryDelete
<1>6. CASE RetryClear
  BY <1>6 DEF RetryClear
<1>7. CASE ReadSecrets
  BY <1>7 DEF ReadSecrets, CanRotate
<1>8. CASE StoreKey
  BY <1>8 DEF StoreKey
<1>9. CASE Commit
  BY <1>9 DEF Commit
<1>10. CASE LoadKey
  BY <1>10 DEF LoadKey
<1>11. CASE DeleteOld
  BY <1>11 DEF DeleteOld
<1>12. CASE ClearCleanup
  BY <1>12 DEF ClearCleanup
<1>13. CASE Unmark
  BY <1>13 DEF Unmark
<1>14. CASE UndoStore
  BY <1>14 DEF UndoStore
<1>15. CASE Import
  BY <1>15 DEF Import
<1>16. CASE ImportStore
  BY <1>16 DEF ImportStore
<1>17. CASE ImportLoad
  BY <1>17 DEF ImportLoad
<1>18. CASE ImportMark
  BY <1>18 DEF ImportMark
<1>19. ASSUME NEW s \in Secrets, PutSecret(s) PROVE SecretsAreCurrent'
  BY <1>19 DEF PutSecret, MayWrite
<1>20. ASSUME NEW s \in Secrets, DropSecret(s) PROVE SecretsAreCurrent'
  BY <1>20 DEF DropSecret
<1>21. CASE ExportKey
  BY <1>21 DEF ExportKey
<1>22. CASE MarkHeld
  BY <1>22 DEF MarkHeld
<1>23. CASE AnswerExport
  BY <1>23 DEF AnswerExport
<1>24. CASE Doctor
  BY <1>24 DEF Doctor
<1>25. CASE DoctorDelete
  BY <1>25 DEF DoctorDelete
<1>26. CASE DoctorClear
  BY <1>26 DEF DoctorClear
<1>27. CASE Fail
  BY <1>27 DEF Fail
<1>28. CASE Crash
  BY <1>28 DEF Crash
<1>29. CASE LoseKey
  BY <1>29 DEF LoseKey
<1>30. CASE UNCHANGED vars
  BY <1>30 DEF vars
<1> QED
  BY <1>1, <1>2, <1>3, <1>4, <1>5, <1>6, <1>7, <1>8, <1>9, <1>10, <1>11,
     <1>12, <1>13, <1>14, <1>15, <1>16, <1>17, <1>18, <1>19, <1>20, <1>21,
     <1>22, <1>23, <1>24, <1>25, <1>26, <1>27, <1>28, <1>29, <1>30
     DEF Next

\* Old keys are pending cleanup.
LEMMA CleanedStep == Inv /\ [Next]_vars => OldKeysAreCleaned'
<1> SUFFICES ASSUME Inv, [Next]_vars PROVE OldKeysAreCleaned'
  OBVIOUS
<1> USE VersionsAssumption
    DEF Inv, OldKeysAreCleaned, At, Goto, Free, Spend, Unlocked, disk, history,
        aside, TypeOK, Quiet, OldVersions, Deleted, TaskKeys, Committed,
        Rotating, Importing, Keys, NoKey, Tasks, Probes, Exports, NoTask,
        Versions
<1>1. CASE Start
  BY <1>1 DEF Start
<1>2. CASE StartFresh
  BY <1>2 DEF StartFresh
<1>3. CASE InitializeRecord
  BY <1>3 DEF InitializeRecord
<1>4. CASE Rotate
  BY <1>4 DEF Rotate
<1>5. CASE RetryDelete
  BY <1>5 DEF RetryDelete
<1>6. CASE RetryClear
  BY <1>6 DEF RetryClear
<1>7. CASE ReadSecrets
  BY <1>7 DEF ReadSecrets, CanRotate, Rows
<1>8. CASE StoreKey
  BY <1>8 DEF StoreKey
<1>9. CASE Commit
  <2>1. /\ cleanup = 0 /\ cleanup' = task.old /\ task.old = record.version
        /\ record'.version = record.version + 1
        /\ UNCHANGED <<store, outrun>>
    BY <1>9 DEF Commit, OldVersions, TaskKeys, Rotating
  <2>2. SUFFICES ASSUME ~outrun, NEW v \in Versions,
                        v < record'.version, store[v] # 0
                 PROVE  v = task.old
    BY <2>1
  <2>3. ~(v < record.version)
    BY <2>1, <2>2 DEF Versions
  <2> QED
    BY <2>1, <2>2, <2>3 DEF TypeOK, Keys, Versions
<1>10. CASE LoadKey
  BY <1>10 DEF LoadKey
<1>11. CASE DeleteOld
  BY <1>11 DEF DeleteOld
<1>12. CASE ClearCleanup
  BY <1>12 DEF ClearCleanup
<1>13. CASE Unmark
  BY <1>13 DEF Unmark
<1>14. CASE UndoStore
  BY <1>14 DEF UndoStore
<1>15. CASE Import
  BY <1>15 DEF Import
<1>16. CASE ImportStore
  BY <1>16 DEF ImportStore
<1>17. CASE ImportLoad
  BY <1>17 DEF ImportLoad
<1>18. CASE ImportMark
  BY <1>18 DEF ImportMark
<1>19. ASSUME NEW s \in Secrets, PutSecret(s) PROVE OldKeysAreCleaned'
  BY <1>19 DEF PutSecret, MayWrite
<1>20. ASSUME NEW s \in Secrets, DropSecret(s) PROVE OldKeysAreCleaned'
  BY <1>20 DEF DropSecret
<1>21. CASE ExportKey
  BY <1>21 DEF ExportKey
<1>22. CASE MarkHeld
  BY <1>22 DEF MarkHeld
<1>23. CASE AnswerExport
  BY <1>23 DEF AnswerExport
<1>24. CASE Doctor
  BY <1>24 DEF Doctor
<1>25. CASE DoctorDelete
  BY <1>25 DEF DoctorDelete
<1>26. CASE DoctorClear
  BY <1>26 DEF DoctorClear
<1>27. CASE Fail
  BY <1>27 DEF Fail
<1>28. CASE Crash
  BY <1>28 DEF Crash
<1>29. CASE LoseKey
  BY <1>29 DEF LoseKey
<1>30. CASE UNCHANGED vars
  BY <1>30 DEF vars
<1> QED
  BY <1>1, <1>2, <1>3, <1>4, <1>5, <1>6, <1>7, <1>8, <1>9, <1>10, <1>11,
     <1>12, <1>13, <1>14, <1>15, <1>16, <1>17, <1>18, <1>19, <1>20, <1>21,
     <1>22, <1>23, <1>24, <1>25, <1>26, <1>27, <1>28, <1>29, <1>30
     DEF Next

-----------------------------------------------------------------------------
\* The invariant is inductive.
LEMMA InvStep == Inv /\ [Next]_vars => Inv'
BY TypeStep, SpentStep, QuietStep, OldVersionsStep, DeletedStep, TaskKeysStep,
   MarkedStep, StoredStep, CurrentStep, CleanedStep
DEF Inv

(* Every reachable state satisfies the inductive invariant: what a rotation, *)
(* an import or a cleanup in progress has already done to the key store, the *)
(* record and the secrets, whatever failed or crashed on the way.            *)
THEOREM Invariance == Spec => []Inv
<1>1. Init => Inv
  BY InitInv
<1>2. Inv /\ [Next]_vars => Inv'
  BY InvStep
<1> QED
  BY <1>1, <1>2, PTL DEF Spec

(* Every variable keeps the shape the code gives it.                         *)
THEOREM TypeCorrectness == Spec => []TypeOK
<1>1. Inv => TypeOK
  BY DEF Inv
<1> QED
  BY <1>1, Invariance, PTL

(* The daemon never deletes or overwrites the entry of the current key in    *)
(* the key store: CryptoManager::rotate and import, and both callers of      *)
(* retry_pending_cleanup, only ever touch an older or the next version.      *)
THEOREM KeysAreStored == Spec => []KeyIsStored
<1>1. Inv => KeyIsStored
  BY DEF Inv
<1> QED
  BY <1>1, Invariance, PTL

(* No rotation leaves a secret behind under the old key, and none is written *)
(* with a key that a rotation has replaced.                                  *)
THEOREM SecretsStayCurrent == Spec => []SecretsAreCurrent
<1>1. Inv => SecretsAreCurrent
  BY DEF Inv
<1> QED
  BY <1>1, Invariance, PTL

(* An old key outlives its rotation only while its deletion is pending,      *)
(* unless a doctor call cleared a cleanup it had not seen.                   *)
THEOREM OldKeysAreForgotten == Spec => []OldKeysAreCleaned
<1>1. Inv => OldKeysAreCleaned
  BY DEF Inv
<1> QED
  BY <1>1, Invariance, PTL

(* While no export and no rotation ended uncleanly, a recovery key reported  *)
(* as exported at rest is one the operator has and an import accepts.        *)
THEOREM RecoveryMarksAreTrue == Spec => []RecoveryMarkIsTrue
<1>1. Inv => RecoveryMarkIsTrue
  <2> SUFFICES ASSUME Inv, ~blurred, Free, export.pc = "idle", mark
               PROVE record.key \in held
    BY DEF RecoveryMarkIsTrue, RecoveryKeyIsHeld
  <2>1. ~Committed
    BY DEF Free, At, Committed
  <2> QED
    BY <2>1 DEF Inv, Marked
<1> QED
  BY <1>1, Invariance, PTL

=============================================================================
