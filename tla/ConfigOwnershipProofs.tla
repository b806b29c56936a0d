----------------------- MODULE ConfigOwnershipProofs -----------------------
(* Proofs about ConfigOwnership, for any number of instances and requests. *)
EXTENDS ConfigOwnership, TLAPS

LEMMA InitTypeOK == Init => TypeOK
BY InstancesAssumption, RequestsAssumption, LoginsAssumption, BoundsAssumption, SMTT(60)
DEF Init, TypeOK, Configs, Native, AuthFiles, Records, InstOrNone,
  Databases, Asks, Procs, Fingerprints, Pendings, Backups, NoPending, NoBackup,
  NoAuth, Values, Kinds, Phases, Modes, IdleProc, ReqOrNone, Moments, Events

-----------------------------------------------------------------------------
(* The parts of a state that most actions share.                           *)

LEMMA IdleType == IdleProc \in Procs
BY DEF IdleProc, Procs, Native, Configs, Phases, Modes, Kinds, NoAuth, ReqOrNone

LEMMA LiveType ==
  ASSUME TypeOK, NEW s \in BOOLEAN PROVE Live(s) \in Fingerprints
BY DEF TypeOK, Live, Fingerprints, AuthFiles, Values

LEMMA NoPendingType == NoPending \in Pendings
BY DEF NoPending, Pendings, ReqOrNone, InstOrNone

LEMMA UnclaimedType ==
  ASSUME TypeOK, NEW g \in Nat, NEW s \in BOOLEAN
  PROVE Unclaimed(g, s) \in Records
BY LiveType, NoPendingType DEF Unclaimed, Records, InstOrNone

LEMMA WantType ==
  ASSUME NEW i \in Instances, NEW k \in Kinds PROVE Want(i, k) \in Configs
BY DEF Want, Configs, Kinds, Native

\* An action that only moves instance i to its next write.
LEMMA GotoType ==
  ASSUME TypeOK, NEW i \in Instances,
         NEW pc \in WritePcs \cup ReleasePcs \cup TakeoverPcs, Goto(i, pc)
  PROVE  proc' \in [Instances -> Procs]
BY DEF TypeOK, Goto, Procs

LEMMA EndedType ==
  ASSUME NEW phase \in Phases, NEW id \in Nat
  PROVE  [IdleProc EXCEPT !.phase = phase, !.id = id] \in Procs
BY IdleType DEF Procs

LEMMA ReturnType ==
  ASSUME TypeOK, NEW i \in Instances, Return(i)
  PROVE  lock' \in InstOrNone /\ proc' \in [Instances -> Procs]
<1>1. proc[i] \in Procs
  BY DEF TypeOK
<1>2. [IdleProc EXCEPT
         !.phase = IF proc[i].mode = "reconcile" THEN "ready"
                   ELSE proc[i].phase,
         !.id = IF proc[i].phase = "recover" THEN proc[i].id ELSE 0] \in Procs
  <2>1. (IF proc[i].mode = "reconcile" THEN "ready" ELSE proc[i].phase) \in Phases
    BY <1>1 DEF Procs, Phases
  <2>2. (IF proc[i].phase = "recover" THEN proc[i].id ELSE 0) \in Nat
    BY <1>1 DEF Procs
  <2> QED
    BY <2>1, <2>2, EndedType
<1>3. proc' \in [Instances -> Procs]
  BY <1>2 DEF Return, TypeOK
<1> QED
  BY <1>3 DEF Return, InstOrNone

LEMMA AbandonType ==
  ASSUME TypeOK, NEW i \in Instances,
         NEW s \in {"synchronized", "unmanaged", "conflict", "unavailable"},
         Abandon(i, s)
  PROVE  /\ lock' \in InstOrNone /\ proc' \in [Instances -> Procs]
         /\ db' \in [Instances -> Databases]
BY SMTT(30), ReturnType DEF Abandon, TypeOK, Databases

LEMMA CloseType ==
  ASSUME TypeOK, NEW i \in Instances,
         NEW s \in {"synchronized", "unmanaged", "conflict", "unavailable"},
         Close(i, s)
  PROVE  /\ lock' \in InstOrNone /\ proc' \in [Instances -> Procs]
         /\ db' \in [Instances -> Databases]
<1>1. WithoutOp(i) \in SUBSET Ops
  BY DEF TypeOK, WithoutOp, Databases
<1>2. [db[i] EXCEPT !.journal = WithoutOp(i), !.status = s] \in Databases
  <2>1. db[i] \in Databases
    BY DEF TypeOK
  <2> QED BY <1>1, <2>1 DEF Databases
<1>3. db' \in [Instances -> Databases]
  BY <1>2 DEF Close, TypeOK
<1> QED
  BY <1>3, ReturnType DEF Close

LEMMA JournalType ==
  ASSUME NEW d \in Databases, NEW op \in Ops
  PROVE  [d EXCEPT !.journal = @ \cup {op}, !.next = @ + 1] \in Databases
<1>1. d.journal \cup {op} \in SUBSET Ops
  BY DEF Databases
<1>2. d.next + 1 \in Nat
  BY DEF Databases
<1>3. ASSUME NEW j \in SUBSET Ops, NEW n \in Nat
      PROVE  [d EXCEPT !.journal = j, !.next = n] \in Databases
  BY DEF Databases
<1> QED
  BY <1>1, <1>2, <1>3

LEMMA SpendType ==
  ASSUME TypeOK, NEW e \in Events, Spend(e) PROVE budget' \in [Events -> Nat]
BY DEF TypeOK, Spend

LEMMA BeginType ==
  ASSUME TypeOK, NEW i \in Instances, NEW m \in BOOLEAN, NEW o \in Procs,
         Begin(i, m, o)
  PROVE  /\ record' \in Records
         /\ lock' \in InstOrNone
         /\ db' \in [Instances -> Databases]
         /\ proc' \in [Instances -> Procs]
<1>1. /\ db[i] \in Databases
      /\ record.gen \in Nat
  BY DEF TypeOK, Records
<1>2. Unclaimed(db[i].lease + 1, FALSE) \in Records
  <2>1. db[i].lease + 1 \in Nat
    BY <1>1 DEF Databases
  <2> QED BY <2>1, UnclaimedType
<1>3. record' \in Records
  BY <1>2 DEF Begin, TypeOK, Records, InstOrNone
<1>4. [db[i] EXCEPT !.lease = record.gen] \in Databases
  BY <1>1 DEF Databases
<1>5. /\ [o EXCEPT !.pc = "lease"] \in Procs
      /\ [o EXCEPT !.pc = "journal"] \in Procs
  BY DEF Procs, WritePcs
<1>6. db' \in [Instances -> Databases]
  BY <1>4 DEF Begin, TypeOK
<1>7. proc' \in [Instances -> Procs]
  BY <1>5 DEF Begin, TypeOK
<1> QED
  BY <1>3, <1>6, <1>7 DEF Begin, InstOrNone

-----------------------------------------------------------------------------
(* Type correctness, one step per action.                                  *)

LEMMA WriteType ==
  ASSUME TypeOK, NEW i \in Instances, WriteStep(i) PROVE TypeOK'
<1>0. /\ config \in Configs /\ auth \in AuthFiles /\ auth.val \in Values
      /\ record \in Records /\ record.gen \in Nat
      /\ db[i] \in Databases /\ proc[i] \in Procs /\ proc[i].kind \in Kinds
      /\ db[i].backup \in Backups
  BY DEF TypeOK, Records, Procs, AuthFiles, Values, Databases
<1>1. CASE ClaimLease(i)
  <2>1. [db[i] EXCEPT !.lease = record.gen] \in Databases
    BY <1>0 DEF Databases
  <2> QED BY <1>1, <2>1, GotoType DEF TypeOK, ClaimLease, WritePcs
<1>2. CASE Journal(i)
  <2>p. Preserves(i, proc[i].kind) \in BOOLEAN
    BY <1>0 DEF Preserves, Databases
  <2>0. WriteRow(i) \in Ops
    BY <1>0, <2>p DEF WriteRow, Ops, ReqOrNone, Databases
  <2>1. [db[i] EXCEPT !.journal = @ \cup {WriteRow(i)}, !.next = @ + 1]
          \in Databases
    BY <1>0, <2>0, JournalType
  <2>2. [proc[i] EXCEPT !.cfg = config, !.auth = auth,
                        !.preserve = Preserves(i, proc[i].kind),
                        !.id = db[i].next, !.pc = "start"] \in Procs
    BY <1>0, <2>p DEF Procs, WritePcs, Databases
  <2>3. CASE Available(i, proc[i].kind)
    <3>1. /\ db' = [db EXCEPT ![i] = [db[i] EXCEPT
                       !.journal = @ \cup {WriteRow(i)}, !.next = @ + 1]]
          /\ proc' = [proc EXCEPT ![i] = [proc[i] EXCEPT
                       !.cfg = config, !.auth = auth,
                       !.preserve = Preserves(i, proc[i].kind),
                       !.id = db[i].next, !.pc = "start"]]
          /\ UNCHANGED <<config, auth, record, lock, ask, call, budget,
                         outside, stray>>
      BY <1>2, <2>3 DEF Journal
    <3> QED BY <2>1, <2>2, <3>1 DEF TypeOK
  <2>4. CASE ~Available(i, proc[i].kind)
    <3>1. db[i].status \in {"synchronized", "unmanaged", "conflict", "unavailable"}
      BY <1>0 DEF Databases
    <3>2. Abandon(i, db[i].status)
      BY <1>2, <2>4 DEF Journal
    <3> QED BY <1>2, <3>1, <3>2, AbandonType DEF TypeOK, Journal
  <2> QED BY <2>3, <2>4
<1>3. CASE StartWrite(i)
  <2>1. Managed(i) \in BOOLEAN
    BY DEF Managed
  <2>2. [record EXCEPT !.scope = Managed(i), !.fp = Live(Managed(i)),
           !.pending = [NoPending EXCEPT !.kind = "write"]] \in Records
    BY <1>0, <2>1, LiveType, NoPendingType DEF Records, Pendings
  <2> QED BY <1>3, <2>2, GotoType DEF TypeOK, StartWrite, WritePcs
<1>4. CASE Backup(i)
  <2>1. [db[i] EXCEPT !.required = @ \cup {record.gen}] \in Databases
    BY <1>0 DEF Databases
  <2>2. [db[i] EXCEPT !.backup = [val |-> auth.val, gen |-> record.gen]]
          \in Databases
    BY <1>0 DEF Databases, Backups, AuthFiles
  <2>3. [proc[i] EXCEPT !.pc = "require", !.made = TRUE] \in Procs
    BY <1>0 DEF Procs, WritePcs
  <2>4. CASE \E s \in {db[i].status, "conflict"} : Close(i, s)
    <3>1. /\ lock' \in InstOrNone /\ proc' \in [Instances -> Procs]
          /\ db' \in [Instances -> Databases]
      BY <1>0, <2>4, CloseType DEF Databases
    <3> QED BY <1>4, <3>1 DEF TypeOK, Backup
  <2>5. CASE /\ db' = [db EXCEPT ![i].required = @ \cup {record.gen}]
             /\ Goto(i, IF Recovering(i) THEN "auth" ELSE "config")
             /\ UNCHANGED lock
    <3>1. db' \in [Instances -> Databases]
      BY <2>1, <2>5 DEF TypeOK
    <3>2. proc' \in [Instances -> Procs]
      BY <2>5, GotoType DEF WritePcs
    <3> QED BY <1>4, <2>5, <3>1, <3>2 DEF TypeOK, Backup
  <2>6. CASE /\ db' = [db EXCEPT ![i].backup =
                          [val |-> auth.val, gen |-> record.gen]]
             /\ proc' = [proc EXCEPT ![i].pc = "require", ![i].made = TRUE]
             /\ UNCHANGED lock
    <3>1. db' \in [Instances -> Databases] /\ proc' \in [Instances -> Procs]
      BY <2>2, <2>3, <2>6 DEF TypeOK
    <3> QED BY <1>4, <2>6, <3>1 DEF TypeOK, Backup
  <2> QED BY <1>4, <2>4, <2>5, <2>6 DEF Backup
<1>5. CASE RequireBackup(i)
  <2>1. [db[i] EXCEPT !.required = @ \cup {record.gen}] \in Databases
    BY <1>0 DEF Databases
  <2> QED BY <1>5, <2>1, GotoType DEF TypeOK, RequireBackup, WritePcs
<1>6. CASE WriteConfig(i)
  BY <1>0, <1>6, WantType, GotoType, CloseType DEF TypeOK, WriteConfig, WritePcs
<1>7. CASE UndoBackup(i)
  <2>1. [db[i] EXCEPT !.backup = NoBackup] \in Databases
    BY <1>0 DEF Databases, Backups, NoBackup, Values
  <2> QED BY <1>7, <2>1, GotoType DEF TypeOK, UndoBackup, WritePcs
<1>8. CASE UndoRequire(i)
  <2>1. [db[i] EXCEPT !.required = @ \ {record.gen}] \in Databases
    BY <1>0 DEF Databases
  <2> QED BY <1>8, <2>1, GotoType DEF TypeOK, UndoRequire, WritePcs
<1>9. CASE FailWrite(i)
  BY <1>9, CloseType DEF TypeOK, FailWrite
<1>10. CASE WriteAuth(i)
  <2>1. WantAuth(i, proc[i].kind) \in Logins \cup {ManagedKey}
    BY <1>0 DEF WantAuth, HasBackup, Backups, NoBackup, AuthFiles
  <2>2. auth' \in AuthFiles
    BY <1>0, <1>10, <2>1 DEF WriteAuth, AuthFiles
  <2>3. CASE \E pc \in {"active", "finish"} :
                Goto(i, pc) /\ UNCHANGED <<db, lock>>
    BY <1>10, <2>2, <2>3, GotoType DEF TypeOK, WriteAuth, WritePcs
  <2>4. CASE \E s \in {"conflict", "unavailable"} : Close(i, s) \/ Abandon(i, s)
    BY <1>10, <2>2, <2>4, CloseType, AbandonType DEF TypeOK, WriteAuth
  <2> QED BY <1>10, <2>3, <2>4 DEF WriteAuth
<1>11. CASE FinishWrite(i)
  <2>1. (record.scope /\ HasBackup(i)) \in BOOLEAN
    OBVIOUS
  <2>2. Settled(i) \in Records
    BY <1>0, <2>1, LiveType, NoPendingType DEF Settled, Records
  <2> QED BY <1>11, <2>2, GotoType DEF TypeOK, FinishWrite, WritePcs
<1>12. CASE DropBackup(i)
  <2>1. [db[i] EXCEPT !.backup = NoBackup] \in Databases
    BY <1>0 DEF Databases, Backups, NoBackup, Values
  <2> QED BY <1>12, <2>1, GotoType DEF TypeOK, DropBackup, WritePcs
<1>13. CASE DropRequire(i)
  <2>1. [db[i] EXCEPT !.required = @ \ {record.gen}] \in Databases
    BY <1>0 DEF Databases
  <2> QED BY <1>13, <2>1, GotoType DEF TypeOK, DropRequire, WritePcs
<1>14. CASE SetActive(i)
  <2>1. [db[i] EXCEPT !.active = proc[i].kind, !.status = "synchronized",
           !.preserve = proc[i].preserve] \in Databases
    BY <1>0 DEF Databases, Procs
  <2> QED BY <1>14, <2>1, GotoType DEF TypeOK, SetActive, WritePcs
<1>15. CASE CompleteWrite(i)
  BY <1>0, <1>15, CloseType DEF TypeOK, CompleteWrite, Databases
<1> QED
  BY <1>1, <1>2, <1>3, <1>4, <1>5, <1>6, <1>7, <1>8, <1>9, <1>10, <1>11,
     <1>12, <1>13, <1>14, <1>15 DEF WriteStep
LEMMA StartReleaseType ==
  ASSUME TypeOK, NEW i \in Instances, NEW r \in Requests,
         NEW phase \in Phases, NEW id \in Nat, StartRelease(i, r, phase, id)
  PROVE  /\ lock' \in InstOrNone /\ proc' \in [Instances -> Procs]
         /\ ask' \in [Requests -> Asks]
<1>1. ASSUME NEW m \in Modes, NEW pc \in ReleasePcs
      PROVE  [IdleProc EXCEPT !.phase = phase, !.id = id, !.req = r,
                              !.mode = m, !.pc = pc] \in Procs
  BY IdleType DEF Procs, ReqOrNone
<1>2. /\ [ask[r] EXCEPT !.released = TRUE] \in Asks
      /\ [ask[r] EXCEPT !.restore = IF @ = NoAuth THEN auth ELSE @] \in Asks
  <2>1. ask[r] \in Asks /\ auth \in AuthFiles
    BY DEF TypeOK
  <2>2. ASSUME NEW f \in AuthFiles \cup {NoAuth}
        PROVE  [ask[r] EXCEPT !.restore = f] \in Asks
    BY <2>1 DEF Asks
  <2>3. (IF ask[r].restore = NoAuth THEN auth ELSE ask[r].restore)
          \in AuthFiles \cup {NoAuth}
    BY <2>1 DEF Asks
  <2>4. [ask[r] EXCEPT !.released = TRUE] \in Asks
    BY <2>1 DEF Asks
  <2> QED BY <2>2, <2>3, <2>4
<1>3. ask' \in [Requests -> Asks]
  BY <1>2 DEF StartRelease, TypeOK
<1>4. proc' \in [Instances -> Procs]
  BY <1>1 DEF StartRelease, TypeOK, Modes, ReleasePcs
<1> QED
  BY <1>3, <1>4 DEF StartRelease, InstOrNone

LEMMA ReleaseType ==
  ASSUME TypeOK, ReleaseServes, NEW i \in Instances, ReleaseStep(i)
  PROVE  TypeOK'
<1> DEFINE r == proc[i].req
<1>0. /\ config \in Configs /\ auth \in AuthFiles
      /\ record \in Records /\ record.gen \in Nat /\ record.scope \in BOOLEAN
      /\ db[i] \in Databases /\ db[i].backup \in Backups
      /\ proc[i] \in Procs
  BY DEF TypeOK, Records, Databases
<1>r. ASSUME proc[i].pc \in ReleasePcs
      PROVE  /\ r \in Requests /\ Requester[r] \in Instances
             /\ ask[r] \in Asks /\ ask[r].gen \in Nat
  BY <1>r, RequestsAssumption DEF TypeOK, ReleaseServes, Serves, Asks
<1>a. ASSUME NEW outcome \in {"idle", "claim"}, Answer(r, outcome)
      PROVE  call' \in [Requests -> {"idle", "rpc", "served", "claim", "finish"}]
  BY <1>a DEF Answer, TypeOK
<1>1. CASE JournalRelease(i)
  <2>1. ReleaseRow(i, r) \in Ops
    BY <1>0, <1>1, <1>r DEF JournalRelease, At, ReleasePcs, ReleaseRow, Ops,
      Kinds, Configs, ReqOrNone, Databases
  <2>2. [db[i] EXCEPT !.journal = @ \cup {ReleaseRow(i, r)}, !.next = @ + 1]
          \in Databases
    BY <1>0, <2>1, JournalType
  <2> QED BY <1>1, <2>2, GotoType DEF TypeOK, JournalRelease, ReleasePcs
<1>2. CASE PendRelease(i)
  <2>1. [kind |-> "release", req |-> r, by |-> Requester[r]] \in Pendings
    BY <1>2, <1>r DEF PendRelease, At, ReleasePcs, Pendings, ReqOrNone, InstOrNone
  <2>2. [record EXCEPT !.pending =
           [kind |-> "release", req |-> r, by |-> Requester[r]]] \in Records
    BY <1>0, <2>1 DEF Records
  <2> QED BY <1>2, <2>2, GotoType DEF TypeOK, PendRelease, ReleasePcs
<1>3. CASE RestoreConfig(i)
  BY <1>3, GotoType DEF TypeOK, RestoreConfig, ReleasePcs, Configs
<1>4. CASE RestoreAuth(i)
  <2>1. CASE CanRestoreAuth(i)
    <3>1. auth' \in AuthFiles
      BY <1>0, <1>4, <2>1 DEF RestoreAuth, AuthFiles, Backups, NoBackup, HasBackup
    <3> QED BY <1>4, <2>1, <3>1, GotoType DEF TypeOK, RestoreAuth, ReleasePcs
  <2>2. CASE ~CanRestoreAuth(i)
    <3>1. [db[i] EXCEPT !.status = "conflict"] \in Databases
      BY <1>0 DEF Databases
    <3>2. db' \in [Instances -> Databases]
      BY <1>4, <2>2, <3>1 DEF TypeOK, RestoreAuth
    <3> QED BY <1>4, <2>2, <3>2, <1>a, ReturnType DEF TypeOK, RestoreAuth
  <2> QED BY <2>1, <2>2
<1>5. CASE Reserve(i)
  <2>1. Unclaimed(record.gen + 1, record.scope) \in Records
    BY <1>0, UnclaimedType
  <2>2. [kind |-> "takeover", req |-> r, by |-> Requester[r]] \in Pendings
    BY <1>5, <1>r DEF Reserve, At, ReleasePcs, Pendings, ReqOrNone, InstOrNone
  <2>3. [Unclaimed(record.gen + 1, record.scope) EXCEPT !.pending =
           [kind |-> "takeover", req |-> r, by |-> Requester[r]]] \in Records
    BY <2>1, <2>2 DEF Records
  <2> QED BY <1>5, <2>3, GotoType DEF TypeOK, Reserve, ReleasePcs
<1>6. CASE Receipt(i)
  <2>1. [ask[r] EXCEPT !.released = TRUE] \in Asks
    BY <1>6, <1>r DEF Receipt, At, ReleasePcs, Asks
  <2> QED BY <1>6, <2>1, GotoType DEF TypeOK, Receipt, ReleasePcs
<1>7. CASE DropLease(i)
  <2>1. [db[i] EXCEPT !.lease = 0, !.status = "unmanaged"] \in Databases
    BY <1>0 DEF Databases
  <2>2. db' \in [Instances -> Databases]
    BY <1>7, <2>1 DEF TypeOK, DropLease
  <2>3. \E pc \in {"runback", "rfinish"} : Goto(i, pc)
    BY <1>7 DEF DropLease
  <2>4. proc' \in [Instances -> Procs]
    BY <2>3, GotoType DEF ReleasePcs
  <2> QED BY <1>7, <2>2, <2>4 DEF TypeOK, DropLease
<1>8. CASE DropReleasedBackup(i)
  <2>1. [db[i] EXCEPT !.backup = NoBackup] \in Databases
    BY <1>0 DEF Databases, Backups
  <2> QED BY <1>8, <2>1, GotoType DEF TypeOK, DropReleasedBackup, ReleasePcs
<1>9. CASE DropReleasedRequire(i)
  <2>1. [db[i] EXCEPT !.required = @ \ {ask[r].gen}] \in Databases
    BY <1>0 DEF Databases
  <2> QED BY <1>9, <2>1, GotoType DEF TypeOK, DropReleasedRequire, ReleasePcs
<1>10. CASE FinishRelease(i)
  <2>1. [db[i] EXCEPT !.journal = @ \ ReleaseOp(i, r)] \in Databases
    BY <1>0 DEF Databases
  <2>r. r \in Requests
    BY <1>10, <1>r DEF FinishRelease, At, ReleasePcs
  <2>2. [ask[r] EXCEPT !.restore = IF OwnCleanup(i) THEN NoAuth ELSE @] \in Asks
    BY <2>r DEF TypeOK, Asks
  <2>3. ask' \in [Requests -> Asks]
    BY <1>10, <2>r, <2>2 DEF TypeOK, FinishRelease
  <2>4. db' \in [Instances -> Databases]
    BY <1>10, <2>1 DEF TypeOK, FinishRelease
  <2> QED BY <1>10, <2>3, <2>4, <1>a, ReturnType DEF TypeOK, FinishRelease
<1> QED
  BY <1>1, <1>2, <1>3, <1>4, <1>5, <1>6, <1>7, <1>8, <1>9, <1>10 DEF ReleaseStep
LEMMA TakeoverType ==
  ASSUME TypeOK, NEW i \in Instances,
         \/ TakeoverStep(i)
         \/ \E r \in Requests : RequestTakeover(i, r) \/ RetryTakeover(i, r)
  PROVE  TypeOK'
<1> DEFINE CallStates == {"idle", "rpc", "served", "claim", "finish"}
<1>0. /\ record \in Records /\ record.gen \in Nat /\ record.scope \in BOOLEAN
      /\ record.owner \in InstOrNone /\ db[i] \in Databases /\ proc[i] \in Procs
  BY DEF TypeOK, Records
<1>c. ASSUME NEW r, NEW c \in CallStates, call' = [call EXCEPT ![r] = c]
      PROVE  call' \in [Requests -> CallStates]
  BY <1>c DEF TypeOK
<1>1. CASE TakeLease(i)
  <2>1. [db[i] EXCEPT !.lease = record.gen] \in Databases
    BY <1>0 DEF Databases
  <2> QED BY <1>1, <2>1, GotoType DEF TypeOK, TakeLease, TakeoverPcs
<1>2. CASE TakeReceipt(i)
  <2>1. [db[i] EXCEPT !.status = "unmanaged"] \in Databases
    BY <1>0 DEF Databases
  <2>2. ASSUME NEW r \in Requests
        PROVE  [ask[r] EXCEPT !.receipt = record.gen] \in Asks
    <3>1. ask[r] \in Asks
      BY DEF TypeOK
    <3> QED BY <1>0, <3>1 DEF Asks
  <2>3. ask' \in [Requests -> Asks]
    BY <1>2, <2>2 DEF TypeOK, TakeReceipt
  <2> QED BY <1>2, <2>1, <2>3, GotoType DEF TypeOK, TakeReceipt, TakeoverPcs
<1>3. CASE ClearTakeover(i)
  <2>1. [record EXCEPT !.pending = NoPending] \in Records
    BY <1>0, NoPendingType DEF Records
  <2> QED BY <1>3, <2>1, <1>c, ReturnType DEF TypeOK, ClearTakeover
<1>4. ASSUME NEW r \in Requests, Unreachable(i, r) PROVE TypeOK'
  BY <1>4, <1>c DEF TypeOK, Unreachable
<1>5. ASSUME NEW r \in Requests, Claim(i, r) PROVE TypeOK'
  <2>1. CASE ~CanClaim(i, r)
    BY <1>5, <2>1, <1>c DEF TypeOK, Claim
  <2>2. CASE CanClaim(i, r)
    <3>1. record' \in Records
      <4>1. Live(record.scope) \in Fingerprints
        BY <1>0, LiveType
      <4>2. [kind |-> "takeover", req |-> r, by |-> i] \in Pendings
        BY DEF Pendings, ReqOrNone, InstOrNone
      <4>3. record.gen + (IF record.owner = i THEN 0 ELSE 1) \in Nat
        BY <1>0
      <4> QED BY <1>0, <1>5, <2>2, <4>1, <4>2, <4>3
            DEF Claim, Records, InstOrNone
    <3>2. [IdleProc EXCEPT !.mode = "takeover", !.pc = "tlease", !.req = r]
            \in Procs
      BY IdleType DEF Procs, Modes, TakeoverPcs, ReqOrNone
    <3> QED BY <1>5, <2>2, <3>1, <3>2 DEF TypeOK, Claim, InstOrNone
  <2> QED BY <2>1, <2>2
<1>6. ASSUME NEW r \in Requests, FinishTakeover(i, r) PROVE TypeOK'
  <2>0. ask[r] \in Asks
    BY DEF TypeOK
  <2>1. [ask[r] EXCEPT !.finished = TRUE] \in Asks
    BY <2>0 DEF Asks
  <2> QED BY <1>6, <2>1, <1>c DEF TypeOK, FinishTakeover
<1>7. ASSUME NEW r \in Requests, RequestTakeover(i, r) PROVE TypeOK'
  <2>1. ask[r] \in Asks
    BY DEF TypeOK
  <2>2. [ask[r] EXCEPT !.posed = TRUE, !.gen = record.gen,
                       !.owner = record.owner] \in Asks
    BY <1>0, <2>1 DEF Asks
  <2>3. Prepared(i) \in CallStates
    BY DEF Prepared
  <2>4. ask' \in [Requests -> Asks]
    BY <1>7, <2>2 DEF TypeOK, RequestTakeover
  <2>5. call' \in [Requests -> CallStates]
    BY <1>7, <2>3, <1>c DEF RequestTakeover
  <2>6. UNCHANGED <<config, auth, record, lock, db, proc, budget, outside, stray>>
    BY <1>7 DEF RequestTakeover
  <2> QED BY <2>4, <2>5, <2>6 DEF TypeOK
<1>8. ASSUME NEW r \in Requests, RetryTakeover(i, r) PROVE TypeOK'
  <2>1. Prepared(i) \in CallStates
    BY DEF Prepared
  <2> QED BY <1>8, <2>1, <1>c DEF TypeOK, RetryTakeover
<1> QED
  BY <1>1, <1>2, <1>3, <1>4, <1>5, <1>6, <1>7, <1>8 DEF TakeoverStep

LEMMA ServeType ==
  ASSUME TypeOK, NEW i \in Instances, NEW r \in Requests,
         ServeRelease(i, r) \/ ServeStray(i, r)
  PROVE  TypeOK'
<1>1. "ready" \in Phases /\ 0 \in Nat
  BY DEF Phases
<1>2. \/ StartRelease(i, r, "ready", 0)
      \/ UNCHANGED <<lock, ask, proc>>
  BY DEF ServeRelease, ServeStray
<1>3. /\ lock' \in InstOrNone /\ proc' \in [Instances -> Procs]
      /\ ask' \in [Requests -> Asks]
  BY <1>1, <1>2, StartReleaseType DEF TypeOK
<1>4. call' \in [Requests -> {"idle", "rpc", "served", "claim", "finish"}]
  BY DEF ServeRelease, ServeStray, TypeOK
<1>5. stray' \in SUBSET Requests
  BY DEF ServeRelease, ServeStray, TypeOK
<1> QED
  BY <1>3, <1>4, <1>5 DEF ServeRelease, ServeStray, TypeOK

LEMMA StartType ==
  ASSUME TypeOK, RowsServed, NEW i \in Instances,
         \/ StartStep(i)
         \/ \E op \in NextOp(i) : RecoverRelease(i, op)
         \/ \E k \in SwitchKinds : Switch(i, k)
         \/ Restart(i)
  PROVE  TypeOK'
<1>0. /\ db[i] \in Databases /\ proc[i] \in Procs
      /\ "fail" \in Events /\ "switch" \in Events
  BY DEF TypeOK, Events
<1>o. ASSUME NEW op \in NextOp(i)
      PROVE  op \in db[i].journal /\ op \in Ops /\ op.id \in Nat
  BY <1>0, <1>o DEF NextOp, Databases, Ops
<1>s. ASSUME NEW op \in NextOp(i)
      PROVE  /\ [db[i] EXCEPT !.journal = @ \ {op}, !.status = "conflict"]
                  \in Databases
             /\ [db[i] EXCEPT !.status = "conflict"] \in Databases
             /\ [proc[i] EXCEPT !.id = op.id] \in Procs
  BY <1>0, <1>o DEF Databases, Procs
<1>1. ASSUME NEW op \in NextOp(i), RecoverWrite(i, op) PROVE TypeOK'
  <2>1. ASSUME NEW pc \in WritePcs
        PROVE  [IdleProc EXCEPT
                  !.phase = "recover", !.mode = "recover", !.kind = op.kind,
                  !.preserve = op.preserve,
                  !.cfg = op.cfg, !.auth = op.auth, !.id = op.id,
                  !.pc = pc] \in Procs
    BY <1>o, IdleType DEF Procs, Ops, Phases, Modes
  <2>2. proc' \in [Instances -> Procs]
    BY <1>1, <2>1 DEF RecoverWrite, TypeOK, WritePcs
  <2> QED BY <1>1, <2>2 DEF RecoverWrite, TypeOK, InstOrNone
<1>2. ASSUME NEW op \in NextOp(i), RejectRecovery(i, op) PROVE TypeOK'
  <2>1. budget' \in [Events -> Nat]
    BY <1>0, <1>2, SpendType DEF RejectRecovery, TypeOK
  <2>2. db' \in [Instances -> Databases] /\ proc' \in [Instances -> Procs]
    BY <1>2, <1>s DEF RejectRecovery, TypeOK
  <2> QED BY <1>2, <2>1, <2>2 DEF RejectRecovery, TypeOK
<1>3. CASE EndRecovery(i)
  <2>1. [IdleProc EXCEPT !.phase = "reconcile"] \in Procs
    BY IdleType DEF Procs, Phases
  <2> QED BY <1>3, <2>1 DEF EndRecovery, TypeOK
<1>4. CASE Reconcile(i)
  <2>1. [IdleProc EXCEPT !.phase = "reconcile", !.mode = "reconcile",
                         !.kind = db[i].active] \in Procs
    BY <1>0, IdleType DEF Procs, Phases, Modes, Databases
  <2> QED BY <1>4, <2>1, BeginType DEF Reconcile, TypeOK
<1>5. CASE SkipReconcile(i)
  <2>1. budget' \in [Events -> Nat]
    BY <1>0, <1>5, SpendType DEF SkipReconcile, TypeOK
  <2>2. [db[i] EXCEPT !.status = "conflict"] \in Databases
    BY <1>0 DEF Databases
  <2>3. db' \in {db, [db EXCEPT ![i] = [db[i] EXCEPT !.status = "conflict"]]}
    BY <1>5 DEF SkipReconcile
  <2>4. db' \in [Instances -> Databases]
    BY <2>2, <2>3 DEF TypeOK
  <2>5. proc' \in [Instances -> Procs]
    BY <1>5, IdleType DEF SkipReconcile, TypeOK
  <2> QED BY <1>5, <2>1, <2>4, <2>5 DEF SkipReconcile, TypeOK
<1>6. ASSUME NEW op \in NextOp(i), RecoverRelease(i, op) PROVE TypeOK'
  <2>1. op.req \in Requests /\ "recover" \in Phases
    BY <1>6, <1>o DEF RecoverRelease, RowsServed, Serves, Phases
  <2>2. CASE StartRelease(i, op.req, "recover", op.id) /\ UNCHANGED <<db, budget>>
    BY <1>6, <1>o, <2>1, <2>2, StartReleaseType DEF RecoverRelease, TypeOK
  <2>3. CASE ~(StartRelease(i, op.req, "recover", op.id)
                 /\ UNCHANGED <<db, budget>>)
    <3>1. budget' \in [Events -> Nat]
      BY <1>0, <1>6, <2>3, SpendType DEF RecoverRelease, TypeOK
    <3>2. db' \in [Instances -> Databases] /\ proc' \in [Instances -> Procs]
      BY <1>6, <1>s, <2>3 DEF RecoverRelease, TypeOK
    <3> QED BY <1>6, <2>3, <3>1, <3>2 DEF RecoverRelease, TypeOK
  <2> QED BY <2>2, <2>3
<1>7. ASSUME NEW k \in SwitchKinds, Switch(i, k) PROVE TypeOK'
  <2>1. [IdleProc EXCEPT !.mode = "apply", !.kind = k] \in Procs
    BY IdleType, BoundsAssumption DEF Procs, Modes
  <2> QED BY <1>0, <1>7, <2>1, BeginType, SpendType DEF Switch, TypeOK
<1>8. CASE Restart(i)
  <2>1. [IdleProc EXCEPT !.phase = "recover"] \in Procs
    BY IdleType DEF Procs, Phases
  <2> QED BY <1>8, <2>1 DEF Restart, TypeOK
<1> QED
  BY <1>1, <1>2, <1>3, <1>4, <1>5, <1>6, <1>7, <1>8 DEF StartStep

LEMMA EnvironmentType ==
  ASSUME TypeOK, Environment PROVE TypeOK'
<1>0. {"crash", "login", "refresh", "edit", "fail"} \subseteq Events
  BY DEF Events
<1>1. ASSUME NEW i \in Instances, Crash(i) PROVE TypeOK'
  <2>1. [IdleProc EXCEPT !.phase = "down"] \in Procs
    BY IdleType DEF Procs, Phases
  <2>2. call' \in [Requests -> {"idle", "rpc", "served", "claim", "finish"}]
    BY <1>1 DEF Crash, TypeOK
  <2>3. lock' \in InstOrNone
    BY <1>1 DEF Crash, TypeOK, InstOrNone
  <2>4. stray' \in SUBSET Requests
    BY <1>1 DEF Crash, TypeOK
  <2> QED BY <1>0, <1>1, <2>1, <2>2, <2>3, <2>4, SpendType DEF Crash, TypeOK
<1>2. ASSUME NEW v \in Logins, Login(v) PROVE TypeOK'
  <2>1. auth' \in AuthFiles
    BY <1>2 DEF Login, TypeOK, AuthFiles
  <2>2. LoginMoment(v) \in Moments
    BY DEF LoginMoment, Moment, Moments
  <2>3. outside' \in [login: Logins, when: Moments, raced: BOOLEAN]
    BY <1>2, <2>2 DEF Login, TypeOK
  <2> QED BY <1>0, <1>2, <2>1, <2>3, SpendType DEF Login, TypeOK
<1>3. CASE Refresh
  <2>1. auth' \in AuthFiles
    BY <1>3 DEF Refresh, TypeOK, AuthFiles
  <2> QED BY <1>0, <1>3, <2>1, SpendType DEF Refresh, TypeOK
<1>4. CASE EditConfig
  <2>1. config' \in Configs
    BY <1>4 DEF EditConfig, Configs
  <2>2. outside' \in [login: Logins, when: Moments, raced: BOOLEAN]
    BY <1>4 DEF EditConfig, TypeOK
  <2> QED BY <1>0, <1>4, <2>1, <2>2, SpendType DEF EditConfig, TypeOK
<1>5. ASSUME NEW r \in Requests, LoseCall(r) PROVE TypeOK'
  <2>1. /\ call' \in [Requests -> {"idle", "rpc", "served", "claim", "finish"}]
        /\ stray' \in SUBSET Requests
    BY <1>5 DEF LoseCall, TypeOK
  <2> QED BY <1>0, <1>5, <2>1, SpendType DEF LoseCall, TypeOK
<1> QED
  BY <1>1, <1>2, <1>3, <1>4, <1>5 DEF Environment
-----------------------------------------------------------------------------
(* The protocol, without the contents of auth.json.  Each group of actions *)
(* is first reduced to its effect on what the parts of Inv mention.        *)

Protocol ==
  /\ LockHeld /\ HolderOwns /\ ReleaseServes /\ CallsServed /\ RowsServed
  /\ RequestSeen /\ Reservation /\ ConfigIsOut /\ ConfigIsOwners /\ LeaseIsOwners

\* Only instance i moves.
OthersStay(i) ==
  \A j \in Instances \ {i} : db'[j] = db[j] /\ proc'[j] = proc[j]

LEMMA GotoEffect ==
  ASSUME TypeOK, NEW i \in Instances, NEW pc, Goto(i, pc)
  PROVE  /\ proc'[i].pc = pc
         /\ \A j \in Instances \ {i} : proc'[j] = proc[j]
         /\ proc'[i].mode = proc[i].mode /\ proc'[i].kind = proc[i].kind
         /\ proc'[i].req = proc[i].req /\ proc'[i].made = proc[i].made
         /\ proc'[i].phase = proc[i].phase
BY DEF TypeOK, Goto, Procs

LEMMA ReturnEffect ==
  ASSUME TypeOK, NEW i \in Instances, Return(i)
  PROVE  /\ proc'[i].pc = "idle" /\ lock' = NoInst
         /\ proc'[i].phase \in {"ready", proc[i].phase}
         /\ \A j \in Instances \ {i} : proc'[j] = proc[j]
<1>1. proc'[i] = [IdleProc EXCEPT
         !.phase = IF proc[i].mode = "reconcile" THEN "ready"
                   ELSE proc[i].phase,
         !.id = IF proc[i].phase = "recover" THEN proc[i].id ELSE 0]
  BY DEF TypeOK, Return
<1>2. proc'[i].pc = "idle" /\ proc'[i].phase \in {"ready", proc[i].phase}
  BY <1>1 DEF IdleProc
<1> QED
  BY <1>2 DEF TypeOK, Return

\* What an operation's end does to the database.
LEMMA EndEffect ==
  ASSUME TypeOK, NEW i \in Instances, NEW s, Close(i, s) \/ Abandon(i, s)
  PROVE  /\ proc'[i].pc = "idle" /\ lock' = NoInst
         /\ proc'[i].phase \in {"ready", proc[i].phase}
         /\ OthersStay(i)
         /\ db'[i].journal \subseteq db[i].journal
         /\ UNCHANGED <<db[i].lease, db[i].backup, db[i].required>>
<1>1. db[i] \in Databases
  BY DEF TypeOK
<1>2. \A j \in Instances \ {i} : db'[j] = db[j]
  BY DEF TypeOK, Close, Abandon
<1>3. CASE Close(i, s)
  <2>1. db'[i] = [db[i] EXCEPT !.journal = WithoutOp(i), !.status = s]
    BY <1>3 DEF Close, TypeOK
  <2>2. /\ db'[i].journal = WithoutOp(i)
        /\ UNCHANGED <<db[i].lease, db[i].backup, db[i].required>>
    BY <1>1, <2>1 DEF Databases
  <2>3. WithoutOp(i) \subseteq db[i].journal
    BY DEF WithoutOp
  <2> QED BY <1>2, <1>3, <2>2, <2>3, ReturnEffect DEF Close, OthersStay
<1>4. CASE Abandon(i, s)
  <2>1. db'[i] = [db[i] EXCEPT !.status = s]
    BY <1>4 DEF Abandon, TypeOK
  <2> QED BY <1>1, <1>2, <1>4, <2>1, ReturnEffect
        DEF Abandon, Databases, OthersStay
<1> QED
  BY <1>3, <1>4

\* A request's promise is kept: what it saw, and that it was made.
AsksKept ==
  \A r \in Requests :
    /\ ask[r].posed =>
         UNCHANGED <<ask[r].posed, ask[r].gen, ask[r].owner>>
    /\ ask'[r].posed /\ ~ask[r].posed =>
         ask'[r].gen = record.gen /\ ask'[r].owner = record.owner

NewCallsServed ==
  \A r \in Requests : (call'[r] = "rpc" \/ r \in stray') =>
    \/ call[r] = "rpc" \/ r \in stray
    \/ ask'[r].posed /\ ask'[r].owner # Requester[r]

\* A write by the recorded owner, in the saga or while it takes over: the
\* owner, the generation and every request stay.
OwnerEffect(i) ==
  /\ proc[i].pc \in WritePcs \cup TakeoverPcs
  /\ OthersStay(i) /\ AsksKept /\ NewCallsServed
  /\ \A r \in Requests : UNCHANGED <<ask[r].posed, ask[r].released>>
  /\ record'.gen = record.gen /\ record'.owner = record.owner
  /\ \/ record'.pending = record.pending
     \/ record'.pending.kind = "write"
     \/ record'.pending = NoPending
  /\ \/ proc'[i].pc \in WritePcs \cup TakeoverPcs /\ lock' = lock
     \/ proc'[i].pc = "idle" /\ lock' = NoInst
  /\ proc'[i].phase \in {"ready", proc[i].phase}
  /\ \A op \in db'[i].journal : op.op = "release" => op \in db[i].journal
  /\ db'[i].lease \in {db[i].lease, record.gen}
  /\ config'.by \in {config.by, NoInst, i}

LEMMA OwnerProtocol ==
  ASSUME Inv, NEW i \in Instances, OwnerEffect(i), TypeOK'
  PROVE  Protocol'
<1> USE DEF Inv, OwnerEffect, OthersStay
<1>1. /\ lock = i
      /\ \A j \in Instances \ {i} : proc[j].pc = "idle" /\ proc'[j].pc = "idle"
  BY InstancesAssumption DEF LockHeld, WritePcs, TakeoverPcs
<1>2. record.owner = i /\ record.gen # 0
  BY DEF HolderOwns
<1>3. proc'[i].pc \notin ReleasePcs
  BY DEF WritePcs, ReleasePcs, TakeoverPcs
<1>4. LockHeld'
  BY <1>1 DEF LockHeld
<1>5. HolderOwns'
  BY <1>1, <1>2, <1>3 DEF HolderOwns, WritePcs, EarlyPcs, TakeoverPcs, ReleasePcs
<1>6. ReleaseServes'
  BY <1>1, <1>3 DEF ReleaseServes, EarlyPcs, LatePcs, ReleasePcs
<1>7. CallsServed'
  BY DEF CallsServed, NewCallsServed, AsksKept
<1>8. RowsServed'
  BY DEF RowsServed, Serves, AsksKept
<1>9. RequestSeen'
  BY DEF RequestSeen, AsksKept
<1>10. Reservation'
  BY <1>2, InstancesAssumption DEF Reservation, NoPending
<1>11. ConfigIsOut'
  BY <1>1, <1>3 DEF ConfigIsOut, ReleasePcs
<1>12. ConfigIsOwners'
  BY <1>2 DEF ConfigIsOwners
<1>13. LeaseIsOwners'
  BY <1>2 DEF LeaseIsOwners, TypeOK, Records
<1> QED
  BY <1>4, <1>5, <1>6, <1>7, <1>8, <1>9, <1>10, <1>11, <1>12, <1>13 DEF Protocol

LEMMA WriteEffect ==
  ASSUME Inv, NEW i \in Instances, WriteStep(i) PROVE OwnerEffect(i)
<1>0. TypeOK /\ db[i] \in Databases
  BY DEF Inv, TypeOK
<1>e. /\ UNCHANGED <<ask, call, stray>> => AsksKept /\ NewCallsServed
      /\ NoPending.kind = "none"
  BY DEF AsksKept, NewCallsServed, NoPending
<1>1. CASE ClaimLease(i)
  BY <1>0, <1>1, <1>e, GotoEffect
  DEF ClaimLease, At, TypeOK, Databases, OwnerEffect, OthersStay, WritePcs
<1>2. CASE Journal(i)
  BY <1>0, <1>2, <1>e, GotoEffect, EndEffect
  DEF Journal, At, WriteRow, TypeOK, Databases, Procs, OwnerEffect, OthersStay, WritePcs
<1>3. CASE StartWrite(i)
  <2>1. record \in Records
    BY <1>0 DEF TypeOK
  <2>2. /\ record'.gen = record.gen /\ record'.owner = record.owner
        /\ record'.pending.kind = "write"
    BY <1>3, <2>1 DEF StartWrite, Records, NoPending
  <2> QED BY <1>0, <1>3, <1>e, <2>2, GotoEffect
        DEF StartWrite, At, OwnerEffect, OthersStay, WritePcs
<1>4. CASE Backup(i)
  <2>1. CASE \E s \in {db[i].status, "conflict"} : Close(i, s)
    BY <1>0, <1>4, <1>e, <2>1, EndEffect DEF Backup, At, OwnerEffect, WritePcs
  <2>2. CASE \A s \in {db[i].status, "conflict"} : ~Close(i, s)
    <3>1. /\ db'[i].journal = db[i].journal /\ db'[i].lease = db[i].lease
          /\ \A j \in Instances \ {i} : db'[j] = db[j]
      BY <1>0, <1>4, <2>2 DEF Backup, TypeOK, Databases
    <3>2. /\ proc'[i].pc \in {"auth", "config", "require"} /\ lock' = lock
          /\ proc'[i].phase = proc[i].phase
          /\ \A j \in Instances \ {i} : proc'[j] = proc[j]
      BY <1>0, <1>4, <2>2, GotoEffect DEF Backup, TypeOK, Procs
    <3> QED BY <1>4, <1>e, <3>1, <3>2
          DEF Backup, At, OwnerEffect, OthersStay, WritePcs
  <2> QED BY <2>1, <2>2
<1>5. CASE RequireBackup(i)
  BY <1>0, <1>5, <1>e, GotoEffect
  DEF RequireBackup, At, TypeOK, Databases, OwnerEffect, OthersStay, WritePcs
<1>6. CASE WriteConfig(i)
  BY <1>0, <1>6, <1>e, GotoEffect, EndEffect
  DEF WriteConfig, At, Want, Native, OwnerEffect, OthersStay, WritePcs
<1>7. CASE UndoBackup(i)
  BY <1>0, <1>7, <1>e, GotoEffect
  DEF UndoBackup, At, TypeOK, Databases, OwnerEffect, OthersStay, WritePcs
<1>8. CASE UndoRequire(i)
  BY <1>0, <1>8, <1>e, GotoEffect
  DEF UndoRequire, At, TypeOK, Databases, OwnerEffect, OthersStay, WritePcs
<1>9. CASE FailWrite(i)
  BY <1>0, <1>9, <1>e, EndEffect
  DEF FailWrite, At, OwnerEffect, WritePcs
<1>10. CASE WriteAuth(i)
  BY <1>0, <1>10, <1>e, GotoEffect, EndEffect
  DEF WriteAuth, At, OwnerEffect, OthersStay, WritePcs
<1>11. CASE FinishWrite(i)
  BY <1>0, <1>11, <1>e, GotoEffect
  DEF FinishWrite, At, Settled, TypeOK, Records, OwnerEffect, OthersStay, WritePcs
<1>12. CASE DropBackup(i)
  BY <1>0, <1>12, <1>e, GotoEffect
  DEF DropBackup, At, TypeOK, Databases, OwnerEffect, OthersStay, WritePcs
<1>13. CASE DropRequire(i)
  BY <1>0, <1>13, <1>e, GotoEffect
  DEF DropRequire, At, TypeOK, Databases, OwnerEffect, OthersStay, WritePcs
<1>14. CASE SetActive(i)
  BY <1>0, <1>14, <1>e, GotoEffect
  DEF SetActive, At, TypeOK, Databases, OwnerEffect, OthersStay, WritePcs
<1>15. CASE CompleteWrite(i)
  BY <1>0, <1>15, <1>e, EndEffect
  DEF CompleteWrite, At, OwnerEffect, WritePcs
<1> QED
  BY <1>1, <1>2, <1>3, <1>4, <1>5, <1>6, <1>7, <1>8, <1>9, <1>10, <1>11,
     <1>12, <1>13, <1>14, <1>15 DEF WriteStep
-----------------------------------------------------------------------------
(* Writes of a release other than the hand-over itself.                    *)

ReleaseEffect(i) ==
  LET r == proc[i].req IN
  /\ proc[i].pc \in ReleasePcs
  /\ OthersStay(i) /\ AsksKept /\ NewCallsServed
  /\ \A q \in Requests :
       /\ ask'[q].posed = ask[q].posed
       /\ ask'[q].released => ask[q].released \/ (q = r /\ proc[i].pc \in LatePcs)
  /\ record'.gen = record.gen /\ record'.owner = record.owner
  /\ \/ record'.pending = record.pending
     \/ proc[i].pc \in EarlyPcs /\ record'.pending.kind = "release"
  /\ \/ /\ proc[i].pc \in EarlyPcs /\ proc'[i].pc \in EarlyPcs
        /\ proc'[i].req = r /\ proc'[i].mode = proc[i].mode /\ lock' = lock
     \/ /\ proc[i].pc \in LatePcs /\ proc'[i].pc \in LatePcs
        /\ proc'[i].req = r /\ proc'[i].mode = proc[i].mode /\ lock' = lock
     \/ proc'[i].pc = "idle" /\ lock' = NoInst
  /\ proc'[i].phase \in {"ready", proc[i].phase}
  /\ \A op \in db'[i].journal :
       op.op = "release" => op \in db[i].journal \/ op.req = r
  /\ db'[i].lease \in {db[i].lease, 0}
  /\ config'.by \in {config.by, NoInst}
  /\ proc'[i].pc \in {"rauth", "reserve"} => config'.by = NoInst

LEMMA ReleaseProtocol ==
  ASSUME Inv, NEW i \in Instances, ReleaseEffect(i), TypeOK'
  PROVE  Protocol'
<1> USE DEF Inv, ReleaseEffect, OthersStay
<1>1. /\ lock = i
      /\ \A j \in Instances \ {i} : proc[j].pc = "idle" /\ proc'[j].pc = "idle"
  BY InstancesAssumption DEF LockHeld, ReleasePcs
<1>2. LET r == proc[i].req
      IN  /\ Serves(i, r)
          /\ ask'[r].posed /\ ask'[r].owner = i /\ ask'[r].gen = ask[r].gen
  BY DEF ReleaseServes, Serves, AsksKept
<1>3. proc[i].pc \in EarlyPcs => record.owner = i /\ record.gen # 0
  BY DEF HolderOwns
<1>4. LockHeld'
  BY <1>1, <1>2 DEF LockHeld
<1>5. HolderOwns'
  BY <1>1, <1>3 DEF HolderOwns, WritePcs, EarlyPcs, LatePcs, TakeoverPcs, ReleasePcs
<1>6. ReleaseServes'
  <2>1. CASE proc'[i].pc \in EarlyPcs
    <3>1. proc[i].pc \in EarlyPcs /\ proc'[i].req = proc[i].req
      BY <2>1 DEF EarlyPcs, LatePcs
    <3> QED BY <1>1, <1>2, <2>1, <3>1
          DEF ReleaseServes, EarlyPcs, LatePcs, ReleasePcs, AsksKept, Serves
  <2>2. CASE proc'[i].pc \in LatePcs
    <3>1. /\ proc[i].pc \in LatePcs /\ proc'[i].req = proc[i].req
          /\ proc'[i].mode = proc[i].mode
      BY <2>2 DEF EarlyPcs, LatePcs, ReleasePcs
    <3> QED BY <1>1, <1>2, <2>2, <3>1
          DEF ReleaseServes, EarlyPcs, LatePcs, ReleasePcs, AsksKept, Serves
  <2>3. CASE proc'[i].pc = "idle"
    BY <1>1, <2>3 DEF ReleaseServes, EarlyPcs, LatePcs, ReleasePcs
  <2> QED BY <2>1, <2>2, <2>3
<1>7. CallsServed'
  BY DEF CallsServed, NewCallsServed, AsksKept
<1>8. RowsServed'
  BY <1>2 DEF RowsServed, Serves, AsksKept
<1>9. RequestSeen'
  BY <1>2 DEF RequestSeen, AsksKept, ReleaseServes, Serves
<1>10. Reservation'
  BY <1>3, InstancesAssumption DEF Reservation, NoPending
<1>11. ConfigIsOut'
  BY <1>1 DEF ConfigIsOut
<1>12. ConfigIsOwners'
  BY DEF ConfigIsOwners
<1>13. LeaseIsOwners'
  BY DEF LeaseIsOwners, TypeOK, Records
<1> QED
  BY <1>4, <1>5, <1>6, <1>7, <1>8, <1>9, <1>10, <1>11, <1>12, <1>13 DEF Protocol

LEMMA ReleaseStepEffect ==
  ASSUME Inv, NEW i \in Instances, ReleaseStep(i), ~Reserve(i)
  PROVE  ReleaseEffect(i)
<1> DEFINE r == proc[i].req
<1>0. TypeOK /\ db[i] \in Databases /\ record \in Records
  BY DEF Inv, TypeOK
<1>e. /\ UNCHANGED ask => AsksKept
      /\ UNCHANGED <<ask, call, stray>> => NewCallsServed
  BY DEF AsksKept, NewCallsServed
<1>a. ASSUME NEW outcome \in {"idle", "claim"}, Answer(r, outcome), UNCHANGED stray
      PROVE  NewCallsServed
  BY <1>0, <1>a DEF Answer, NewCallsServed, TypeOK
<1>o. proc[i].pc \in {"rauth", "reserve"} => config.by = NoInst
  BY DEF Inv, ConfigIsOut
<1>1. CASE JournalRelease(i)
  <2>1. \A op \in db'[i].journal :
          op.op = "release" => op \in db[i].journal \/ op.req = r
    BY <1>0, <1>1 DEF JournalRelease, ReleaseRow, TypeOK, Databases
  <2>2. /\ db'[i].lease = db[i].lease
        /\ \A j \in Instances \ {i} : db'[j] = db[j]
    BY <1>0, <1>1 DEF JournalRelease, TypeOK, Databases
  <2>3. /\ UNCHANGED <<record, lock, config>>
        /\ AsksKept /\ NewCallsServed
        /\ \A q \in Requests : ask'[q] = ask[q]
    BY <1>1, <1>e DEF JournalRelease
  <2>4. /\ proc[i].pc = "rjournal" /\ proc'[i].pc = "rpending"
        /\ proc'[i].req = r /\ proc'[i].mode = proc[i].mode
        /\ proc'[i].phase = proc[i].phase
        /\ \A j \in Instances \ {i} : proc'[j] = proc[j]
    BY <1>0, <1>1, GotoEffect DEF JournalRelease, At
  <2> QED BY <2>1, <2>2, <2>3, <2>4
        DEF OthersStay, ReleaseEffect, ReleasePcs, EarlyPcs
<1>2. CASE PendRelease(i)
  <2>1. /\ record'.gen = record.gen /\ record'.owner = record.owner
        /\ record'.pending.kind = "release"
    BY <1>0, <1>2 DEF PendRelease, Records
  <2> QED BY <1>0, <1>2, <1>e, <2>1, GotoEffect
        DEF PendRelease, At, OthersStay, ReleaseEffect, ReleasePcs, EarlyPcs
<1>3. CASE RestoreConfig(i)
  BY <1>0, <1>3, <1>e, GotoEffect
  DEF RestoreConfig, At, Native, OthersStay, ReleaseEffect, ReleasePcs, EarlyPcs
<1>4. CASE RestoreAuth(i)
  <2>1. CASE CanRestoreAuth(i)
    BY <1>0, <1>4, <1>e, <1>o, <2>1, GotoEffect
    DEF RestoreAuth, At, OthersStay, ReleaseEffect, ReleasePcs, EarlyPcs
  <2>2. CASE ~CanRestoreAuth(i)
    <3>1. /\ UNCHANGED <<db[i].lease, db[i].journal>>
          /\ \A j \in Instances \ {i} : db'[j] = db[j]
      BY <1>0, <1>4, <2>2 DEF RestoreAuth, TypeOK, Databases
    <3> QED BY <1>0, <1>4, <1>a, <1>e, <2>2, <3>1, ReturnEffect
          DEF RestoreAuth, At, OthersStay, ReleaseEffect, ReleasePcs, EarlyPcs
  <2> QED BY <2>1, <2>2
<1>6. CASE Receipt(i)
  <2>1. /\ AsksKept
        /\ \A q \in Requests :
             /\ ask'[q].posed = ask[q].posed
             /\ ask'[q].released => ask[q].released \/ q = r
    BY <1>0, <1>6 DEF Receipt, AsksKept, TypeOK, Asks
  <2>2. NewCallsServed
    BY <1>6 DEF Receipt, NewCallsServed
  <2> QED BY <1>0, <1>6, <2>1, <2>2, GotoEffect
        DEF Receipt, At, OthersStay, ReleaseEffect, ReleasePcs, LatePcs, EarlyPcs
<1>7. CASE DropLease(i)
  <2>1. /\ db'[i].lease \in {db[i].lease, 0} /\ db'[i].journal = db[i].journal
        /\ \A j \in Instances \ {i} : db'[j] = db[j]
    BY <1>0, <1>7 DEF DropLease, TypeOK, Databases
  <2> QED BY <1>0, <1>7, <1>e, <2>1, GotoEffect
        DEF DropLease, At, OthersStay, ReleaseEffect, ReleasePcs, LatePcs, EarlyPcs
<1>8. CASE DropReleasedBackup(i)
  <2>1. /\ UNCHANGED <<db[i].lease, db[i].journal>>
        /\ \A j \in Instances \ {i} : db'[j] = db[j]
    BY <1>0, <1>8 DEF DropReleasedBackup, TypeOK, Databases
  <2> QED BY <1>0, <1>8, <1>e, <2>1, GotoEffect
        DEF DropReleasedBackup, At, OthersStay, ReleaseEffect, ReleasePcs, LatePcs, EarlyPcs
<1>9. CASE DropReleasedRequire(i)
  <2>1. /\ UNCHANGED <<db[i].lease, db[i].journal>>
        /\ \A j \in Instances \ {i} : db'[j] = db[j]
    BY <1>0, <1>9 DEF DropReleasedRequire, TypeOK, Databases
  <2> QED BY <1>0, <1>9, <1>e, <2>1, GotoEffect
        DEF DropReleasedRequire, At, OthersStay, ReleaseEffect, ReleasePcs, LatePcs, EarlyPcs
<1>10. CASE FinishRelease(i)
  <2>1. /\ db'[i].lease = db[i].lease /\ db'[i].journal \subseteq db[i].journal
        /\ \A j \in Instances \ {i} : db'[j] = db[j]
    BY <1>0, <1>10 DEF FinishRelease, TypeOK, Databases
  <2>2. /\ AsksKept
        /\ \A q \in Requests : UNCHANGED <<ask[q].posed, ask[q].released>>
    BY <1>0, <1>10 DEF FinishRelease, AsksKept, TypeOK, Asks
  <2> QED BY <1>0, <1>10, <1>a, <2>1, <2>2, ReturnEffect
        DEF FinishRelease, At, OthersStay, ReleaseEffect, ReleasePcs, LatePcs, EarlyPcs
<1> QED
  BY <1>1, <1>2, <1>3, <1>4, <1>6, <1>7, <1>8, <1>9, <1>10 DEF ReleaseStep
-----------------------------------------------------------------------------
(* Steps that change who owns the directory, or who writes next.           *)

LEMMA ReserveProtocol ==
  ASSUME Inv, NEW i \in Instances, Reserve(i), TypeOK'
  PROVE  Protocol'
<1> DEFINE r == proc[i].req
<1>0. TypeOK /\ record.gen \in Nat /\ record' \in Records
  BY DEF Inv, TypeOK, Records
<1>1. /\ lock = i
      /\ \A j \in Instances \ {i} : proc[j].pc = "idle"
  BY InstancesAssumption DEF Inv, LockHeld, Reserve, At
<1>2. /\ proc[i].pc = "reserve" /\ proc'[i].pc = "receipt" /\ proc'[i].req = r
      /\ \A j \in Instances \ {i} : proc'[j] = proc[j]
  BY <1>0, GotoEffect DEF Reserve, At
<1>3. /\ record'.gen = record.gen + 1 /\ record'.owner = NoInst
      /\ record'.pending.kind = "takeover"
  BY DEF Reserve, Unclaimed
<1>4. Serves(i, r) /\ ask[r].gen = record.gen /\ config.by = NoInst
  BY <1>2 DEF Inv, ReleaseServes, ConfigIsOut, ReleasePcs, EarlyPcs
<1>5. UNCHANGED <<config, lock, db, ask, call, stray>>
  BY DEF Reserve
<1>6. LockHeld'
  BY <1>1, <1>2, <1>5 DEF LockHeld
<1>7. HolderOwns'
  BY <1>1, <1>2 DEF HolderOwns, WritePcs, EarlyPcs, TakeoverPcs
<1>8. ReleaseServes'
  BY <1>0, <1>1, <1>2, <1>3, <1>4, <1>5
  DEF ReleaseServes, Serves, LatePcs, EarlyPcs, ReleasePcs
<1>9. CallsServed' /\ RowsServed'
  BY <1>5 DEF Inv, CallsServed, RowsServed, Serves
<1>10. RequestSeen'
  BY <1>0, <1>3, <1>5 DEF Inv, RequestSeen, TypeOK, Asks
<1>11. Reservation'
  BY <1>0, <1>3 DEF Reservation
<1>12. ConfigIsOut' /\ ConfigIsOwners'
  BY <1>1, <1>2, <1>4, <1>5 DEF ConfigIsOut, ConfigIsOwners
<1>13. LeaseIsOwners'
  <2>1. \A j \in Instances : db[j].lease \in Nat /\ db[j].lease <= record.gen
    BY <1>0 DEF Inv, LeaseIsOwners, TypeOK, Databases
  <2> QED BY <1>0, <1>3, <1>5, <2>1 DEF LeaseIsOwners
<1> QED
  BY <1>6, <1>7, <1>8, <1>9, <1>10, <1>11, <1>12, <1>13 DEF Protocol

\* A reservation that is honoured is of a directory without an owner.
LEMMA ReservedIsFree ==
  ASSUME Inv, NEW i \in Instances, NEW r \in Requests,
         NEW e, ReservedFor(i, r, e)
  PROVE  record.owner \in {NoInst, i}
BY DEF Inv, Reservation, ReservedFor

\* Who claims the directory found it free, or owned it already.
LEMMA ClaimProtocol ==
  ASSUME Inv, NEW i \in Instances, NEW r \in Requests, Claim(i, r),
         CanClaim(i, r), TypeOK'
  PROVE  Protocol'
<1>0. TypeOK /\ record.gen \in Nat /\ record \in Records
  BY DEF Inv, TypeOK, Records
<1>1. record.owner \in {NoInst, i}
  BY ReservedIsFree DEF CanClaim
<1>2. /\ lock = NoInst /\ lock' = i
      /\ \A j \in Instances : proc[j].pc = "idle"
  BY InstancesAssumption DEF Inv, LockHeld, Claim, CanClaim
<1>3. /\ proc'[i].pc = "tlease"
      /\ \A j \in Instances \ {i} : proc'[j] = proc[j]
  <2>1. proc' = [proc EXCEPT ![i] =
          [IdleProc EXCEPT !.mode = "takeover", !.pc = "tlease", !.req = r]]
    BY DEF Claim
  <2>2. proc'[i] =
          [IdleProc EXCEPT !.mode = "takeover", !.pc = "tlease", !.req = r]
    BY <1>0, <2>1 DEF TypeOK
  <2>3. proc'[i].pc = "tlease"
    BY <2>2 DEF IdleProc
  <2> QED BY <1>0, <2>1, <2>3 DEF TypeOK
<1>4. /\ record'.owner = i
      /\ record'.gen = record.gen + (IF record.owner = i THEN 0 ELSE 1)
      /\ record'.pending.kind = "takeover" /\ record'.pending.by = i
  BY DEF Claim
<1>5. /\ UNCHANGED <<config, db, ask, stray>>
      /\ call' = call
  BY DEF Claim
<1>6. record.owner = i => record.gen # 0
  BY InstancesAssumption DEF Inv, Reservation
<1>7. LockHeld' /\ HolderOwns'
  BY <1>0, <1>2, <1>3, <1>4, <1>6 DEF LockHeld, HolderOwns, WritePcs, EarlyPcs, TakeoverPcs
<1>8. ReleaseServes'
  BY <1>2, <1>3 DEF ReleaseServes, EarlyPcs, LatePcs, ReleasePcs
<1>9. CallsServed' /\ RowsServed'
  BY <1>5 DEF Inv, CallsServed, RowsServed, Serves
<1>10. RequestSeen'
  BY <1>0, <1>4, <1>5 DEF Inv, RequestSeen, TypeOK, Asks
<1>11. Reservation'
  BY <1>0, <1>4, <1>6, InstancesAssumption DEF Reservation
<1>12. ConfigIsOut' /\ ConfigIsOwners'
  BY <1>1, <1>2, <1>3, <1>4, <1>5 DEF Inv, ConfigIsOut, ConfigIsOwners
<1>13. LeaseIsOwners'
  <2>1. \A j \in Instances : db[j].lease \in Nat
    BY <1>0 DEF TypeOK, Databases
  <2> QED BY <1>0, <1>4, <1>5, <2>1 DEF Inv, LeaseIsOwners
<1> QED
  BY <1>7, <1>8, <1>9, <1>10, <1>11, <1>12, <1>13 DEF Protocol

LEMMA BeginProtocol ==
  ASSUME Inv, NEW i \in Instances, NEW m \in BOOLEAN, NEW o \in Procs,
         Begin(i, m, o), UNCHANGED <<config, ask, call, stray>>, TypeOK'
  PROVE  Protocol'
<1>0. TypeOK /\ record.gen \in Nat /\ record \in Records /\ db[i] \in Databases
  BY DEF Inv, TypeOK, Records
<1>1. /\ lock = NoInst /\ lock' = i
      /\ \A j \in Instances : proc[j].pc = "idle"
  BY InstancesAssumption DEF Inv, LockHeld, Begin, CanBegin
<1>a. record.gen = 0 =>
        /\ record' = [Unclaimed(db[i].lease + 1, FALSE) EXCEPT !.owner = i]
        /\ proc' = [proc EXCEPT ![i] = [o EXCEPT !.pc = "lease"]]
        /\ db' = db
  BY DEF Begin
<1>b. record.gen # 0 =>
        /\ record' = record
        /\ proc' = [proc EXCEPT ![i] = [o EXCEPT !.pc = "journal"]]
        /\ db' = [db EXCEPT ![i].lease = record.gen]
  BY DEF Begin
<1>2. /\ proc'[i].pc \in {"lease", "journal"}
      /\ \A j \in Instances \ {i} : proc'[j] = proc[j]
  <2>1. \E pc \in {"lease", "journal"} :
          proc' = [proc EXCEPT ![i] = [o EXCEPT !.pc = pc]]
    BY <1>a, <1>b
  <2>2. PICK pc \in {"lease", "journal"} :
          proc' = [proc EXCEPT ![i] = [o EXCEPT !.pc = pc]]
    BY <2>1
  <2>3. [o EXCEPT !.pc = pc].pc = pc
    BY DEF Procs
  <2> QED BY <1>0, <2>2, <2>3 DEF TypeOK
<1>3. \A j \in Instances \ {i} : db'[j] = db[j]
  <2>1. CASE record.gen = 0
    BY <1>a, <2>1
  <2>2. CASE record.gen # 0
    BY <1>0, <1>b, <2>2 DEF TypeOK
  <2> QED BY <2>1, <2>2
<1>4. /\ db'[i].journal = db[i].journal
      /\ record.gen # 0 => db'[i].lease = record.gen
  <2>1. CASE record.gen = 0
    BY <1>a, <2>1
  <2>2. CASE record.gen # 0
    BY <1>0, <1>b, <2>2 DEF TypeOK, Databases
  <2> QED BY <2>1, <2>2
<1>5. record.gen = 0 =>
        /\ record.owner = NoInst /\ config.by = NoInst
        /\ record'.owner = i /\ record'.gen = 1
        /\ record'.pending.kind = "none" /\ db' = db
  <2>1. record.gen = 0 => db[i].lease + 1 = 1
    BY <1>0 DEF Inv, LeaseIsOwners, Databases
  <2>2. record.gen = 0 => record' = [Unclaimed(1, FALSE) EXCEPT !.owner = i]
    BY <1>a, <2>1
  <2>3. record.gen = 0 => record.owner = NoInst /\ config.by = NoInst
    BY DEF Inv, Reservation, Begin, CanBegin, Problem
  <2> QED BY <1>a, <2>2, <2>3 DEF Unclaimed, NoPending
<1>6. record.gen # 0 =>
        /\ record.owner = i /\ record' = record
        /\ db'[i].lease = record.gen
  BY <1>4, <1>b DEF Begin, CanBegin
<1>7. LockHeld' /\ HolderOwns'
  BY <1>0, <1>1, <1>2, <1>5, <1>6 DEF LockHeld, HolderOwns, WritePcs, EarlyPcs, TakeoverPcs
<1>8. ReleaseServes'
  BY <1>1, <1>2 DEF ReleaseServes, EarlyPcs, LatePcs, ReleasePcs
<1>9. CallsServed' /\ RowsServed'
  BY <1>3, <1>4 DEF Inv, CallsServed, RowsServed, Serves
<1>10. RequestSeen'
  BY <1>0, <1>5, <1>6 DEF Inv, RequestSeen, TypeOK, Asks
<1>11. Reservation'
  BY <1>0, <1>5, <1>6, InstancesAssumption DEF Inv, Reservation
<1>12. ConfigIsOut' /\ ConfigIsOwners'
  BY <1>1, <1>2, <1>5, <1>6 DEF Inv, ConfigIsOut, ConfigIsOwners
<1>13. LeaseIsOwners'
  <2>1. \A j \in Instances : db[j].lease \in Nat
    BY <1>0 DEF TypeOK, Databases
  <2> QED BY <1>0, <1>3, <1>5, <1>6, <2>1 DEF Inv, LeaseIsOwners
<1> QED
  BY <1>7, <1>8, <1>9, <1>10, <1>11, <1>12, <1>13 DEF Protocol
\* A release begins, or its cleanup is resumed.
LEMMA StartReleaseProtocol ==
  ASSUME Inv, NEW i \in Instances, NEW r \in Requests,
         NEW phase \in Phases, NEW id \in Nat,
         StartRelease(i, r, phase, id), Serves(i, r), NewCallsServed,
         UNCHANGED <<config, record, db>>, TypeOK'
  PROVE  Protocol'
<1>0. TypeOK /\ record.gen \in Nat /\ ask[r] \in Asks /\ ask[r].gen \in Nat
  BY DEF Inv, TypeOK, Records, Asks
<1>1. /\ lock = NoInst /\ lock' = i
      /\ \A j \in Instances : proc[j].pc = "idle"
  BY InstancesAssumption DEF Inv, LockHeld, StartRelease, CanServe
<1>2. /\ \A j \in Instances \ {i} : proc'[j] = proc[j]
      /\ proc'[i].req = r
      /\ \/ HandedOver(r) /\ proc'[i].mode = "complete" /\ proc'[i].pc = "unlease"
         \/ ~HandedOver(r) /\ proc'[i].mode = "release" /\ proc'[i].pc = "rjournal"
  <2>1. ASSUME NEW m, NEW pc,
               proc' = [proc EXCEPT ![i] =
                 [IdleProc EXCEPT !.phase = phase, !.id = id, !.req = r,
                                  !.mode = m, !.pc = pc]]
        PROVE  /\ \A j \in Instances \ {i} : proc'[j] = proc[j]
               /\ proc'[i].req = r /\ proc'[i].mode = m /\ proc'[i].pc = pc
    BY <1>0, <2>1 DEF TypeOK, IdleProc
  <2>2. CASE HandedOver(r)
    BY <2>1, <2>2 DEF StartRelease
  <2>3. CASE ~HandedOver(r)
    BY <2>1, <2>3 DEF StartRelease
  <2> QED BY <2>2, <2>3
<1>3. \A q \in Requests :
        /\ ask'[q].posed = ask[q].posed /\ ask'[q].gen = ask[q].gen
        /\ ask'[q].owner = ask[q].owner
        /\ ask'[q].released => ask[q].released \/ (q = r /\ HandedOver(r))
  <2>1. CASE HandedOver(r)
    <3>1. ask' = [ask EXCEPT ![r].released = TRUE]
      BY <2>1 DEF StartRelease
    <3> QED BY <1>0, <2>1, <3>1 DEF TypeOK, Asks
  <2>2. CASE ~HandedOver(r)
    <3>1. ask' = [ask EXCEPT ![r].restore = IF @ = NoAuth THEN auth ELSE @]
      BY <2>2 DEF StartRelease
    <3> QED BY <1>0, <3>1 DEF TypeOK, Asks
  <2> QED BY <2>1, <2>2
<1>4. ~HandedOver(r) =>
        record.owner = i /\ record.gen = ask[r].gen
  BY DEF StartRelease, CanServe, CanRelease
<1>5. ~HandedOver(r) => record.gen # 0
  BY <1>4, InstancesAssumption DEF Inv, Reservation
\* The request saw this instance as the owner, and the record shows another.
<1>6. HandedOver(r) => ask[r].gen < record.gen
  <2>1. ask[r].released => ask[r].gen < record.gen
    BY DEF Inv, RequestSeen
  <2>2. ASSUME Reserved(r) PROVE record.owner # i
    BY <2>2, InstancesAssumption DEF Inv, Reservation, Reserved, Serves
  <2>3. /\ ask[r].gen <= record.gen
        /\ ask[r].gen = record.gen => record.owner = i
    BY DEF Inv, RequestSeen, Serves
  <2> QED BY <1>0, <2>1, <2>2, <2>3 DEF HandedOver
<1>7. LockHeld'
  BY <1>1, <1>2 DEF LockHeld
<1>8. HolderOwns'
  BY <1>1, <1>2, <1>4, <1>5 DEF HolderOwns, WritePcs, EarlyPcs, TakeoverPcs
<1>9. ReleaseServes'
  BY <1>1, <1>2, <1>3, <1>4, <1>6
  DEF ReleaseServes, Serves, EarlyPcs, LatePcs, ReleasePcs
<1>10. CallsServed' /\ RowsServed'
  BY <1>3 DEF Inv, CallsServed, NewCallsServed, RowsServed, Serves
<1>11. RequestSeen'
  BY <1>3, <1>6 DEF Inv, RequestSeen, Serves
<1>12. Reservation' /\ ConfigIsOwners' /\ LeaseIsOwners'
  BY DEF Inv, Reservation, ConfigIsOwners, LeaseIsOwners
<1>13. ConfigIsOut'
  BY <1>1, <1>2 DEF ConfigIsOut
<1> QED
  BY <1>7, <1>8, <1>9, <1>10, <1>11, <1>12, <1>13 DEF Protocol

\* Recovery takes up a journalled write, as the owner it was begun by.
LEMMA RecoverProtocol ==
  ASSUME Inv, NEW i \in Instances, NEW op, RecoverWrite(i, op), TypeOK'
  PROVE  Protocol'
<1>0. TypeOK
  BY DEF Inv
<1>1. /\ lock = NoInst /\ lock' = i
      /\ \A j \in Instances : proc[j].pc = "idle"
  BY InstancesAssumption DEF Inv, LockHeld, RecoverWrite, CanRecover, CanBegin
<1>2. record.owner = i /\ record.gen # 0
  BY DEF RecoverWrite, CanRecover, CanBegin
<1>3. /\ proc'[i].pc \in {"config", "backup", "auth"}
      /\ \A j \in Instances \ {i} : proc'[j] = proc[j]
  <2>1. ASSUME NEW pc,
               proc' = [proc EXCEPT ![i] =
                 [IdleProc EXCEPT
                   !.phase = "recover", !.mode = "recover", !.kind = op.kind,
                   !.preserve = op.preserve,
                   !.cfg = op.cfg, !.auth = op.auth, !.id = op.id, !.pc = pc]]
        PROVE  /\ proc'[i].pc = pc
               /\ \A j \in Instances \ {i} : proc'[j] = proc[j]
    BY <1>0, <2>1 DEF TypeOK, IdleProc
  <2> QED BY <2>1 DEF RecoverWrite
<1>4. UNCHANGED <<config, record, db, ask, call, stray>>
  BY DEF RecoverWrite
<1>5. LockHeld' /\ HolderOwns' /\ ConfigIsOut'
  BY <1>1, <1>2, <1>3, <1>4
  DEF LockHeld, HolderOwns, ConfigIsOut, WritePcs, EarlyPcs, TakeoverPcs
<1>6. ReleaseServes'
  BY <1>1, <1>3 DEF ReleaseServes, EarlyPcs, LatePcs, ReleasePcs
<1>7. /\ CallsServed' /\ RowsServed' /\ RequestSeen' /\ Reservation'
      /\ ConfigIsOwners' /\ LeaseIsOwners'
  BY <1>4 DEF Inv, CallsServed, RowsServed, Serves, RequestSeen, Reservation,
    ConfigIsOwners, LeaseIsOwners
<1> QED
  BY <1>5, <1>6, <1>7 DEF Protocol

-----------------------------------------------------------------------------
(* Steps that leave the record alone.                                      *)

\* Calls are sent, answered or lost, an instance stops or moves on in its
\* start, or the client's user changes a file: nobody starts to write.
QuietEffect ==
  /\ AsksKept /\ NewCallsServed
  /\ UNCHANGED record
  /\ \A r \in Requests : ask'[r].released = ask[r].released
  /\ \A i \in Instances :
       /\ proc'[i] = proc[i] \/ proc'[i].pc = "idle"
       /\ \/ proc'[i] = proc[i] \/ proc[i].pc = "idle"
          \/ proc[i].phase = "down" \/ Crash(i)
       /\ proc'[i].phase = "down" => proc[i].phase = "down" \/ Crash(i)
       /\ db'[i].lease = db[i].lease /\ db'[i].backup = db[i].backup
       /\ db'[i].required = db[i].required
       /\ db'[i].journal \subseteq db[i].journal
       /\ proc'[i].pc # "idle" => lock' = lock
       /\ db'[i].active = db[i].active
       /\ db'[i] = db[i] \/ (db'[i].status = "conflict" /\ proc'[i].pc = "idle")
  /\ outside' = outside => auth'.val = auth.val
  /\ config' = config \/ EditConfig
  /\ config' \in {config, Edited}
  /\ auth'.val = auth.val \/ (auth'.val # ManagedKey /\ outside' # outside)

LEMMA QuietProtocol ==
  ASSUME Inv, QuietEffect, TypeOK' PROVE Protocol'
<1> USE DEF Inv, QuietEffect
<1>1. \A i \in Instances : proc'[i].pc # "idle" => proc'[i] = proc[i]
  OBVIOUS
<1>2. \A i \in Instances, r \in Requests :
        Serves(i, r) => /\ ask'[r].posed /\ ask'[r].owner = i
                        /\ ask'[r].gen = ask[r].gen
  BY DEF Serves, AsksKept
<1>3. LockHeld'
  BY <1>1 DEF LockHeld
<1>4. HolderOwns'
  BY <1>1 DEF HolderOwns, WritePcs, EarlyPcs, TakeoverPcs
<1>5. ReleaseServes'
  <2>1. ASSUME NEW i \in Instances, proc'[i].pc \in ReleasePcs
        PROVE  proc'[i] = proc[i]
    BY <1>1, <2>1 DEF ReleasePcs
  <2>2. EarlyPcs \subseteq ReleasePcs /\ LatePcs \subseteq ReleasePcs
    BY DEF EarlyPcs, LatePcs, ReleasePcs
  <2> QED BY <1>2, <2>1, <2>2 DEF ReleaseServes, Serves
<1>6. CallsServed'
  BY DEF CallsServed, NewCallsServed, AsksKept
<1>7. RowsServed'
  BY <1>2 DEF RowsServed, Serves
<1>8. RequestSeen'
  <2>1. record'.gen = record.gen /\ record.gen \in Nat
    BY DEF TypeOK, Records
  <2> QED BY <2>1 DEF RequestSeen, AsksKept
<1>9. Reservation' /\ LeaseIsOwners'
  BY DEF Reservation, LeaseIsOwners
<1>10. ConfigIsOut' /\ ConfigIsOwners'
  BY <1>1 DEF ConfigIsOut, ConfigIsOwners, Edited
<1> QED
  BY <1>3, <1>4, <1>5, <1>6, <1>7, <1>8, <1>9, <1>10 DEF Protocol
LEMMA TakeoverEffect ==
  ASSUME Inv, NEW i \in Instances,
         TakeLease(i) \/ TakeReceipt(i) \/ ClearTakeover(i)
  PROVE  OwnerEffect(i)
<1>0. TypeOK /\ db[i] \in Databases /\ record \in Records
  BY DEF Inv, TypeOK
<1>e. /\ UNCHANGED ask => AsksKept
      /\ UNCHANGED <<ask, call, stray>> => NewCallsServed
  BY DEF AsksKept, NewCallsServed
<1>1. CASE TakeLease(i)
  BY <1>0, <1>1, <1>e, GotoEffect
  DEF TakeLease, At, TypeOK, Databases, OwnerEffect, OthersStay, TakeoverPcs
<1>2. CASE TakeReceipt(i)
  <2>1. /\ db'[i].lease = db[i].lease /\ db'[i].journal = db[i].journal
        /\ \A j \in Instances \ {i} : db'[j] = db[j]
    BY <1>0, <1>2 DEF TakeReceipt, TypeOK, Databases
  <2>2. /\ AsksKept
        /\ \A r \in Requests : UNCHANGED <<ask[r].posed, ask[r].released>>
    BY <1>0, <1>2 DEF TakeReceipt, AsksKept, TypeOK, Asks
  <2>3. NewCallsServed
    BY <1>2 DEF TakeReceipt, NewCallsServed
  <2> QED BY <1>0, <1>2, <2>1, <2>2, <2>3, GotoEffect
        DEF TakeReceipt, At, OwnerEffect, OthersStay, TakeoverPcs
<1>3. CASE ClearTakeover(i)
  <2>1. /\ record'.gen = record.gen /\ record'.owner = record.owner
        /\ record'.pending = NoPending
    BY <1>0, <1>3 DEF ClearTakeover, Records
  <2>2. NewCallsServed
    BY <1>0, <1>3 DEF ClearTakeover, NewCallsServed, TypeOK
  <2> QED BY <1>0, <1>3, <1>e, <2>1, <2>2, ReturnEffect
        DEF ClearTakeover, At, OwnerEffect, OthersStay, TakeoverPcs
<1> QED
  BY <1>1, <1>2, <1>3

\* A coroutine that is about to call the owner calls another instance.
LEMMA PreparedEffect ==
  ASSUME Inv, NEW i \in Instances, NEW r \in Requests, Requester[r] = i,
         RequestTakeover(i, r) \/ RetryTakeover(i, r)
  PROVE  QuietEffect
<1>0. TypeOK /\ ask[r] \in Asks
  BY DEF Inv, TypeOK
<1>1. CASE RequestTakeover(i, r)
  <2>1. ask'[r] = [ask[r] EXCEPT !.posed = TRUE, !.gen = record.gen,
                                 !.owner = record.owner]
    BY <1>0, <1>1 DEF RequestTakeover, TypeOK
  <2>2. /\ ask'[r].posed /\ ask'[r].gen = record.gen
        /\ ask'[r].owner = record.owner /\ ask'[r].released = ask[r].released
    BY <1>0, <2>1 DEF Asks
  <2>3. \A q \in Requests \ {r} : ask'[q] = ask[q] /\ call'[q] = call[q]
    BY <1>0, <1>1 DEF RequestTakeover, TypeOK
  <2>4. call'[r] = "rpc" => ask'[r].owner # Requester[r]
    BY <1>0, <1>1, <2>2 DEF RequestTakeover, Prepared, TypeOK
  <2>5. NewCallsServed
    BY <1>1, <2>2, <2>3, <2>4 DEF RequestTakeover, NewCallsServed
  <2>6. AsksKept
    BY <1>1, <2>2, <2>3 DEF RequestTakeover, AsksKept
  <2>7. UNCHANGED <<config, auth, record, lock, db, proc>>
    BY <1>1 DEF RequestTakeover
  <2> QED BY <2>2, <2>3, <2>5, <2>6, <2>7 DEF QuietEffect
<1>2. CASE RetryTakeover(i, r)
  <2>1. call' = [call EXCEPT ![r] = Prepared(i)]
    BY <1>2 DEF RetryTakeover
  <2>2. Prepared(i) = "rpc" => ask[r].owner # i
    <3>1. ReservedFor(i, r, Expected(r)) => record.owner \in {NoInst, i}
      BY ReservedIsFree
    <3>2. Completed(i, r) => record.owner = i
      BY DEF Completed
    <3>3. Expected(r) = Seen => ask[r].owner = record.owner
      BY DEF Expected, Seen
    <3> QED BY <1>2, <3>1, <3>2, <3>3 DEF RetryTakeover, CanPrepare, Prepared
  <2>3. ask[r].posed
    BY <1>2 DEF RetryTakeover
  <2>4. NewCallsServed
    BY <1>0, <1>2, <2>1, <2>2, <2>3 DEF RetryTakeover, NewCallsServed, TypeOK
  <2>5. AsksKept
    BY <1>2 DEF RetryTakeover, AsksKept
  <2>6. UNCHANGED <<config, auth, record, lock, db, ask, proc>>
    BY <1>2 DEF RetryTakeover
  <2> QED BY <2>4, <2>5, <2>6 DEF QuietEffect
<1> QED
  BY <1>1, <1>2

LEMMA CallEffect ==
  ASSUME Inv, NEW i \in Instances, NEW r \in Requests,
         \/ Unreachable(i, r) \/ FinishTakeover(i, r) \/ LoseCall(r)
         \/ Claim(i, r) /\ ~CanClaim(i, r)
         \/ (ServeRelease(i, r) \/ ServeStray(i, r)) /\ ~CanServe(i, r)
  PROVE  QuietEffect
<1>0. TypeOK /\ ask[r] \in Asks
  BY DEF Inv, TypeOK
<1>1. /\ UNCHANGED <<config, auth, record, lock, db, proc>>
      /\ \A q \in Requests : call'[q] = "rpc" => call[q] = "rpc"
      /\ \A q \in stray' : q \in stray \/ (q = r /\ call[r] = "rpc")
  BY <1>0 DEF Unreachable, FinishTakeover, LoseCall, Claim, ServeRelease,
    ServeStray, StartRelease, TypeOK
<1>2. \A q \in Requests :
        /\ ask'[q].posed = ask[q].posed /\ ask'[q].gen = ask[q].gen
        /\ ask'[q].owner = ask[q].owner /\ ask'[q].released = ask[q].released
  <2>1. CASE FinishTakeover(i, r)
    BY <1>0, <2>1 DEF FinishTakeover, TypeOK, Asks
  <2>2. CASE ~FinishTakeover(i, r)
    <3>1. UNCHANGED ask
      BY <2>2 DEF Unreachable, LoseCall, Claim, ServeRelease, ServeStray,
        StartRelease
    <3> QED BY <3>1
  <2> QED BY <2>1, <2>2
<1>3. AsksKept /\ NewCallsServed
  BY <1>1, <1>2 DEF AsksKept, NewCallsServed
<1> QED
  BY <1>1, <1>2, <1>3 DEF QuietEffect

\* Steps of one instance's start that write nothing but its own journal.
LEMMA PauseEffect ==
  ASSUME Inv, NEW i \in Instances,
         \/ \E op \in NextOp(i) :
              \/ RejectRecovery(i, op)
              \/ RecoverRelease(i, op) /\ UNCHANGED lock
         \/ EndRecovery(i) \/ SkipReconcile(i) \/ Restart(i) \/ Crash(i)
  PROVE  QuietEffect
<1>0. /\ TypeOK /\ db[i] \in Databases /\ proc[i] \in Procs
      /\ NoInst \notin Instances
  BY InstancesAssumption DEF Inv, TypeOK
<1>e. UNCHANGED <<ask, call, stray>> => AsksKept /\ NewCallsServed
  BY DEF AsksKept, NewCallsServed
<1>1. CASE \E op \in NextOp(i) :
             RejectRecovery(i, op) \/ (RecoverRelease(i, op) /\ UNCHANGED lock)
  <2>1. PICK op \in NextOp(i) :
             RejectRecovery(i, op) \/ (RecoverRelease(i, op) /\ UNCHANGED lock)
    BY <1>1
  <2>2. ~StartRelease(i, op.req, "recover", op.id) \/ lock' # lock
    BY <1>0 DEF StartRelease, CanServe
  <2>3. /\ UNCHANGED <<config, auth, record, lock, ask, call, stray>>
        /\ \/ db' = [db EXCEPT ![i].journal = @ \ {op}, ![i].status = "conflict"]
           \/ db' = [db EXCEPT ![i].status = "conflict"]
        /\ proc' = [proc EXCEPT ![i].id = op.id]
        /\ proc[i].pc = "idle"
    BY <2>1, <2>2 DEF RejectRecovery, RecoverRelease, AtRecovery, At
  <2>4. \A j \in Instances :
          /\ db'[j].lease = db[j].lease /\ db'[j].backup = db[j].backup
          /\ db'[j].required = db[j].required
          /\ db'[j].journal \subseteq db[j].journal /\ db'[j].active = db[j].active
          /\ db'[j] = db[j] \/ (j = i /\ db'[j].status = "conflict")
    BY <1>0, <2>3 DEF TypeOK, Databases
  <2>5. /\ proc'[i].pc = "idle" /\ proc'[i].phase = proc[i].phase
        /\ \A j \in Instances \ {i} : proc'[j] = proc[j]
    BY <1>0, <2>3 DEF TypeOK, Procs
  <2> QED BY <1>e, <2>3, <2>4, <2>5 DEF QuietEffect
<1>2. CASE EndRecovery(i) \/ Restart(i)
  <2>1. \E phase \in {"recover", "reconcile"} :
          proc' = [proc EXCEPT ![i] = [IdleProc EXCEPT !.phase = phase]]
    BY <1>2 DEF EndRecovery, Restart
  <2>2. \A j \in Instances :
          /\ proc'[j] = proc[j] \/ proc'[j].pc = "idle"
          /\ \/ proc'[j] = proc[j] \/ proc[j].pc = "idle"
             \/ proc[j].phase = "down"
          /\ proc'[j] = proc[j] \/ proc'[j].phase # "down"
    BY <1>0, <1>2, <2>1 DEF TypeOK, IdleProc, EndRecovery, Restart, AtRecovery
  <2> QED BY <1>2, <1>e, <2>2 DEF EndRecovery, Restart, QuietEffect
<1>3. CASE SkipReconcile(i)
  <2>1. /\ proc[i].pc = "idle" /\ proc'[i].pc = "idle" /\ proc'[i].phase = "ready"
        /\ \A j \in Instances \ {i} : proc'[j] = proc[j]
    BY <1>0, <1>3 DEF SkipReconcile, AtReconcile, TypeOK, IdleProc
  <2>2. db' \in {db, [db EXCEPT ![i].status = "conflict"]}
    BY <1>3 DEF SkipReconcile
  <2>3. \A j \in Instances :
          /\ db'[j].lease = db[j].lease /\ db'[j].backup = db[j].backup
          /\ db'[j].required = db[j].required
          /\ db'[j].journal = db[j].journal /\ db'[j].active = db[j].active
          /\ db'[j] = db[j] \/ (j = i /\ db'[j].status = "conflict")
    BY <1>0, <2>2 DEF TypeOK, Databases
  <2> QED BY <1>3, <1>e, <2>1, <2>3 DEF SkipReconcile, QuietEffect
<1>4. CASE Crash(i)
  <2>1. proc'[i] = [IdleProc EXCEPT !.phase = "down"]
        /\ \A j \in Instances \ {i} : proc'[j] = proc[j]
    BY <1>0, <1>4 DEF Crash, TypeOK
  <2>2. proc'[i].pc = "idle"
    BY <2>1 DEF IdleProc
  <2>3. \A j \in Instances : proc'[j].pc # "idle" => lock' = lock
    BY <1>0, <1>4, <2>1, <2>2 DEF Inv, LockHeld, Crash
  <2>4. AsksKept /\ NewCallsServed
    BY <1>0, <1>4 DEF Crash, AsksKept, NewCallsServed, TypeOK
  <2>5. \A j \in Instances : proc'[j] = proc[j] \/ Crash(j)
    BY <1>4, <2>1
  <2>6. UNCHANGED <<config, auth, record, db, ask, outside>>
    BY <1>4 DEF Crash
  <2> QED BY <2>1, <2>2, <2>3, <2>4, <2>5, <2>6 DEF QuietEffect
<1> QED
  BY <1>1, <1>2, <1>3, <1>4

LEMMA ClientEffect ==
  ASSUME Inv, (\E v \in Logins : Login(v)) \/ Refresh \/ EditConfig
  PROVE  QuietEffect
<1>0. auth \in AuthFiles
  BY DEF Inv, TypeOK
<1>1. ASSUME NEW v \in Logins, Login(v)
      PROVE  auth'.val # ManagedKey /\ outside' # outside
  <2>1. auth'.val = v /\ outside'.login = v /\ outside.login # v
    BY <1>0, <1>1 DEF Login, AuthFiles
  <2> QED BY <2>1, LoginsAssumption
<1>2. \/ auth'.val = auth.val
      \/ auth'.val # ManagedKey /\ outside' # outside
  BY <1>0, <1>1 DEF Refresh, EditConfig, AuthFiles
<1>3. /\ UNCHANGED <<record, lock, db, ask, proc, call, stray>>
      /\ config' \in {config, Edited}
  BY DEF Login, Refresh, EditConfig
<1>4. AsksKept /\ NewCallsServed
  BY <1>3 DEF AsksKept, NewCallsServed
<1>5. config' = config \/ EditConfig
  BY DEF Login, Refresh
<1>6. outside' = outside => auth'.val = auth.val
  BY <1>0, <1>1 DEF Refresh, EditConfig, AuthFiles
<1> QED
  BY <1>2, <1>3, <1>4, <1>5, <1>6 DEF QuietEffect
-----------------------------------------------------------------------------
(* auth.json and its backup.                                               *)

\* Without an owner there is nobody the managed key could belong to.
LEMMA OwnedWhileManaged ==
  ASSUME Inv, auth.val = ManagedKey PROVE record.owner \in Instances
BY DEF Inv, NativeLoginRecoverable

\* The write steps at which BackupOrder asks for something.
WatchedPcs == {"lease", "journal", "start", "backup", "require", "config",
               "auth", "active", "finish", "drop", "undrop", "refinish", "undo",
               "reserve"}

\* A step that writes neither the key nor a backup, and enters no watched pc.
SecretsKept ==
  /\ auth'.val = auth.val \/ auth'.val # ManagedKey
  /\ \A i \in Instances : db'[i].backup = db[i].backup
  /\ auth.val # ManagedKey
       \/ (record'.gen = record.gen /\ record'.owner = record.owner)
  /\ \A i \in Instances :
       \/ proc'[i] = proc[i] /\ record'.gen = record.gen
       \/ proc'[i].pc \notin WatchedPcs

LEMMA SecretsAreSafe ==
  ASSUME Inv, SecretsKept PROVE NativeLoginRecoverable' /\ BackupFirst'
<1> USE DEF Inv, SecretsKept
<1>1. NativeLoginRecoverable'
  BY DEF NativeLoginRecoverable, HasBackup
<1>2. ASSUME NEW i \in Instances PROVE BackupOrder(i)'
  <2>1. CASE proc'[i] = proc[i] /\ record'.gen = record.gen
    BY <2>1 DEF BackupFirst, BackupOrder, Managed, Recovering
  <2>2. CASE proc'[i].pc \notin WatchedPcs
    BY <2>2 DEF BackupOrder, WatchedPcs
  <2> QED BY <2>1, <2>2
<1> QED
  BY <1>1, <1>2 DEF BackupFirst

\* What a step of one instance has to show.
LEMMA OneInstanceOrder ==
  ASSUME Inv, NEW i \in Instances, OwnerEffect(i), BackupOrder(i)'
  PROVE  BackupFirst'
<1>1. \A j \in Instances \ {i} : proc[j].pc = "idle" /\ proc'[j] = proc[j]
  BY InstancesAssumption
  DEF Inv, LockHeld, OwnerEffect, OthersStay, WritePcs, TakeoverPcs
<1>2. \A j \in Instances \ {i} : BackupOrder(j)'
  BY <1>1 DEF BackupOrder
<1> QED
  BY <1>2 DEF BackupFirst

LEMMA WriteSecrets ==
  ASSUME Inv, NEW i \in Instances, WriteStep(i), OwnerEffect(i), TypeOK'
  PROVE  NativeLoginRecoverable' /\ BackupFirst'
<1>0. /\ TypeOK /\ db[i] \in Databases /\ db[i].backup \in Backups
      /\ record \in Records /\ record.gen \in Nat /\ proc[i] \in Procs
      /\ auth \in AuthFiles
  BY DEF Inv, TypeOK, Databases, Records
<1>1. BackupOrder(i) /\ NativeLoginRecoverable
  BY DEF Inv, BackupFirst
<1>2. record.owner = i /\ record.gen # 0
      /\ record'.gen = record.gen /\ record'.owner = record.owner
  BY DEF Inv, HolderOwns, OwnerEffect
<1>3. \A j \in Instances \ {i} : db'[j] = db[j]
  BY DEF OwnerEffect, OthersStay
<1>s. SUFFICES NativeLoginRecoverable' /\ BackupOrder(i)'
  BY OneInstanceOrder
\* Most writes touch neither auth.json nor the backup.
<1>k. ASSUME auth' = auth, db'[i].backup = db[i].backup
      PROVE  NativeLoginRecoverable'
  BY <1>1, <1>2, <1>3, <1>k DEF NativeLoginRecoverable, HasBackup
<1>g. ASSUME NEW pc, Goto(i, pc)
      PROVE  /\ proc'[i].pc = pc /\ proc'[i].mode = proc[i].mode
             /\ proc'[i].kind = proc[i].kind /\ proc'[i].made = proc[i].made
  BY <1>0, <1>g, GotoEffect
<1>e. ASSUME NEW s, Close(i, s) \/ Abandon(i, s)
      PROVE  proc'[i].pc = "idle" /\ db'[i].backup = db[i].backup
  BY <1>0, <1>e, EndEffect
<1> USE DEF BackupOrder, Managed, Recovering, At
<1>4. CASE ClaimLease(i)
  <2>1. db'[i].backup = db[i].backup /\ auth' = auth
    BY <1>0, <1>4 DEF ClaimLease, TypeOK, Databases
  <2> QED BY <1>1, <1>4, <1>g, <1>k, <2>1 DEF ClaimLease
<1>5. CASE Journal(i)
  <2>1. /\ db'[i].backup = db[i].backup /\ auth' = auth
        /\ \/ proc'[i].pc = "start" /\ proc'[i].made = proc[i].made
           \/ proc'[i].pc = "idle"
    BY <1>0, <1>5, <1>e DEF Journal, TypeOK, Databases, Procs
  <2> QED BY <1>1, <1>5, <1>k, <2>1 DEF Journal
<1>6. CASE StartWrite(i)
  BY <1>1, <1>6, <1>g, <1>k DEF StartWrite
<1>7. CASE Backup(i)
  <2>1. CASE \E s \in {db[i].status, "conflict"} : Close(i, s)
    BY <1>7, <1>e, <1>k, <2>1 DEF Backup
  <2>2. CASE db[i].backup.gen = record.gen
               /\ \A s \in {db[i].status, "conflict"} : ~Close(i, s)
    <3>1. /\ \E pc \in {"auth", "config"} : Goto(i, pc)
          /\ db'[i].backup = db[i].backup /\ auth' = auth
      BY <1>0, <1>2, <1>7, <2>2 DEF Backup, HasBackup, TypeOK, Databases
    <3> QED BY <1>1, <1>2, <1>7, <1>g, <1>k, <2>2, <3>1 DEF Backup
  <2>3. CASE db[i].backup.gen # record.gen
               /\ \A s \in {db[i].status, "conflict"} : ~Close(i, s)
    <3>1. /\ ~HasBackup(i) /\ auth' = auth
          /\ db'[i].backup = [val |-> auth.val, gen |-> record.gen]
          /\ proc'[i].pc = "require" /\ proc'[i].made
      BY <1>0, <1>7, <2>3 DEF Backup, TypeOK, Databases, Procs
    <3>2. auth.val # ManagedKey
      BY <1>1, <1>2, <3>1 DEF NativeLoginRecoverable, HasBackup
    <3>3. auth.val \in Logins
      BY <1>0, <3>2 DEF AuthFiles
    <3>4. NativeLoginRecoverable'
      BY <1>1, <1>3, <3>1, <3>2, <3>3 DEF NativeLoginRecoverable, HasBackup
    <3> QED BY <1>2, <3>1, <3>2, <3>4
  <2> QED BY <2>1, <2>2, <2>3
<1>8. CASE RequireBackup(i)
  <2>1. db'[i].backup = db[i].backup /\ auth' = auth
    BY <1>0, <1>8 DEF RequireBackup, TypeOK, Databases
  <2> QED BY <1>1, <1>2, <1>8, <1>g, <1>k, <2>1 DEF RequireBackup
<1>9. CASE WriteConfig(i)
  <2>1. CASE \E s \in {"conflict"} : Close(i, s)
    BY <1>9, <1>e, <1>k, <2>1 DEF WriteConfig
  <2>2. CASE ~Close(i, "conflict")
    <3>1. UNCHANGED <<auth, db>>
      BY <1>9, <2>2 DEF WriteConfig
    <3>2. \/ config = proc[i].cfg
               /\ Goto(i, IF Recovering(i) /\ Managed(i) THEN "backup" ELSE "auth")
          \/ proc[i].made /\ Goto(i, "undo")
      BY <1>9, <2>2 DEF WriteConfig
    <3> QED BY <1>1, <1>2, <1>9, <1>g, <1>k, <3>1, <3>2 DEF WriteConfig
  <2> QED BY <2>1, <2>2
<1>10. CASE UndoBackup(i)
  <2>1. db'[i].backup = NoBackup /\ auth' = auth /\ proc'[i].pc = "unrequire"
    BY <1>0, <1>10, <1>g DEF UndoBackup, TypeOK, Databases
  <2>2. NativeLoginRecoverable'
    BY <1>1, <1>3, <1>10, <2>1
    DEF UndoBackup, NativeLoginRecoverable, HasBackup, NoBackup
  <2> QED BY <2>1, <2>2
<1>11. CASE UndoRequire(i)
  <2>1. db'[i].backup = db[i].backup /\ auth' = auth
    BY <1>0, <1>11 DEF UndoRequire, TypeOK, Databases
  <2> QED BY <1>11, <1>g, <1>k, <2>1 DEF UndoRequire
<1>12. CASE FailWrite(i)
  BY <1>12, <1>e, <1>k DEF FailWrite
<1>13. CASE WriteAuth(i)
  <2>1. CASE \E s \in {"conflict", "unavailable"} : Close(i, s) \/ Abandon(i, s)
    <3>1. auth' = auth
      BY <1>13, <1>e, <2>1, <1>g DEF WriteAuth
    <3> QED BY <1>e, <1>k, <2>1, <3>1
  <2>2. CASE /\ \E pc \in {"active", "finish"} : Goto(i, pc) /\ UNCHANGED db
             /\ \/ auth' = auth /\ Applied(i, proc[i].kind)
                \/ auth' = [auth EXCEPT !.val = WantAuth(i, proc[i].kind)]
    <3>1. proc'[i].pc \in {"active", "finish"} /\ proc'[i].kind = proc[i].kind
      BY <1>g, <2>2
    <3>2. CASE Managed(i)
      <4>1. db[i].backup.gen = record.gen
        BY <1>1, <1>13, <3>2 DEF WriteAuth
      <4> QED BY <1>1, <1>2, <1>3, <2>2, <3>1, <3>2, <4>1
            DEF NativeLoginRecoverable, HasBackup
    <3>3. CASE ~Managed(i)
      <4>1. auth'.val # ManagedKey
        <5>1. HasBackup(i) => db[i].backup.val \in Logins
          BY <1>1 DEF NativeLoginRecoverable
        <5>2. ~HasBackup(i) => auth.val # ManagedKey
          BY <1>1, <1>2 DEF NativeLoginRecoverable, HasBackup
        <5>3. auth'.val \in {auth.val, WantAuth(i, proc[i].kind)}
          BY <1>0, <2>2 DEF AuthFiles
        <5>4. HasBackup(i) => auth'.val = db[i].backup.val
          <6>1. WantAuth(i, proc[i].kind) = db[i].backup.val
                  \/ ~HasBackup(i)
            BY <3>3 DEF WantAuth
          <6>2. \/ auth' = auth /\ Applied(i, proc[i].kind)
                \/ auth'.val = WantAuth(i, proc[i].kind)
            BY <1>0, <2>2 DEF AuthFiles
          <6> QED BY <3>3, <6>1, <6>2 DEF Applied
        <5>5. ~HasBackup(i) => WantAuth(i, proc[i].kind) = auth.val
          BY <3>3 DEF WantAuth
        <5> QED BY <5>1, <5>2, <5>3, <5>4, <5>5, LoginsAssumption
      <4> QED BY <1>1, <2>2, <3>1, <3>3, <4>1
            DEF NativeLoginRecoverable, HasBackup
    <3> QED BY <3>2, <3>3
  <2> QED BY <1>13, <2>1, <2>2 DEF WriteAuth
<1>14. CASE FinishWrite(i)
  BY <1>1, <1>14, <1>g, <1>k DEF FinishWrite
<1>15. CASE DropBackup(i)
  <2>1. /\ db'[i].backup = NoBackup /\ auth' = auth
        /\ proc'[i].pc = "undrop" /\ proc'[i].kind = proc[i].kind
    BY <1>0, <1>15, <1>g DEF DropBackup, TypeOK, Databases
  <2>2. auth.val # ManagedKey
    BY <1>1, <1>15 DEF DropBackup
  <2>3. NativeLoginRecoverable'
    BY <1>1, <1>3, <2>1, <2>2 DEF NativeLoginRecoverable, HasBackup, NoBackup
  <2> QED BY <1>1, <1>15, <2>1, <2>2, <2>3 DEF DropBackup
<1>16. CASE DropRequire(i)
  <2>1. db'[i].backup = db[i].backup /\ auth' = auth
    BY <1>0, <1>16 DEF DropRequire, TypeOK, Databases
  <2> QED BY <1>1, <1>16, <1>g, <1>k, <2>1 DEF DropRequire
<1>17. CASE SetActive(i)
  <2>1. db'[i].backup = db[i].backup /\ auth' = auth
    BY <1>0, <1>17 DEF SetActive, TypeOK, Databases
  <2> QED BY <1>1, <1>17, <1>g, <1>k, <2>1 DEF SetActive
<1>18. CASE CompleteWrite(i)
  BY <1>18, <1>e, <1>k DEF CompleteWrite
<1> QED
  BY <1>4, <1>5, <1>6, <1>7, <1>8, <1>9, <1>10, <1>11, <1>12, <1>13, <1>14,
     <1>15, <1>16, <1>17, <1>18 DEF WriteStep

\* A release restores the backup before it hands over, and drops it after.
LEMMA ReleaseSecrets ==
  ASSUME Inv, NEW i \in Instances, ReleaseStep(i), TypeOK'
  PROVE  /\ NativeLoginRecoverable' /\ BackupFirst'
         /\ auth' = auth \/ UNCHANGED db[i].backup
<1> DEFINE r == proc[i].req
<1>0. /\ TypeOK /\ db[i] \in Databases /\ record \in Records
      /\ record.gen \in Nat /\ auth \in AuthFiles /\ ask[r].gen \in Int
  <2>1. proc[i].pc \in ReleasePcs
    BY DEF ReleaseStep, ReleasePcs, JournalRelease, PendRelease, RestoreConfig,
      RestoreAuth, Reserve, Receipt, DropLease, DropReleasedBackup,
      DropReleasedRequire, FinishRelease, At
  <2>2. r \in Requests
    BY <2>1 DEF Inv, ReleaseServes, Serves
  <2> QED BY <2>2 DEF Inv, TypeOK, Records, Asks
<1>1. /\ \A j \in Instances \ {i} : proc[j].pc = "idle" /\ proc'[j] = proc[j]
      /\ \A j \in Instances \ {i} : db'[j] = db[j]
      /\ proc[i].pc \in EarlyPcs => record.owner = i /\ record.gen # 0
      /\ proc[i].pc \in LatePcs => ask[r].gen < record.gen
  <2>1. OthersStay(i) /\ proc[i].pc \in ReleasePcs
    <3>1. CASE Reserve(i)
      BY <1>0, <3>1, GotoEffect DEF Reserve, At, ReleasePcs, OthersStay
    <3>2. CASE ~Reserve(i)
      BY <3>2, ReleaseStepEffect DEF ReleaseEffect
    <3> QED BY <3>1, <3>2
  <2> QED BY <2>1, InstancesAssumption
        DEF Inv, LockHeld, HolderOwns, ReleaseServes, OthersStay, ReleasePcs
<1>g. ASSUME NEW pc, Goto(i, pc) PROVE proc'[i].pc = pc
  BY <1>0, <1>g, GotoEffect
\* The writes that concern neither.
<1>k. ASSUME auth' = auth, db'[i].backup = db[i].backup,
             proc'[i].pc \notin WatchedPcs,
             auth.val # ManagedKey
               \/ (record'.gen = record.gen /\ record'.owner = record.owner)
      PROVE  NativeLoginRecoverable' /\ BackupFirst'
  <2>1. SecretsKept
    BY <1>1, <1>k DEF SecretsKept, WatchedPcs
  <2> QED BY <2>1, SecretsAreSafe
<1> USE DEF At, WatchedPcs
<1>2. CASE \/ JournalRelease(i) \/ PendRelease(i) \/ RestoreConfig(i) \/ Receipt(i)
          \/ DropLease(i) \/ DropReleasedRequire(i) \/ FinishRelease(i)
  <2>1. auth' = auth /\ record'.gen = record.gen /\ record'.owner = record.owner
    BY <1>0, <1>2 DEF JournalRelease, PendRelease, RestoreConfig, Receipt,
      DropLease, DropReleasedRequire, FinishRelease, Records
  <2>2. db'[i].backup = db[i].backup
    BY <1>0, <1>2 DEF JournalRelease, PendRelease, RestoreConfig, Receipt,
      DropLease, DropReleasedRequire, FinishRelease, TypeOK, Databases
  <2>3. proc'[i].pc \in ReleasePcs \ {"reserve"} \/ proc'[i].pc = "idle"
    BY <1>0, <1>2, <1>g, ReturnEffect DEF JournalRelease, PendRelease,
      RestoreConfig, Receipt, DropLease, DropReleasedRequire, FinishRelease,
      ReleasePcs
  <2> QED BY <1>k, <2>1, <2>2, <2>3 DEF ReleasePcs
<1>3. CASE RestoreAuth(i)
  <2>1. CASE ~CanRestoreAuth(i)
    <3>1. auth' = auth /\ record' = record /\ proc'[i].pc = "idle"
      BY <1>0, <1>3, <2>1, ReturnEffect DEF RestoreAuth
    <3>2. db'[i].backup = db[i].backup
      BY <1>0, <1>3, <2>1 DEF RestoreAuth, TypeOK, Databases
    <3> QED BY <1>k, <3>1, <3>2
  <2>2. CASE CanRestoreAuth(i)
    <3>1. /\ record' = record /\ db' = db /\ proc'[i].pc = "reserve"
          /\ HasBackup(i) => auth'.val = db[i].backup.val
          /\ ~HasBackup(i) => auth' = auth
      BY <1>0, <1>3, <1>g, <2>2 DEF RestoreAuth, AuthFiles
    <3>2. record.owner = i /\ record.gen # 0
      BY <1>1, <1>3 DEF RestoreAuth, EarlyPcs
    <3>3. auth'.val # ManagedKey
      BY <3>1, <3>2, LoginsAssumption DEF Inv, NativeLoginRecoverable, HasBackup
    <3>4. NativeLoginRecoverable'
      BY <3>1, <3>3 DEF Inv, NativeLoginRecoverable, HasBackup
    <3>5. BackupFirst'
      BY <1>1, <3>1, <3>3 DEF BackupFirst, BackupOrder, Managed, Recovering
    <3> QED BY <3>1, <3>4, <3>5
  <2> QED BY <2>1, <2>2
<1>4. CASE Reserve(i)
  <2>1. auth' = auth /\ db' = db /\ proc'[i].pc = "receipt"
    BY <1>4, <1>g DEF Reserve
  <2>2. auth.val # ManagedKey
    BY <1>4 DEF Reserve, Inv, BackupFirst, BackupOrder
  <2> QED BY <1>k, <2>1, <2>2
<1>5. CASE DropReleasedBackup(i)
  <2>1. /\ auth' = auth /\ record' = record
        /\ proc'[i].pc \in {"runrequire", "rfinish"}
    BY <1>5, <1>g DEF DropReleasedBackup
  <2>2. CASE db'[i].backup = db[i].backup
    BY <1>k, <2>1, <2>2
  <2>3. CASE db'[i].backup # db[i].backup
    <3>1. db[i].backup.gen = ask[r].gen /\ db'[i].backup = NoBackup
      BY <1>0, <1>5, <2>3 DEF DropReleasedBackup, TypeOK, Databases
    <3>2. db[i].backup.gen # record.gen
      BY <1>0, <1>1, <1>5, <3>1
      DEF DropReleasedBackup, LatePcs, ReleasePcs, EarlyPcs
    <3>3. NativeLoginRecoverable'
      BY <1>1, <2>1, <3>1, <3>2
      DEF Inv, NativeLoginRecoverable, HasBackup, NoBackup
    <3>4. BackupFirst'
      BY <1>1, <2>1 DEF BackupFirst, BackupOrder, Managed, Recovering
    <3> QED BY <2>1, <3>3, <3>4
  <2> QED BY <2>2, <2>3
<1> QED
  BY <1>2, <1>3, <1>4, <1>5 DEF ReleaseStep

LEMMA QuietSecrets ==
  ASSUME Inv, QuietEffect PROVE NativeLoginRecoverable' /\ BackupFirst'
<1>1. SecretsKept
  BY DEF QuietEffect, SecretsKept, WatchedPcs
<1> QED
  BY <1>1, SecretsAreSafe

LEMMA TakeoverSecrets ==
  ASSUME Inv, NEW i \in Instances,
         TakeLease(i) \/ TakeReceipt(i) \/ ClearTakeover(i)
  PROVE  NativeLoginRecoverable' /\ BackupFirst'
<1>0. TypeOK /\ db[i] \in Databases /\ record \in Records
  BY DEF Inv, TypeOK
<1>1. OwnerEffect(i)
  BY TakeoverEffect
<1>2. /\ auth' = auth /\ db'[i].backup = db[i].backup
  BY <1>0 DEF TakeLease, TakeReceipt, ClearTakeover, TypeOK, Databases
<1>3. proc'[i].pc \in {"treceipt", "tclear", "idle"}
  BY <1>0, GotoEffect, ReturnEffect DEF TakeLease, TakeReceipt, ClearTakeover
<1>4. \A j \in Instances \ {i} : proc[j].pc = "idle" /\ proc'[j] = proc[j]
  BY <1>1, InstancesAssumption
  DEF Inv, LockHeld, OwnerEffect, OthersStay, WritePcs, TakeoverPcs
<1>5. SecretsKept
  BY <1>1, <1>2, <1>3, <1>4 DEF OwnerEffect, OthersStay, SecretsKept, WatchedPcs
<1> QED
  BY <1>5, SecretsAreSafe

\* A claim, or the start of a release, writes no secret.
LEMMA ClaimSecrets ==
  ASSUME Inv, NEW i \in Instances, NEW r \in Requests, Claim(i, r),
         CanClaim(i, r)
  PROVE  NativeLoginRecoverable' /\ BackupFirst'
<1>0. TypeOK
  BY DEF Inv
<1>1. UNCHANGED <<auth, db>>
  BY DEF Claim
<1>2. \A j \in Instances : proc'[j].pc \notin WatchedPcs
  <2>1. proc' = [proc EXCEPT ![i] =
          [IdleProc EXCEPT !.mode = "takeover", !.pc = "tlease", !.req = r]]
    BY DEF Claim
  <2>2. [IdleProc EXCEPT !.mode = "takeover", !.pc = "tlease",
                         !.req = r].pc = "tlease"
    BY DEF IdleProc
  <2>3. \A j \in Instances : proc[j].pc = "idle"
    BY InstancesAssumption DEF Inv, LockHeld, Claim, CanClaim
  <2> QED BY <1>0, <2>1, <2>2, <2>3 DEF TypeOK, WatchedPcs
<1>3. auth.val # ManagedKey
        \/ (record'.gen = record.gen /\ record'.owner = record.owner)
  <2>1. CASE record.owner = i
    BY <1>0, <2>1 DEF Claim, TypeOK, Records
  <2>2. CASE record.owner # i
    BY <2>2, ReservedIsFree, OwnedWhileManaged, InstancesAssumption DEF CanClaim
  <2> QED BY <2>1, <2>2
<1>4. SecretsKept
  BY <1>1, <1>2, <1>3 DEF SecretsKept
<1> QED
  BY <1>4, SecretsAreSafe

LEMMA StartReleaseSecrets ==
  ASSUME Inv, NEW i \in Instances, NEW r, NEW phase, NEW id,
         StartRelease(i, r, phase, id), UNCHANGED <<auth, record, db>>
  PROVE  NativeLoginRecoverable' /\ BackupFirst'
<1>0. TypeOK
  BY DEF Inv
<1>1. \A j \in Instances : proc[j].pc = "idle"
  BY InstancesAssumption DEF Inv, LockHeld, StartRelease, CanServe
<1>2. ASSUME NEW m, NEW pc \in {"unlease", "rjournal"},
             proc' = [proc EXCEPT ![i] =
               [IdleProc EXCEPT !.phase = phase, !.id = id, !.req = r,
                                !.mode = m, !.pc = pc]]
      PROVE  \A j \in Instances : proc'[j].pc \notin WatchedPcs
  <2>1. [IdleProc EXCEPT !.phase = phase, !.id = id, !.req = r,
                         !.mode = m, !.pc = pc].pc = pc
    BY DEF IdleProc
  <2> QED BY <1>0, <1>1, <1>2, <2>1 DEF TypeOK, WatchedPcs
<1>3. \A j \in Instances : proc'[j].pc \notin WatchedPcs
  BY <1>2 DEF StartRelease
<1>4. SecretsKept
  BY <1>3 DEF SecretsKept
<1> QED
  BY <1>4, SecretsAreSafe

\* An operation begins, or is recovered, without a backup of its own.
LEMMA BeginSecrets ==
  ASSUME Inv, NEW i \in Instances, NEW m \in BOOLEAN, NEW o \in Procs,
         Begin(i, m, o), ~o.made, UNCHANGED auth
  PROVE  NativeLoginRecoverable' /\ BackupFirst'
<1>0. TypeOK /\ db[i] \in Databases
  BY DEF Inv, TypeOK
<1>1. \A j \in Instances : proc[j].pc = "idle"
  BY InstancesAssumption DEF Inv, LockHeld, Begin, CanBegin
<1>2. /\ proc'[i].pc \in {"lease", "journal"} /\ ~proc'[i].made
      /\ \A j \in Instances \ {i} : proc'[j] = proc[j]
  <2>1. PICK pc \in {"lease", "journal"} :
          proc' = [proc EXCEPT ![i] = [o EXCEPT !.pc = pc]]
    BY DEF Begin
  <2>2. [o EXCEPT !.pc = pc].pc = pc /\ ~[o EXCEPT !.pc = pc].made
    BY DEF Procs
  <2> QED BY <1>0, <2>1, <2>2 DEF TypeOK
<1>3. \A j \in Instances : db'[j].backup = db[j].backup
  <2>1. db' = db \/ db' = [db EXCEPT ![i].lease = record.gen]
    BY DEF Begin
  <2> QED BY <1>0, <2>1 DEF TypeOK, Databases
<1>4. auth.val # ManagedKey \/ record' = record
  <2>1. record.gen = 0 => record.owner = NoInst
    BY DEF Inv, Reservation
  <2>2. record.gen = 0 => auth.val # ManagedKey
    BY <2>1, OwnedWhileManaged, InstancesAssumption
  <2>3. record.gen # 0 => record' = record
    BY DEF Begin
  <2> QED BY <2>2, <2>3
<1>5. NativeLoginRecoverable'
  BY <1>3, <1>4 DEF Inv, NativeLoginRecoverable, HasBackup
<1>6. BackupFirst'
  BY <1>1, <1>2 DEF BackupFirst, BackupOrder
<1> QED
  BY <1>5, <1>6

LEMMA RecoverSecrets ==
  ASSUME Inv, NEW i \in Instances, NEW op, RecoverWrite(i, op)
  PROVE  NativeLoginRecoverable' /\ BackupFirst'
<1>0. TypeOK
  BY DEF Inv
<1>1. /\ UNCHANGED <<auth, record, db>>
      /\ \A j \in Instances : proc[j].pc = "idle"
  BY InstancesAssumption DEF Inv, LockHeld, RecoverWrite, CanRecover, CanBegin
<1>2. /\ proc'[i].pc \in {"config", "backup", "auth"} /\ ~proc'[i].made
      /\ proc'[i].mode = "recover"
      /\ proc'[i].pc = "auth" => proc'[i].kind # "managed"
      /\ \A j \in Instances \ {i} : proc'[j] = proc[j]
  <2>1. ASSUME NEW pc,
               proc' = [proc EXCEPT ![i] =
                 [IdleProc EXCEPT
                   !.phase = "recover", !.mode = "recover", !.kind = op.kind,
                   !.preserve = op.preserve,
                   !.cfg = op.cfg, !.auth = op.auth, !.id = op.id, !.pc = pc]]
        PROVE  /\ proc'[i].pc = pc /\ ~proc'[i].made
               /\ proc'[i].mode = "recover" /\ proc'[i].kind = op.kind
               /\ \A j \in Instances \ {i} : proc'[j] = proc[j]
    BY <1>0, <2>1 DEF TypeOK, IdleProc
  <2> DEFINE pc == IF config = op.cfg THEN "config"
                   ELSE IF op.kind = "managed" THEN "backup" ELSE "auth"
  <2>2. /\ proc'[i].pc = pc /\ ~proc'[i].made
        /\ proc'[i].mode = "recover" /\ proc'[i].kind = op.kind
        /\ \A j \in Instances \ {i} : proc'[j] = proc[j]
    BY <2>1 DEF RecoverWrite
  <2> QED BY <2>2
<1>3. NativeLoginRecoverable'
  BY <1>1 DEF Inv, NativeLoginRecoverable, HasBackup
<1>4. BackupFirst'
  BY <1>1, <1>2 DEF BackupFirst, BackupOrder, Managed, Recovering
<1> QED
  BY <1>3, <1>4

-----------------------------------------------------------------------------
(* All the actions of Next, by what they do to the protocol.               *)

LEMMA NextEffect ==
  ASSUME Inv, Next
  PROVE  \/ QuietEffect
         \/ \E i \in Instances :
              \/ WriteStep(i)
              \/ TakeLease(i) \/ TakeReceipt(i) \/ ClearTakeover(i)
              \/ ReleaseStep(i)
              \/ \E r \in Requests : Claim(i, r) /\ CanClaim(i, r)
              \/ \E m \in BOOLEAN, o \in Procs :
                   /\ Begin(i, m, o) /\ ~o.made /\ o.mode # "recover" /\ o.phase # "down"
                   /\ UNCHANGED <<config, auth, ask, call, stray>>
              \/ \E op \in NextOp(i) : RecoverWrite(i, op)
              \/ \E r \in Requests, phase \in Phases \ {"down"}, id \in Nat :
                   /\ StartRelease(i, r, phase, id)
                   /\ Serves(i, r) /\ NewCallsServed
                   /\ UNCHANGED <<config, auth, record, db>>
<1> DEFINE Cases ==
      \/ QuietEffect
      \/ \E i \in Instances :
           \/ WriteStep(i)
           \/ TakeLease(i) \/ TakeReceipt(i) \/ ClearTakeover(i)
           \/ ReleaseStep(i)
           \/ \E r \in Requests : Claim(i, r) /\ CanClaim(i, r)
           \/ \E m \in BOOLEAN, o \in Procs :
                /\ Begin(i, m, o) /\ ~o.made /\ o.mode # "recover" /\ o.phase # "down"
                /\ UNCHANGED <<config, auth, ask, call, stray>>
           \/ \E op \in NextOp(i) : RecoverWrite(i, op)
           \/ \E r \in Requests, phase \in Phases \ {"down"}, id \in Nat :
                /\ StartRelease(i, r, phase, id)
                /\ Serves(i, r) /\ NewCallsServed
                /\ UNCHANGED <<config, auth, record, db>>
<1> SUFFICES Cases
  OBVIOUS
<1>0. TypeOK
  BY DEF Inv
<1>1. CASE Environment
  <2>1. CASE \E i \in Instances : Crash(i)
    BY <2>1, PauseEffect
  <2>2. CASE \E r \in Requests : LoseCall(r)
    <3>1. PICK r \in Requests : LoseCall(r)
      BY <2>2
    <3>2. Requester[r] \in Instances
      BY RequestsAssumption
    <3> QED BY <3>1, <3>2, CallEffect
  <2>3. CASE (\E v \in Logins : Login(v)) \/ Refresh \/ EditConfig
    BY <2>3, ClientEffect
  <2> QED BY <1>1, <2>1, <2>2, <2>3 DEF Environment
<1>2. ASSUME NEW i \in Instances, NEW k \in SwitchKinds, Switch(i, k)
      PROVE  Cases
  <2>1. [IdleProc EXCEPT !.mode = "apply", !.kind = k] \in Procs
    BY IdleType, BoundsAssumption DEF Procs, Modes
  <2>2. /\ ~[IdleProc EXCEPT !.mode = "apply", !.kind = k].made
        /\ [IdleProc EXCEPT !.mode = "apply", !.kind = k].mode # "recover"
        /\ [IdleProc EXCEPT !.mode = "apply", !.kind = k].phase # "down"
    BY DEF IdleProc
  <2> QED BY <1>2, <2>1, <2>2 DEF Switch
<1>3. ASSUME NEW i \in Instances, NEW r \in Requests,
             RequestTakeover(i, r) \/ RetryTakeover(i, r)
      PROVE  Cases
  <2>1. Requester[r] = i
    BY <1>3 DEF RequestTakeover, RetryTakeover
  <2> QED BY <1>3, <2>1, PreparedEffect
<1>4. ASSUME NEW i \in Instances, TakeoverStep(i) PROVE Cases
  <2>1. CASE \E r \in Requests : Unreachable(i, r) \/ FinishTakeover(i, r)
    BY <2>1, CallEffect
  <2>2. CASE \E r \in Requests : Claim(i, r)
    BY <2>2, CallEffect
  <2> QED BY <1>4, <2>1, <2>2 DEF TakeoverStep
<1>5. ASSUME NEW i \in Instances, NEW r \in Requests,
             ServeRelease(i, r) \/ ServeStray(i, r)
      PROVE  Cases
  <2>1. CASE ~CanServe(i, r)
    BY <1>5, <2>1, CallEffect
  <2>2. CASE CanServe(i, r)
    <3>1. StartRelease(i, r, "ready", 0)
      BY <1>5, <2>2 DEF ServeRelease, ServeStray
    <3>2. ask[r].posed /\ ask[r].owner # Requester[r] /\ ask[r].owner = i
      BY <1>5 DEF Inv, CallsServed, ServeRelease, ServeStray
    <3>3. Serves(i, r)
      BY <3>2 DEF Serves
    <3>4. NewCallsServed
      BY <1>0, <1>5 DEF ServeRelease, ServeStray, NewCallsServed, TypeOK
    <3>5. UNCHANGED <<config, auth, record, db>> /\ "ready" \in Phases \ {"down"}
      BY <1>5 DEF ServeRelease, ServeStray, Phases
    <3> QED BY <3>1, <3>3, <3>4, <3>5
  <2> QED BY <2>1, <2>2
<1>6. ASSUME NEW i \in Instances, NEW op \in NextOp(i), RecoverRelease(i, op)
      PROVE  Cases
  <2>1. op \in db[i].journal /\ op.op = "release"
    BY <1>6 DEF NextOp, RecoverRelease
  <2>2. op.id \in Nat
    BY <1>0, <2>1 DEF TypeOK, Databases, Ops
  <2>3. Serves(i, op.req)
    BY <2>1 DEF Inv, RowsServed
  <2>4. op.req \in Requests /\ "recover" \in Phases \ {"down"}
    BY <2>3 DEF Serves, Phases
  <2>5. CASE StartRelease(i, op.req, "recover", op.id) /\ UNCHANGED db
    <3>1. UNCHANGED <<config, auth, record, call, stray>>
      BY <1>6 DEF RecoverRelease
    <3>2. NewCallsServed
      BY <3>1 DEF NewCallsServed
    <3> QED BY <2>2, <2>3, <2>4, <2>5, <3>1, <3>2
  <2>6. CASE UNCHANGED lock
    BY <1>6, <2>6, PauseEffect
  <2> QED BY <1>6, <2>5, <2>6 DEF RecoverRelease
<1>7. ASSUME NEW i \in Instances, StartStep(i) PROVE Cases
  <2>1. CASE EndRecovery(i) \/ SkipReconcile(i)
               \/ (\E op \in NextOp(i) : RejectRecovery(i, op))
    BY <2>1, PauseEffect
  <2>2. CASE Reconcile(i)
    <3> DEFINE o == [IdleProc EXCEPT !.phase = "reconcile", !.mode = "reconcile",
                                     !.kind = db[i].active]
    <3>1. o \in Procs
      BY <1>0, IdleType DEF Procs, Phases, Modes, Databases, TypeOK
    <3>2. ~o.made /\ o.mode # "recover" /\ o.phase # "down"
      BY DEF IdleProc
    <3>3. Begin(i, TRUE, o) /\ UNCHANGED <<config, auth, ask, call, stray>>
      BY <2>2 DEF Reconcile
    <3> HIDE DEF o
    <3> QED BY <3>1, <3>2, <3>3
  <2> QED BY <1>7, <2>1, <2>2 DEF StartStep
<1>8. ASSUME NEW i \in Instances, Restart(i) PROVE Cases
  BY <1>8, PauseEffect
<1>9. ASSUME NEW i \in Instances, Daemon(i) PROVE Cases
  BY <1>4, <1>5, <1>6, <1>7, <1>9 DEF Daemon
<1> HIDE DEF Cases
<1> QED
  BY <1>1, <1>2, <1>3, <1>8, <1>9 DEF Next, User, Retry

LEMMA TypeStep == ASSUME Inv, Next PROVE TypeOK'
<1>0. TypeOK /\ ReleaseServes /\ RowsServed
  BY DEF Inv
<1>1. ASSUME NEW i \in Instances, Daemon(i) PROVE TypeOK'
  BY <1>0, <1>1, WriteType, ReleaseType, TakeoverType, ServeType, StartType
  DEF Daemon
<1> QED
  BY <1>0, <1>1, EnvironmentType, TakeoverType, StartType
  DEF Next, User, Retry

-----------------------------------------------------------------------------
(* The inductive invariant.                                                *)

LEMMA InitInv == Init => Inv
<1> SUFFICES ASSUME Init PROVE Inv
  OBVIOUS
<1>1. /\ \A i \in Instances :
           /\ proc[i].pc = "idle" /\ db[i].journal = {} /\ db[i].lease = 0
           /\ db[i].backup.gen = 0
      /\ \A r \in Requests :
           ~ask[r].posed /\ ~ask[r].released /\ call[r] = "idle"
      /\ config.by = NoInst /\ auth.val # ManagedKey /\ stray = {}
      /\ record.gen = 0 /\ record.owner = NoInst /\ record.pending = NoPending
  BY LoginsAssumption DEF Init, IdleProc, NoBackup, Native
<1>2. LockHeld /\ HolderOwns /\ ReleaseServes /\ ConfigIsOut
  BY <1>1 DEF LockHeld, HolderOwns, ReleaseServes, ConfigIsOut, WritePcs,
    ReleasePcs, EarlyPcs, LatePcs, TakeoverPcs
<1>3. CallsServed /\ RowsServed /\ RequestSeen /\ Reservation
  BY <1>1 DEF CallsServed, RowsServed, RequestSeen, Reservation, NoPending
<1>4. ConfigIsOwners /\ LeaseIsOwners /\ NativeLoginRecoverable
  BY <1>1 DEF ConfigIsOwners, LeaseIsOwners, NativeLoginRecoverable, HasBackup
<1>5. BackupFirst
  BY <1>1 DEF BackupFirst, BackupOrder
<1> QED
  BY <1>2, <1>3, <1>4, <1>5, InitTypeOK DEF Inv

LEMMA StutterInv == ASSUME Inv, UNCHANGED vars PROVE Inv'
<1> USE DEF vars
<1>1. TypeOK'
  BY DEF Inv, TypeOK
<1>2. AsksKept /\ NewCallsServed
  BY DEF AsksKept, NewCallsServed
<1>3. QuietEffect
  BY <1>2, InstancesAssumption DEF QuietEffect
<1> QED
  BY <1>1, <1>3, QuietProtocol, QuietSecrets DEF Inv, Protocol

LEMMA NextInv == ASSUME Inv, Next PROVE Inv'
<1>1. TypeOK'
  BY TypeStep
<1> SUFFICES Protocol' /\ NativeLoginRecoverable' /\ BackupFirst'
  BY <1>1 DEF Inv, Protocol
<1>2. CASE QuietEffect
  BY <1>1, <1>2, QuietProtocol, QuietSecrets
<1>3. ASSUME NEW i \in Instances, WriteStep(i)
      PROVE  Protocol' /\ NativeLoginRecoverable' /\ BackupFirst'
  BY <1>1, <1>3, WriteEffect, OwnerProtocol, WriteSecrets
<1>4. ASSUME NEW i \in Instances,
             TakeLease(i) \/ TakeReceipt(i) \/ ClearTakeover(i)
      PROVE  Protocol' /\ NativeLoginRecoverable' /\ BackupFirst'
  BY <1>1, <1>4, TakeoverEffect, OwnerProtocol, TakeoverSecrets
<1>5. ASSUME NEW i \in Instances, ReleaseStep(i)
      PROVE  Protocol' /\ NativeLoginRecoverable' /\ BackupFirst'
  <2>1. Protocol'
    BY <1>1, <1>5, ReserveProtocol, ReleaseStepEffect, ReleaseProtocol
  <2> QED BY <1>1, <1>5, <2>1, ReleaseSecrets
<1>6. ASSUME NEW i \in Instances, NEW r \in Requests, Claim(i, r), CanClaim(i, r)
      PROVE  Protocol' /\ NativeLoginRecoverable' /\ BackupFirst'
  BY <1>1, <1>6, ClaimProtocol, ClaimSecrets
<1>7. ASSUME NEW i \in Instances, NEW m \in BOOLEAN, NEW o \in Procs,
             Begin(i, m, o), ~o.made,
             UNCHANGED <<config, auth, ask, call, stray>>
      PROVE  Protocol' /\ NativeLoginRecoverable' /\ BackupFirst'
  BY <1>1, <1>7, BeginProtocol, BeginSecrets
<1>8. ASSUME NEW i \in Instances, NEW op \in NextOp(i), RecoverWrite(i, op)
      PROVE  Protocol' /\ NativeLoginRecoverable' /\ BackupFirst'
  BY <1>1, <1>8, RecoverProtocol, RecoverSecrets
<1>9. ASSUME NEW i \in Instances, NEW r \in Requests,
             NEW phase \in Phases, NEW id \in Nat,
             StartRelease(i, r, phase, id), Serves(i, r), NewCallsServed,
             UNCHANGED <<config, auth, record, db>>
      PROVE  Protocol' /\ NativeLoginRecoverable' /\ BackupFirst'
  BY <1>1, <1>9, StartReleaseProtocol, StartReleaseSecrets
<1> QED
  BY <1>2, <1>3, <1>4, <1>5, <1>6, <1>7, <1>8, <1>9, NextEffect

(* Inv is an inductive invariant: it holds in every reachable state, of any *)
(* number of instances, requests and logins, with any number of crashes.   *)
THEOREM Invariance == Spec => []Inv
<1>1. ASSUME Inv, [Next]_vars PROVE Inv'
  BY <1>1, NextInv, StutterInv
<1> QED
  BY <1>1, InitInv, PTL DEF Spec

(* Every variable keeps its type (the shape of files, rows and settings).  *)
THEOREM TypeCorrectness == Spec => []TypeOK
<1>1. Inv => TypeOK
  BY DEF Inv
<1> QED
  BY <1>1, Invariance, PTL

(* hsin content in config.toml always belongs to the recorded owner, whoever *)
(* crashed or was asked to leave: a reserved directory is the client's own. *)
THEOREM ConfigurationIsOwners == Spec => []ConfigIsOwners
<1>1. Inv => ConfigIsOwners
  BY DEF Inv
<1> QED
  BY <1>1, Invariance, PTL

(* A lease receipt in a database never runs ahead of the shared record, and *)
(* the receipt for the record's generation is the recorded owner's.        *)
THEOREM LeasesAreOwners == Spec => []LeaseIsOwners
<1>1. Inv => LeaseIsOwners
  BY DEF Inv
<1> QED
  BY <1>1, Invariance, PTL

(* While auth.json holds hsin's key the owner has the native login backed  *)
(* up under its current generation, and no backup is of hsin's own key.    *)
THEOREM LoginsAreRecoverable == Spec => []NativeLoginRecoverable
<1>1. Inv => NativeLoginRecoverable
  BY DEF Inv
<1> QED
  BY <1>1, Invariance, PTL

-----------------------------------------------------------------------------
(* What a step may never do.                                               *)

\* Only four actions replace a file with something other than a user's edit.
LEMMA FilesEffect ==
  ASSUME Inv, Next
  PROVE  \/ \E i \in Instances : proc[i].pc \in {"config", "auth", "rconfig", "rauth"}
         \/ config' \in {config, Edited} /\ (auth'.val = auth.val \/ outside' # outside)
<1>1. CASE QuietEffect
  BY <1>1 DEF QuietEffect
<1>2. ASSUME NEW i \in Instances, WriteStep(i)
      PROVE  WriteConfig(i) \/ WriteAuth(i) \/ UNCHANGED <<config, auth>>
  BY <1>2 DEF WriteStep, ClaimLease, Journal, StartWrite, Backup, RequireBackup,
    UndoBackup, UndoRequire, FailWrite, FinishWrite, DropBackup, DropRequire,
    SetActive, CompleteWrite
<1>3. ASSUME NEW i \in Instances, ReleaseStep(i)
      PROVE  RestoreConfig(i) \/ RestoreAuth(i) \/ UNCHANGED <<config, auth>>
  BY <1>3 DEF ReleaseStep, JournalRelease, PendRelease, Reserve, Receipt,
    DropLease, DropReleasedBackup, DropReleasedRequire, FinishRelease
<1>4. ASSUME NEW i \in Instances,
             TakeLease(i) \/ TakeReceipt(i) \/ ClearTakeover(i)
      PROVE  UNCHANGED <<config, auth>>
  BY <1>4 DEF TakeLease, TakeReceipt, ClearTakeover
<1>5. ASSUME NEW i \in Instances, NEW r \in Requests, Claim(i, r)
      PROVE  UNCHANGED <<config, auth>>
  BY <1>5 DEF Claim
<1>6. ASSUME NEW i \in Instances, NEW op \in NextOp(i), RecoverWrite(i, op)
      PROVE  UNCHANGED <<config, auth>>
  BY <1>6 DEF RecoverWrite
<1> QED
  BY <1>1, <1>2, <1>3, <1>4, <1>5, <1>6, NextEffect
  DEF WriteConfig, WriteAuth, RestoreConfig, RestoreAuth, At

(* No write by a stale owner: hsin content reaches a client file only while *)
(* the instance that holds the directory lock is the recorded owner.       *)
THEOREM WritesAreOwners == Spec => OnlyOwnerWrites
<1> DEFINE Stale ==
      \/ config' \notin {config, Edited}
      \/ auth'.val # auth.val /\ outside' = outside
<1>1. ASSUME Inv, Next, Stale PROVE lock # NoInst /\ record.owner = lock
  <2>1. PICK i \in Instances : proc[i].pc \in {"config", "auth", "rconfig", "rauth"}
    BY <1>1, FilesEffect
  <2> QED BY <1>1, <2>1, InstancesAssumption
        DEF Inv, LockHeld, HolderOwns, WritePcs, EarlyPcs
<1>2. ASSUME Inv, [Next]_vars
      PROVE  [Stale => lock # NoInst /\ record.owner = lock]_vars
  BY <1>1, <1>2
<1> QED
  BY <1>2, Invariance, PTL DEF Spec, OnlyOwnerWrites

\* In the saga, auth.json and the backup never change in one step.
LEMMA WriteKeepsOne ==
  ASSUME Inv, NEW i \in Instances, WriteStep(i)
  PROVE  auth' = auth \/ UNCHANGED db[i].backup
<1>0. TypeOK
  BY DEF Inv
<1>1. CASE WriteAuth(i)
  BY <1>0, <1>1, EndEffect DEF WriteAuth
<1>2. CASE ~WriteAuth(i)
  BY <1>2 DEF WriteStep, ClaimLease, Journal, StartWrite, Backup, RequireBackup,
    WriteConfig, UndoBackup, UndoRequire, FailWrite, FinishWrite, DropBackup,
    DropRequire, SetActive, CompleteWrite
<1> QED
  BY <1>1, <1>2

\* Cleanup of a release never drops the lease the record shows.
LEMMA ReleaseKeepsLease ==
  ASSUME Inv, NEW i \in Instances, ReleaseStep(i), record.owner = i,
         db[i].lease = record.gen, record.gen # 0
  PROVE  db'[i].lease = db[i].lease
<1>0. TypeOK /\ db[i] \in Databases /\ record.gen \in Nat
  BY DEF Inv, TypeOK, Records
<1>1. CASE DropLease(i)
  <2>1. /\ proc[i].mode # "release"
        /\ ask[proc[i].req].gen < record.gen /\ proc[i].req \in Requests
    BY <1>1, InstancesAssumption
    DEF Inv, ReleaseServes, Serves, DropLease, At, LatePcs, EarlyPcs, ReleasePcs
  <2>2. ask[proc[i].req].gen \in Nat
    BY <1>0, <2>1 DEF TypeOK, Asks
  <2>3. ~OwnCleanup(i)
    BY <1>0, <2>1, <2>2 DEF OwnCleanup
  <2> QED BY <1>1, <2>3 DEF DropLease
<1>2. CASE ~DropLease(i)
  BY <1>0, <1>2 DEF ReleaseStep, JournalRelease, PendRelease, RestoreConfig,
    RestoreAuth, Reserve, Receipt, DropReleasedBackup, DropReleasedRequire,
    FinishRelease, TypeOK, Databases
<1> QED
  BY <1>1, <1>2

\* A current lease stays, and its backup while auth.json needs it.
LeaseKept(i) ==
  record.owner = i /\ record.gen # 0 /\ db[i].lease = record.gen =>
    /\ db'[i].lease = record.gen
    /\ db[i].backup.gen = record.gen /\ db'[i].backup = NoBackup =>
         auth.val # ManagedKey

\* A step that keeps either file keeps the backup, by the invariant after it.
LEMMA KeepsNeededBackup ==
  ASSUME Inv, Inv', NEW i \in Instances, record.owner = i, record.gen # 0,
         \/ db'[i].backup = db[i].backup
         \/ auth' = auth /\ record'.owner = record.owner
               /\ record'.gen = record.gen,
         db[i].backup.gen = record.gen, db'[i].backup = NoBackup
  PROVE  auth.val # ManagedKey
<1>1. db'[i].backup.gen = 0
  BY DEF NoBackup
<1> QED
  BY <1>1 DEF Inv, NativeLoginRecoverable

LEMMA LeaseKeptNext ==
  ASSUME Inv, Inv', Next, NEW i \in Instances PROVE LeaseKept(i)
<1> SUFFICES ASSUME record.owner = i, record.gen # 0, db[i].lease = record.gen
             PROVE  /\ db'[i].lease = record.gen
                    /\ db[i].backup.gen = record.gen /\ db'[i].backup = NoBackup =>
                         auth.val # ManagedKey
  BY DEF LeaseKept
<1>0. TypeOK /\ record \in Records
  BY DEF Inv, TypeOK
<1> DEFINE Kept == /\ db'[i].lease = record.gen
                   /\ db[i].backup.gen = record.gen /\ db'[i].backup = NoBackup =>
                        auth.val # ManagedKey
<1>k. ASSUME db'[i].lease = record.gen,
             \/ db'[i].backup = db[i].backup
             \/ auth' = auth /\ record'.owner = record.owner
                   /\ record'.gen = record.gen
      PROVE  Kept
  BY <1>k, KeepsNeededBackup
<1>o. ASSUME db' = db PROVE Kept
  BY <1>k, <1>o
<1>1. ASSUME QuietEffect PROVE Kept
  BY <1>1, <1>k DEF QuietEffect
<1>2. ASSUME NEW j \in Instances, WriteStep(j) PROVE Kept
  BY <1>2, <1>k, WriteEffect, WriteKeepsOne DEF OwnerEffect, OthersStay
<1>3. ASSUME NEW j \in Instances,
             TakeLease(j) \/ TakeReceipt(j) \/ ClearTakeover(j)
      PROVE  Kept
  <2>1. OwnerEffect(j)
    BY <1>3, TakeoverEffect
  <2>2. auth' = auth
    BY <1>3 DEF TakeLease, TakeReceipt, ClearTakeover
  <2> QED BY <1>k, <2>1, <2>2 DEF OwnerEffect, OthersStay
<1>4. ASSUME NEW j \in Instances, ReleaseStep(j) PROVE Kept
  <2>1. CASE Reserve(j)
    BY <1>o, <2>1 DEF Reserve
  <2>2. CASE ~Reserve(j)
    <3>1. ReleaseEffect(j)
      BY <1>4, <2>2, ReleaseStepEffect
    <3>2. db'[i].lease = record.gen
      BY <1>4, <3>1, ReleaseKeepsLease DEF ReleaseEffect, OthersStay
    <3>3. auth' = auth \/ db'[i].backup = db[i].backup
      BY <1>4, <3>1, ReleaseSecrets DEF ReleaseEffect, OthersStay, Inv
    <3> QED BY <1>k, <3>1, <3>2, <3>3 DEF ReleaseEffect
  <2> QED BY <2>1, <2>2
<1>5. ASSUME NEW j \in Instances, NEW r \in Requests, Claim(j, r) PROVE Kept
  BY <1>5, <1>o DEF Claim
<1>6. ASSUME NEW j \in Instances, NEW m, NEW o, Begin(j, m, o) PROVE Kept
  <2>1. db' = [db EXCEPT ![j].lease = record.gen]
    BY <1>6 DEF Begin
  <2>2. db'[i].lease = record.gen /\ db'[i].backup = db[i].backup
    BY <1>0, <2>1 DEF TypeOK, Databases
  <2> QED BY <1>k, <2>2
<1>7. ASSUME NEW j \in Instances, NEW op, RecoverWrite(j, op) PROVE Kept
  BY <1>7, <1>o DEF RecoverWrite
<1>8. ASSUME UNCHANGED <<config, auth, record, db>> PROVE Kept
  BY <1>8, <1>o
<1> HIDE DEF Kept
<1>9. Kept
  <2>1. CASE \E j \in Instances :
               \/ WriteStep(j)
               \/ TakeLease(j) \/ TakeReceipt(j) \/ ClearTakeover(j)
               \/ ReleaseStep(j)
               \/ \E r \in Requests : Claim(j, r)
    BY <1>2, <1>3, <1>4, <1>5, <2>1
  <2>2. CASE \E j \in Instances :
               \/ \E m \in BOOLEAN, o \in Procs : Begin(j, m, o)
               \/ \E op \in NextOp(j) : RecoverWrite(j, op)
    BY <1>6, <1>7, <2>2
  <2>3. CASE \E j \in Instances, r \in Requests, phase \in Phases, id \in Nat :
               UNCHANGED <<config, auth, record, db>>
    BY <1>8, <2>3
  <2>4. CASE QuietEffect
    BY <1>1, <2>4
  <2> QED BY <2>1, <2>2, <2>3, <2>4, NextEffect
<1> QED
  BY <1>9 DEF Kept

(* Only the instance's own change of hands takes its current lease away, and *)
(* never the backup that auth.json still needs: late, lost and repeated    *)
(* release calls clean up nothing but what they released.                  *)
THEOREM LeasesAreKept == Spec => CurrentLeaseIsKept
<1>1. ASSUME Inv, Inv', [Next]_vars
      PROVE  [\A i \in Instances : LeaseKept(i)]_vars
  BY <1>1, LeaseKeptNext
<1>2. ASSUME Inv, Inv', [Next]_vars
      PROVE  [\A i \in Instances :
       record.owner = i /\ record.gen # 0 /\ db[i].lease = record.gen =>
         /\ db'[i].lease = record.gen
         /\ db[i].backup.gen = record.gen /\ db'[i].backup = NoBackup =>
              auth.val # ManagedKey]_vars
  BY <1>1, <1>2 DEF LeaseKept
<1> QED
  BY <1>2, Invariance, PTL DEF Spec, CurrentLeaseIsKept

-----------------------------------------------------------------------------
(* The protocol implements the directory lease.                            *)

\* Whom the record reserves the directory for.
Heir == IF record.owner = NoInst THEN record.pending.by ELSE NoInst

LEMMA LeaseStutter ==
  ASSUME NEW i \in Instances, record'.gen = record.gen,
         record'.owner = record.owner,
         record.owner = NoInst => record'.pending = record.pending,
         \/ config'.by \in {config.by, NoInst}
         \/ config'.by = i /\ record.owner = i
  PROVE  [Lease!Next]_(Lease!leaseVars)
<1>1. Heir' = Heir
  BY DEF Heir
<1>2. CASE config'.by = config.by
  BY <1>1, <1>2 DEF Lease!leaseVars, Heir
<1>3. CASE config'.by = NoInst
  BY <1>1, <1>3 DEF Lease!Next, Lease!Vacate, Heir
<1>4. CASE config'.by = i /\ record.owner = i
  BY <1>1, <1>4 DEF Lease!Next, Lease!Occupy, Heir
<1> QED
  BY <1>2, <1>3, <1>4

\* The first owner of all.
LEMMA LeaseFound ==
  ASSUME NEW i \in Instances, record.gen = 0, record.pending = NoPending,
         record.owner = NoInst, record'.gen = 1, record'.owner = i,
         config' = config
  PROVE  Lease!Next
BY InstancesAssumption DEF Lease!Next, Lease!Found, NoPending

LEMMA LeaseBequeath ==
  ASSUME Inv, NEW i \in Instances, Reserve(i) PROVE Lease!Next
<1> DEFINE r == proc[i].req
<1>1. Serves(i, r) /\ record.owner = i /\ config.by = NoInst
  BY DEF Inv, ReleaseServes, HolderOwns, ConfigIsOut, Reserve, At, EarlyPcs,
    ReleasePcs
<1>2. Requester[r] \in Instances /\ Requester[r] # i
  BY <1>1, RequestsAssumption DEF Serves
<1>3. /\ record'.gen = record.gen + 1 /\ record'.owner = NoInst
      /\ record'.pending.by = Requester[r] /\ config' = config
  BY DEF Reserve, Unclaimed
<1>4. Lease!Bequeath(i, Requester[r])
  BY <1>1, <1>2, <1>3 DEF Lease!Bequeath
<1> QED
  BY <1>2, <1>4 DEF Lease!Next

\* A claim inherits a reserved directory, founds a new one, or renews its own.
LEMMA LeaseInherit ==
  ASSUME Inv, NEW i \in Instances, NEW r \in Requests, Claim(i, r),
         CanClaim(i, r)
  PROVE  [Lease!Next]_(Lease!leaseVars)
<1>0. record.gen \in Nat
  BY DEF Inv, TypeOK, Records
<1>1. /\ record'.gen = record.gen + (IF record.owner = i THEN 0 ELSE 1)
      /\ record'.owner = i /\ config' = config
  BY DEF Claim
<1>2. record.owner \in {NoInst, i}
  BY ReservedIsFree DEF CanClaim
<1>3. CASE record.owner = i
  BY <1>0, <1>1, <1>3, InstancesAssumption, LeaseStutter
<1>4. CASE record.owner = NoInst /\ record.gen = 0
  BY <1>1, <1>4, InstancesAssumption, LeaseFound DEF Inv, Reservation
<1>5. CASE record.owner = NoInst /\ record.gen # 0
  <2>1. ReservedFor(i, r, Expected(r))
    BY <1>5, InstancesAssumption DEF CanClaim, Problem, Inv, Reservation
  <2>2. Lease!Inherit(i)
    BY <1>1, <1>5, <2>1, InstancesAssumption DEF Lease!Inherit, ReservedFor
  <2> QED BY <2>2 DEF Lease!Next
<1> QED
  BY <1>2, <1>3, <1>4, <1>5

LEMMA LeaseBegin ==
  ASSUME Inv, NEW i \in Instances, NEW m, NEW o, Begin(i, m, o),
         UNCHANGED config
  PROVE  [Lease!Next]_(Lease!leaseVars)
<1>1. CASE record.gen = 0
  <2>0. db[i].lease \in Nat
    BY DEF Inv, TypeOK, Databases
  <2>1. db[i].lease = 0
    BY <1>1, <2>0 DEF Inv, LeaseIsOwners
  <2>2. record' = [Unclaimed(db[i].lease + 1, FALSE) EXCEPT !.owner = i]
    BY <1>1 DEF Begin
  <2>3. record'.gen = 0 + 1 /\ record'.owner = i
    BY <2>1, <2>2 DEF Unclaimed
  <2> QED BY <1>1, <2>3, LeaseFound DEF Inv, Reservation
<1>2. CASE record.gen # 0
  BY <1>2, LeaseStutter DEF Begin
<1> QED
  BY <1>1, <1>2

LEMMA LeaseStep ==
  ASSUME Inv, [Next]_vars PROVE [Lease!Next]_(Lease!leaseVars)
<1>1. CASE UNCHANGED vars
  BY <1>1 DEF vars, Lease!leaseVars
<1>2. CASE QuietEffect
  <2>1. config'.by \in {config.by, NoInst} /\ record' = record
    BY <1>2 DEF QuietEffect, Edited
  <2> QED BY <2>1 DEF Lease!Next, Lease!Vacate, Lease!leaseVars
<1>3. ASSUME NEW i \in Instances, OwnerEffect(i)
      PROVE  [Lease!Next]_(Lease!leaseVars)
  <2>1. record.owner = i
    BY <1>3 DEF Inv, HolderOwns, OwnerEffect
  <2> QED BY <1>3, <2>1, InstancesAssumption, LeaseStutter DEF OwnerEffect
<1>4. ASSUME NEW i \in Instances, ReleaseEffect(i)
      PROVE  [Lease!Next]_(Lease!leaseVars)
  <2>1. proc[i].pc \in EarlyPcs => record.owner # NoInst
    BY InstancesAssumption DEF Inv, HolderOwns
  <2> QED BY <1>4, <2>1, LeaseStutter DEF ReleaseEffect
<1>5. ASSUME NEW i \in Instances, NEW op, RecoverWrite(i, op)
      PROVE  [Lease!Next]_(Lease!leaseVars)
  BY <1>5, LeaseStutter DEF RecoverWrite
<1>6. CASE UNCHANGED <<config, auth, record, db>>
  BY <1>6 DEF Lease!leaseVars
<1> QED
  BY <1>1, <1>2, <1>3, <1>4, <1>5, <1>6, NextEffect, WriteEffect,
     TakeoverEffect, ReleaseStepEffect, LeaseBequeath, LeaseInherit, LeaseBegin

(* The protocol, with its files, databases, calls and crashes, implements  *)
(* the directory lease: one owner at a time, in a directory that is empty  *)
(* whenever it changes hands, and only for the instance it was left to.    *)
THEOREM Refinement == Spec => LeaseSpec
<1>1. Init => Lease!Init
  BY DEF Init, Lease!Init, Native, NoPending
<1>2. ASSUME Inv, [Next]_vars PROVE [Lease!Next]_(Lease!leaseVars)
  BY <1>2, LeaseStep
<1> QED
  BY <1>1, <1>2, Invariance, PTL DEF Spec, LeaseSpec, Lease!Spec

-----------------------------------------------------------------------------
(* What outside remembers.                                                 *)

\* Only the client and its user write the history variable.
LEMMA OutsideEffect ==
  ASSUME Next
  PROVE  \/ outside' = outside
         \/ EditConfig
         \/ \E v \in Logins : Login(v)
<1>1. ASSUME NEW i \in Instances, WriteStep(i) PROVE outside' = outside
  BY <1>1 DEF WriteStep, ClaimLease, Journal, StartWrite, Backup, RequireBackup,
    WriteConfig, UndoBackup, UndoRequire, FailWrite, WriteAuth, FinishWrite,
    DropBackup, DropRequire, SetActive, CompleteWrite
<1>2. ASSUME NEW i \in Instances, ReleaseStep(i) PROVE outside' = outside
  BY <1>2 DEF ReleaseStep, JournalRelease, PendRelease, RestoreConfig,
    RestoreAuth, Reserve, Receipt, DropLease, DropReleasedBackup,
    DropReleasedRequire, FinishRelease
<1>3. ASSUME NEW i \in Instances, TakeoverStep(i) PROVE outside' = outside
  <2>1. ASSUME NEW r \in Requests,
               Unreachable(i, r) \/ Claim(i, r) \/ FinishTakeover(i, r)
        PROVE  outside' = outside
    BY <2>1 DEF Unreachable, Claim, FinishTakeover
  <2>2. CASE TakeLease(i) \/ TakeReceipt(i) \/ ClearTakeover(i)
    BY <2>2 DEF TakeLease, TakeReceipt, ClearTakeover
  <2> QED BY <1>3, <2>1, <2>2 DEF TakeoverStep
<1>4. ASSUME NEW i \in Instances, StartStep(i) PROVE outside' = outside
  <2>1. ASSUME NEW op \in NextOp(i), RecoverWrite(i, op) \/ RejectRecovery(i, op)
        PROVE  outside' = outside
    BY <2>1 DEF RecoverWrite, RejectRecovery
  <2>2. CASE EndRecovery(i) \/ Reconcile(i) \/ SkipReconcile(i)
    BY <2>2 DEF EndRecovery, Reconcile, SkipReconcile
  <2> QED BY <1>4, <2>1, <2>2 DEF StartStep
<1>5. ASSUME NEW i \in Instances, Daemon(i) PROVE outside' = outside
  BY <1>1, <1>2, <1>3, <1>4, <1>5
  DEF Daemon, RecoverRelease, ServeRelease, ServeStray
<1>6. CASE User \/ Retry
  <2>1. ASSUME NEW i \in Instances, NEW k \in SwitchKinds, Switch(i, k)
        PROVE  outside' = outside
    BY <2>1 DEF Switch
  <2>2. ASSUME NEW i \in Instances, NEW r \in Requests,
               RequestTakeover(i, r) \/ RetryTakeover(i, r)
        PROVE  outside' = outside
    BY <2>2 DEF RequestTakeover, RetryTakeover
  <2> QED BY <1>6, <2>1, <2>2 DEF User, Retry
<1>7. CASE Environment
  BY <1>7 DEF Environment, Crash, Refresh, LoseCall
<1> QED
  BY <1>5, <1>6, <1>7 DEF Next, Restart
-----------------------------------------------------------------------------
(* Logins that nobody overwrites.                                          *)

\* What the invariant speaks of stays: the login fields, who owns the
\* directory under which generation, and every backup.
CustodyKept ==
  /\ auth'.val = auth.val
  /\ record'.gen = record.gen /\ record'.owner = record.owner
  /\ \A i \in Instances : db'[i].backup = db[i].backup

\* All the actions that touch it, other than a login itself.
LEMMA CustodyEffect ==
  ASSUME Inv, Next, ~ \E v \in Logins : Login(v)
  PROVE  \/ CustodyKept
         \/ \E i \in Instances :
              \/ Backup(i) \/ UndoBackup(i) \/ DropBackup(i) \/ WriteAuth(i)
              \/ RestoreAuth(i) \/ Reserve(i) \/ DropReleasedBackup(i)
              \/ \E r \in Requests : Claim(i, r) /\ CanClaim(i, r)
              \/ \E m \in BOOLEAN, o \in Procs :
                   Begin(i, m, o) /\ UNCHANGED auth
<1>0. TypeOK /\ record \in Records
  BY DEF Inv, TypeOK
<1>1. CASE QuietEffect
  <2>1. CASE outside' = outside
    BY <1>1, <2>1 DEF QuietEffect, CustodyKept
  <2>2. CASE outside' # outside
    <3>1. EditConfig
      BY <2>2, OutsideEffect
    <3> QED BY <1>1, <3>1 DEF QuietEffect, CustodyKept, EditConfig
  <2> QED BY <2>1, <2>2
<1>2. ASSUME NEW i \in Instances, WriteStep(i), ~Backup(i), ~UndoBackup(i),
             ~DropBackup(i), ~WriteAuth(i)
      PROVE  CustodyKept
  <2>1. auth' = auth
    BY <1>2 DEF WriteStep, ClaimLease, Journal, StartWrite, RequireBackup,
      WriteConfig, UndoRequire, FailWrite, FinishWrite, DropRequire, SetActive,
      CompleteWrite
  <2>2. db'[i].backup = db[i].backup
    <3>1. db[i] \in Databases
      BY <1>0 DEF TypeOK
    <3>2. CASE ClaimLease(i) \/ RequireBackup(i) \/ UndoRequire(i)
                 \/ DropRequire(i) \/ SetActive(i)
      BY <1>0, <3>1, <3>2
      DEF ClaimLease, RequireBackup, UndoRequire, DropRequire, SetActive, TypeOK,
        Databases
    <3>3. CASE Journal(i) \/ WriteConfig(i) \/ FailWrite(i) \/ CompleteWrite(i)
      <4>1. CASE \E s : Close(i, s) \/ Abandon(i, s)
        BY <1>0, <4>1, EndEffect
      <4>2. CASE ~ \E s : Close(i, s) \/ Abandon(i, s)
        BY <1>0, <3>1, <3>3, <4>2
        DEF Journal, WriteConfig, FailWrite, CompleteWrite, TypeOK, Databases
      <4> QED BY <4>1, <4>2
    <3>4. CASE StartWrite(i) \/ FinishWrite(i)
      BY <3>4 DEF StartWrite, FinishWrite
    <3> QED BY <1>2, <3>2, <3>3, <3>4 DEF WriteStep
  <2>3. OwnerEffect(i)
    BY <1>2, WriteEffect
  <2> QED BY <2>1, <2>2, <2>3 DEF CustodyKept, OwnerEffect, OthersStay
<1>3. ASSUME NEW i \in Instances,
             TakeLease(i) \/ TakeReceipt(i) \/ ClearTakeover(i)
      PROVE  CustodyKept
  <2>1. OwnerEffect(i)
    BY <1>3, TakeoverEffect
  <2>2. auth' = auth /\ db'[i].backup = db[i].backup
    BY <1>0, <1>3 DEF TakeLease, TakeReceipt, ClearTakeover, TypeOK, Databases
  <2> QED BY <2>1, <2>2 DEF CustodyKept, OwnerEffect, OthersStay
<1>4. ASSUME NEW i \in Instances, ReleaseStep(i), ~RestoreAuth(i), ~Reserve(i),
             ~DropReleasedBackup(i)
      PROVE  CustodyKept
  <2>1. ReleaseEffect(i)
    BY <1>4, ReleaseStepEffect
  <2>2. auth' = auth
    BY <1>4 DEF ReleaseStep, JournalRelease, PendRelease, RestoreConfig, Receipt,
      DropLease, DropReleasedRequire, FinishRelease
  <2>3. db'[i].backup = db[i].backup
    BY <1>0, <1>4 DEF ReleaseStep, JournalRelease, PendRelease, RestoreConfig,
      Receipt, DropLease, DropReleasedRequire, FinishRelease, TypeOK, Databases
  <2> QED BY <2>1, <2>2, <2>3 DEF CustodyKept, ReleaseEffect, OthersStay
<1>5. ASSUME NEW i \in Instances, NEW op \in NextOp(i), RecoverWrite(i, op)
      PROVE  CustodyKept
  BY <1>5 DEF RecoverWrite, CustodyKept
<1>6. ASSUME UNCHANGED <<config, auth, record, db>> PROVE CustodyKept
  BY <1>6 DEF CustodyKept
<1> QED
  BY <1>1, <1>2, <1>3, <1>4, <1>5, <1>6, NextEffect

\* A generation is never reused, and only the owner captures a backup.
LEMMA BackupsPastStep ==
  ASSUME Inv, Inv', BackupsPast, Next PROVE BackupsPast'
<1>0. /\ TypeOK /\ TypeOK' /\ record.gen \in Nat /\ record'.gen \in Nat
      /\ \A j \in Instances : db[j].backup.gen \in Nat /\ db[j].backup.gen <= record.gen
      /\ NoBackup.gen = 0
  BY DEF Inv, TypeOK, Records, Databases, Backups, NoBackup, BackupsPast
<1>k. ASSUME record'.gen >= record.gen,
             \A j \in Instances : \/ db'[j].backup = db[j].backup
                                  \/ db'[j].backup.gen \in {0, record.gen}
      PROVE  BackupsPast'
  BY <1>0, <1>k DEF BackupsPast
<1>q. CASE CustodyKept
  BY <1>0, <1>k, <1>q DEF CustodyKept
<1>l. CASE \E v \in Logins : Login(v)
  BY <1>0, <1>k, <1>l DEF Login
<1>1. ASSUME NEW i \in Instances,
             Backup(i) \/ UndoBackup(i) \/ DropBackup(i) \/ WriteAuth(i)
      PROVE  BackupsPast'
  <2>1. OwnerEffect(i)
    BY <1>1, WriteEffect DEF WriteStep
  <2>2. db'[i].backup = db[i].backup \/ db'[i].backup.gen \in {0, record.gen}
    <3>1. CASE \E s : Close(i, s) \/ Abandon(i, s)
      BY <1>0, <3>1, EndEffect
    <3>2. CASE ~ \E s : Close(i, s) \/ Abandon(i, s)
      BY <1>0, <1>1, <3>2 DEF Backup, UndoBackup, DropBackup, WriteAuth, TypeOK,
        Databases
    <3> QED BY <3>1, <3>2
  <2> QED BY <1>0, <1>k, <2>1, <2>2 DEF OwnerEffect, OthersStay
<1>2. ASSUME NEW i \in Instances, RestoreAuth(i) \/ DropReleasedBackup(i)
      PROVE  BackupsPast'
  <2>1. ReleaseEffect(i)
    BY <1>2, ReleaseStepEffect DEF ReleaseStep, RestoreAuth, DropReleasedBackup,
      Reserve, At
  <2>2. db'[i].backup = db[i].backup \/ db'[i].backup.gen \in {0, record.gen}
    BY <1>0, <1>2 DEF RestoreAuth, DropReleasedBackup, TypeOK, Databases
  <2> QED BY <1>0, <1>k, <2>1, <2>2 DEF ReleaseEffect, OthersStay
<1>3. ASSUME NEW i \in Instances, Reserve(i) PROVE BackupsPast'
  <2>1. record'.gen = record.gen + 1 /\ db' = db
    BY <1>3 DEF Reserve, Unclaimed
  <2> QED BY <1>0, <1>k, <2>1
<1>4. ASSUME NEW i \in Instances, NEW r \in Requests, Claim(i, r), CanClaim(i, r)
      PROVE  BackupsPast'
  <2>1. record'.gen \in {record.gen, record.gen + 1} /\ db' = db
    BY <1>0, <1>4 DEF Claim
  <2> QED BY <1>0, <1>k, <2>1
<1>5. ASSUME NEW i \in Instances, NEW m \in BOOLEAN, NEW o \in Procs, Begin(i, m, o)
      PROVE  BackupsPast'
  <2>1. CASE record.gen = 0 /\ UNCHANGED db
    BY <1>0, <1>k, <2>1
  <2>2. CASE record.gen # 0
    <3>1. record' = record /\ db' = [db EXCEPT ![i].lease = record.gen]
      BY <1>5, <2>2 DEF Begin
    <3>2. \A j \in Instances : db'[j].backup = db[j].backup
      BY <1>0, <3>1 DEF TypeOK, Databases
    <3> QED BY <1>0, <1>k, <3>1, <3>2
  <2> QED BY <1>5, <2>1, <2>2 DEF Begin
<1> QED
  BY <1>q, <1>l, <1>1, <1>2, <1>3, <1>4, <1>5, CustodyEffect

\* A takeover gets under way only where its own instance asks for it.
Underway(r) == call[r] \in {"rpc", "served", "claim"}

LEMMA UnderwayEffect ==
  ASSUME Inv, Next, NEW r \in Requests, Underway(r)', ~Underway(r)
  PROVE  \E i \in Instances :
           Requester[r] = i /\ (RequestTakeover(i, r) \/ RetryTakeover(i, r))
<1> DEFINE Asked == \E i \in Instances :
      Requester[r] = i /\ (RequestTakeover(i, r) \/ RetryTakeover(i, r))
<1> SUFFICES Asked
  OBVIOUS
<1>0. TypeOK
  BY DEF Inv
<1>k. ASSUME call'[r] \in {call[r], "idle", "finish"} PROVE Asked
  BY <1>k DEF Underway
<1>a. ASSUME NEW q, NEW outcome, Answer(q, outcome) PROVE Asked
  <2>1. call'[r] = call[r] \/ call[r] = "served"
    BY <1>0, <1>a DEF Answer, TypeOK
  <2> QED BY <1>k, <2>1 DEF Underway
<1>1. ASSUME NEW i \in Instances, NEW q \in Requests,
             RequestTakeover(i, q) \/ RetryTakeover(i, q)
      PROVE  Asked
  <2>1. Requester[q] = i
    BY <1>1 DEF RequestTakeover, RetryTakeover
  <2>2. CASE q = r
    BY <1>1, <2>1, <2>2
  <2>3. CASE q # r
    BY <1>0, <1>k, <1>1, <2>3 DEF RequestTakeover, RetryTakeover, TypeOK
  <2> QED BY <2>2, <2>3
<1>2. ASSUME NEW i \in Instances, WriteStep(i) PROVE Asked
  BY <1>k, <1>2 DEF WriteStep, ClaimLease, Journal, StartWrite, Backup,
    RequireBackup, WriteConfig, UndoBackup, UndoRequire, FailWrite, WriteAuth,
    FinishWrite, DropBackup, DropRequire, SetActive, CompleteWrite
<1>3. ASSUME NEW i \in Instances, ReleaseStep(i) PROVE Asked
  <2>1. CASE RestoreAuth(i) \/ FinishRelease(i)
    BY <1>a, <1>k, <2>1 DEF RestoreAuth, FinishRelease
  <2>2. CASE ~(RestoreAuth(i) \/ FinishRelease(i))
    BY <1>k, <1>3, <2>2 DEF ReleaseStep, JournalRelease, PendRelease,
      RestoreConfig, Reserve, Receipt, DropLease, DropReleasedBackup,
      DropReleasedRequire
  <2> QED BY <2>1, <2>2
<1>4. ASSUME NEW i \in Instances, TakeoverStep(i) PROVE Asked
  <2>1. ASSUME NEW q \in Requests,
               Unreachable(i, q) \/ Claim(i, q) \/ FinishTakeover(i, q)
        PROVE  Asked
    BY <1>0, <1>k, <2>1 DEF Unreachable, Claim, FinishTakeover, TypeOK
  <2>2. CASE TakeLease(i) \/ TakeReceipt(i) \/ ClearTakeover(i)
    BY <1>0, <1>k, <2>2 DEF TakeLease, TakeReceipt, ClearTakeover, TypeOK
  <2> QED BY <1>4, <2>1, <2>2 DEF TakeoverStep
<1>5. ASSUME NEW i \in Instances, StartStep(i) PROVE Asked
  <2>1. ASSUME NEW op \in NextOp(i), RecoverWrite(i, op) \/ RejectRecovery(i, op)
        PROVE  Asked
    BY <1>k, <2>1 DEF RecoverWrite, RejectRecovery
  <2>2. CASE EndRecovery(i) \/ Reconcile(i) \/ SkipReconcile(i)
    BY <1>k, <2>2 DEF EndRecovery, Reconcile, SkipReconcile
  <2> QED BY <1>5, <2>1, <2>2 DEF StartStep
<1>6. ASSUME NEW i \in Instances, Daemon(i) PROVE Asked
  <2>1. ASSUME NEW q \in Requests, ServeRelease(i, q) \/ ServeStray(i, q)
        PROVE  Asked
    <3>1. call'[r] = call[r] \/ (q = r /\ call[r] = "rpc") \/ call'[r] = "idle"
      BY <1>0, <2>1 DEF ServeRelease, ServeStray, TypeOK
    <3> QED BY <1>k, <3>1 DEF Underway
  <2>2. ASSUME NEW op \in NextOp(i), RecoverRelease(i, op) PROVE Asked
    BY <1>k, <2>2 DEF RecoverRelease
  <2> QED BY <1>2, <1>3, <1>4, <1>5, <1>6, <2>1, <2>2 DEF Daemon
<1>7. CASE User \/ Retry
  <2>1. ASSUME NEW i \in Instances, NEW k \in SwitchKinds, Switch(i, k) PROVE Asked
    BY <1>k, <2>1 DEF Switch
  <2> QED BY <1>1, <1>7, <2>1 DEF User, Retry
<1>8. CASE Environment
  <2>1. ASSUME NEW i \in Instances, Crash(i) PROVE Asked
    BY <1>0, <1>k, <2>1 DEF Crash, TypeOK
  <2>2. ASSUME NEW q \in Requests, LoseCall(q) PROVE Asked
    BY <1>0, <1>k, <2>2 DEF LoseCall, TypeOK
  <2>3. ASSUME NEW v \in Logins, Login(v) PROVE Asked
    BY <1>k, <2>3 DEF Login
  <2>4. CASE Refresh \/ EditConfig
    BY <1>k, <2>4 DEF Refresh, EditConfig
  <2> QED BY <1>8, <2>1, <2>2, <2>3, <2>4 DEF Environment
<1>9. ASSUME NEW i \in Instances, Restart(i) PROVE Asked
  BY <1>k, <1>9 DEF Restart
<1> HIDE DEF Asked
<1> QED
  BY <1>6, <1>7, <1>8, <1>9 DEF Next

\* While the record refuses, nothing is written and nobody gets under way.
LEMMA RefusedStays ==
  ASSUME Inv, Next, ~ \E v \in Logins : Login(v), Refused, record.owner \in Instances
  PROVE  Refused' /\ auth'.val = auth.val /\ UNCHANGED record
<1>0. /\ TypeOK /\ record.gen # 0 /\ record.pending.kind = "none"
      /\ record.owner # NoInst
  BY InstancesAssumption DEF Inv, Reservation, Refused
<1>1. Problem
  BY <1>0 DEF Problem, Live, Refused
<1>2. \A i \in Instances, m \in BOOLEAN : ~CanBegin(i, m)
  BY <1>0, <1>1 DEF CanBegin
<1>3. \A r \in Requests : \A e : ~ReservedFor(Requester[r], r, e)
  BY <1>0 DEF ReservedFor
<1> DEFINE Written == WritePcs \cup EarlyPcs \cup TakeoverPcs \cup {"receipt"}
<1>4. \A i \in Instances : proc[i].pc \notin Written
  BY DEF Refused
<1>5. /\ auth'.val = auth.val /\ UNCHANGED record
      /\ \A i \in Instances : proc'[i].pc \notin Written
  <2>1. CASE QuietEffect
    <3>1. "idle" \notin Written
      BY DEF WritePcs, EarlyPcs, TakeoverPcs
    <3>2. outside' = outside \/ EditConfig
      BY OutsideEffect
    <3>3. auth'.val = auth.val
      BY <2>1, <3>2 DEF QuietEffect, EditConfig
    <3> QED BY <1>4, <2>1, <3>1, <3>3 DEF QuietEffect
  <2>2. ASSUME NEW i \in Instances, WriteStep(i) PROVE FALSE
    BY <1>4, <2>2, WriteEffect DEF OwnerEffect
  <2>3. ASSUME NEW i \in Instances,
               TakeLease(i) \/ TakeReceipt(i) \/ ClearTakeover(i)
        PROVE  FALSE
    BY <1>4, <2>3, TakeoverEffect DEF OwnerEffect
  <2>4. ASSUME NEW i \in Instances, ReleaseStep(i)
        PROVE  /\ auth' = auth /\ UNCHANGED record
               /\ \A j \in Instances : proc'[j].pc \notin Written
    <3>1. /\ proc'[i].pc \in {"runback", "rfinish", "runrequire", "idle"}
          /\ UNCHANGED <<auth, record>>
      BY <1>0, <1>4, <2>4, GotoEffect, ReturnEffect
      DEF ReleaseStep, JournalRelease, PendRelease, RestoreConfig, RestoreAuth,
        Reserve, Receipt, DropLease, DropReleasedBackup, DropReleasedRequire,
        FinishRelease, At, EarlyPcs
    <3>2. \A j \in Instances \ {i} : proc'[j] = proc[j]
      BY <2>4, <1>4, ReleaseStepEffect DEF ReleaseEffect, OthersStay, Reserve, At, EarlyPcs
    <3> QED BY <1>4, <3>1, <3>2 DEF WritePcs, EarlyPcs, TakeoverPcs
  <2>5. ASSUME NEW i \in Instances, NEW r \in Requests, Claim(i, r), CanClaim(i, r)
        PROVE  FALSE
    <3>1. Requester[r] = i /\ call[r] = "claim"
      BY <2>5 DEF Claim
    <3>2. record.owner # i
      BY <3>1 DEF Refused
    <3> QED BY <1>0, <1>3, <2>5, <3>1, <3>2 DEF CanClaim
  <2>6. ASSUME NEW i \in Instances, NEW m \in BOOLEAN, NEW o \in Procs, Begin(i, m, o)
        PROVE  FALSE
    BY <1>2, <2>6 DEF Begin
  <2>7. ASSUME NEW i \in Instances, NEW op \in NextOp(i), RecoverWrite(i, op)
        PROVE  FALSE
    BY <1>2, <2>7 DEF RecoverWrite, CanRecover
  <2>8. ASSUME NEW i \in Instances, NEW r \in Requests, NEW phase \in Phases,
               NEW id \in Nat, StartRelease(i, r, phase, id),
               UNCHANGED <<config, auth, record, db>>
        PROVE  /\ auth' = auth /\ UNCHANGED record
               /\ \A j \in Instances : proc'[j].pc \notin Written
    <3>1. HandedOver(r)
      BY <1>0, <1>1, <2>8 DEF StartRelease, CanServe, CanRelease, Resumes
    <3>2. proc' = [proc EXCEPT ![i] =
            [IdleProc EXCEPT !.phase = phase, !.id = id, !.req = r,
                             !.mode = "complete", !.pc = "unlease"]]
      BY <2>8, <3>1 DEF StartRelease
    <3>3. proc'[i].pc = "unlease" /\ \A j \in Instances \ {i} : proc'[j] = proc[j]
      BY <1>0, <3>2 DEF TypeOK, IdleProc
    <3> QED BY <1>4, <2>8, <3>3 DEF WritePcs, EarlyPcs, TakeoverPcs
  <2> HIDE DEF Written
  <2> QED BY <2>1, <2>2, <2>3, <2>4, <2>5, <2>6, <2>7, <2>8, NextEffect
<1>6. ASSUME NEW r \in Requests, record.owner = Requester[r] PROVE ~Underway(r)'
  <2>1. ~Underway(r)
    BY <1>6 DEF Refused, Underway
  <2>2. ASSUME NEW i \in Instances, Requester[r] = i,
               RequestTakeover(i, r) \/ RetryTakeover(i, r)
        PROVE  FALSE
    <3>1. \E e : CanPrepare(i, r, e)
      BY <2>2 DEF RequestTakeover, RetryTakeover
    <3> QED BY <1>0, <1>1, <1>3, <2>2, <3>1 DEF CanPrepare, Releasing
  <2> QED BY <2>1, <2>2, UnderwayEffect
<1>7. Refused'
  BY <1>5, <1>6 DEF Refused, Underway
<1> QED
  BY <1>5, <1>7

\* The two parts of LoginIsSafe for a login with values v.
Stored(v) ==
  \/ auth.val = v
  \/ auth.val = ManagedKey /\ \E i \in Instances :
       record.owner = i /\ db[i].backup = [val |-> v, gen |-> record.gen]

\* Instance i holds a backup of something else that it could put back.
Holds(i, v) ==
  record.owner = i /\ db[i].backup.gen = record.gen /\ db[i].backup.val # v

LEMMA LoginIsSafeParts ==
  LoginIsSafe <=> (outside.when = "covered" =>
                     /\ Stored(outside.login)
                     /\ \A i \in Instances : Holds(i, outside.login) => Refused)
BY DEF LoginIsSafe, Stored, Holds

\* A covered login: the record does not show it, or there is no backup.
LEMMA CoveredLogin ==
  ASSUME Inv, NEW v \in Logins, Login(v), LoginMoment(v) = "covered"
  PROVE  LoginIsSafe'
<1>0. TypeOK /\ auth \in AuthFiles /\ NoInst \notin Instances
  BY InstancesAssumption DEF Inv, TypeOK
<1>1. /\ auth'.val = v /\ outside'.login = v
      /\ UNCHANGED <<record, lock, db, proc, call>>
  BY <1>0 DEF Login, AuthFiles
<1>2. Moment = "covered" /\ ~(record.scope /\ record.fp.auth = v)
  BY DEF LoginMoment
<1>3. lock = NoInst /\ record.pending.kind = "none"
  BY <1>2 DEF Moment, AtRest
<1>4. /\ \A r \in Requests : ~Checked(r)
      /\ \A i \in Instances : record.owner = i /\ HasBackup(i) => record.scope
  BY <1>2, <1>3 DEF Moment
<1>5. \A i \in Instances : proc[i].pc = "idle"
  BY <1>0, <1>3 DEF Inv, LockHeld
<1>6. ASSUME NEW i \in Instances, Holds(i, v)' PROVE Refused'
  <2>1. record.owner = i /\ db[i].backup.gen = record.gen
    BY <1>1, <1>6 DEF Holds
  <2>2. record.gen # 0
    BY <1>0, <2>1 DEF Inv, Reservation
  <2>3. record.scope
    BY <1>4, <2>1, <2>2 DEF HasBackup
  <2>4. \A r \in Requests :
          record.owner = Requester[r] => call[r] \notin {"rpc", "served", "claim"}
    BY <1>4 DEF Checked
  <2> QED BY <1>1, <1>2, <1>3, <1>5, <2>3, <2>4
        DEF Refused, WritePcs, EarlyPcs, TakeoverPcs
<1>7. Stored(v)'
  BY <1>1 DEF Stored
<1> QED
  BY <1>1, <1>6, <1>7, LoginIsSafeParts DEF LoginIsSafe, Stored, Holds

\* Where nothing else could be put back, the login moves only between
\* auth.json and its backup.
LEMMA StoredStays ==
  ASSUME Inv, Inv', BackupsPast, Next, ~ \E w \in Logins : Login(w),
         NEW v \in Logins, Stored(v), \A i \in Instances : ~Holds(i, v)
  PROVE  Stored(v)' /\ \A i \in Instances : ~Holds(i, v)'
<1> DEFINE Goal == Stored(v)' /\ \A i \in Instances : ~Holds(i, v)'
<1> SUFFICES Goal
  OBVIOUS
<1>0. /\ TypeOK /\ NoInst \notin Instances /\ auth \in AuthFiles
      /\ \A i \in Instances : db[i] \in Databases
      /\ v # ManagedKey /\ NoBackup.gen = 0
  BY InstancesAssumption, LoginsAssumption DEF Inv, TypeOK, NoBackup
<1>g. /\ record.gen \in Nat
      /\ \A i \in Instances : db[i].backup.gen \in Nat /\ db[i].backup.gen <= record.gen
  BY <1>0 DEF TypeOK, Records, Databases, Backups, NoBackup, BackupsPast
<1>o. record.owner \in Instances => record.gen # 0
  BY <1>0 DEF Inv, Reservation
<1>n. record.owner \notin Instances => auth.val = v
  BY DEF Stored
<1>q. CASE CustodyKept
  BY <1>q DEF CustodyKept, Stored, Holds
<1>1. ASSUME NEW i \in Instances,
             Backup(i) \/ UndoBackup(i) \/ DropBackup(i) \/ WriteAuth(i)
      PROVE  Goal
  <2>1. OwnerEffect(i)
    BY <1>1, WriteEffect DEF WriteStep
  <2>2. record.owner = i /\ record'.owner = i /\ record'.gen = record.gen
    BY <2>1 DEF Inv, HolderOwns, OwnerEffect
  <2>k. ASSUME auth'.val = auth.val, db'[i].backup = db[i].backup PROVE Goal
    BY <2>k, <2>1 DEF Stored, Holds, OwnerEffect, OthersStay
  <2>e. ASSUME NEW s, Close(i, s) \/ Abandon(i, s), auth' = auth PROVE Goal
    BY <1>0, <2>e, <2>k, EndEffect
  <2>m. ASSUME auth'.val = v,
               \/ db'[i].backup = NoBackup
               \/ db'[i].backup.val = v
               \/ db'[i].backup = db[i].backup
        PROVE  Goal
    BY <1>0, <1>o, <2>1, <2>2, <2>m DEF Stored, Holds, OwnerEffect, OthersStay
  <2>3. CASE Backup(i)
    <3>1. CASE \E s : Close(i, s)
      BY <2>3, <2>e, <3>1 DEF Backup
    <3>2. CASE db' = [db EXCEPT ![i].required = @ \cup {record.gen}]
      BY <1>0, <2>3, <2>k, <3>2 DEF Backup, TypeOK, Databases
    <3>3. CASE ~HasBackup(i)
                 /\ db' = [db EXCEPT ![i].backup = [val |-> auth.val, gen |-> record.gen]]
      <4>1. auth.val = v
        BY <1>o, <2>2, <3>3 DEF Stored, HasBackup
      <4>2. db'[i].backup = [val |-> v, gen |-> record.gen]
        BY <1>0, <3>3, <4>1 DEF TypeOK, Databases
      <4> QED BY <2>3, <2>m, <4>1, <4>2 DEF Backup
    <3> QED BY <2>3, <3>1, <3>2, <3>3 DEF Backup
  <2>4. CASE UndoBackup(i) \/ DropBackup(i)
    <3>1. db'[i].backup = NoBackup /\ auth' = auth
      BY <1>0, <2>4 DEF UndoBackup, DropBackup, TypeOK, Databases
    <3>2. auth.val # ManagedKey
      BY <2>4 DEF Inv, BackupFirst, BackupOrder, UndoBackup, DropBackup, At
    <3>3. auth.val = v
      BY <3>2 DEF Stored
    <3> QED BY <2>m, <3>1, <3>3
  <2>5. CASE WriteAuth(i)
    <3>1. CASE auth' = auth /\ UNCHANGED db
      BY <2>k, <3>1
    <3>2. CASE \E s : (Close(i, s) \/ Abandon(i, s)) /\ auth' = auth
      BY <2>e, <3>2
    <3>3. CASE /\ auth' = [auth EXCEPT !.val = WantAuth(i, proc[i].kind)]
               /\ CanWriteAuth(i, proc[i].kind) /\ UNCHANGED db
      <4>1. auth'.val = WantAuth(i, proc[i].kind)
        BY <1>0, <3>3 DEF AuthFiles
      <4>2. CASE Managed(i)
        <5>1. db[i].backup.gen = record.gen
          BY <2>5, <4>2 DEF Inv, BackupFirst, BackupOrder, WriteAuth, At
        <5>2. db[i].backup.val = v
          BY <2>2, <5>1 DEF Holds
        <5>3. db[i].backup = [val |-> v, gen |-> record.gen]
          BY <1>0, <5>1, <5>2 DEF Databases, Backups, NoBackup
        <5>4. auth'.val = ManagedKey /\ db'[i].backup = db[i].backup
          BY <3>3, <4>1, <4>2 DEF WantAuth, Managed
        <5>5. Stored(v)'
          BY <2>2, <5>3, <5>4 DEF Stored
        <5>6. \A j \in Instances : ~Holds(j, v)'
          BY <2>2, <5>2, <5>4 DEF Holds
        <5> QED BY <5>5, <5>6
      <4>3. CASE ~Managed(i) /\ HasBackup(i)
        <5>1. db[i].backup.gen = record.gen
          BY <3>3, <4>3 DEF CanWriteAuth, Managed
        <5>2. db[i].backup.val = v
          BY <2>2, <5>1 DEF Holds
        <5> QED BY <2>m, <3>3, <4>1, <4>3, <5>2 DEF WantAuth, Managed
      <4>4. CASE ~Managed(i) /\ ~HasBackup(i)
        BY <2>k, <3>3, <4>1, <4>4 DEF WantAuth, Managed
      <4> QED BY <4>2, <4>3, <4>4
    <3> QED BY <2>5, <3>1, <3>2, <3>3 DEF WriteAuth
  <2> QED BY <1>1, <2>3, <2>4, <2>5
<1>2. ASSUME NEW i \in Instances, RestoreAuth(i) PROVE Goal
  <2>1. ReleaseEffect(i)
    BY <1>2, ReleaseStepEffect DEF ReleaseStep, RestoreAuth, Reserve, At
  <2>2. record.owner = i /\ record'.owner = i /\ record'.gen = record.gen
    BY <1>2, <2>1 DEF Inv, HolderOwns, ReleaseEffect, RestoreAuth, At, EarlyPcs
  <2>3. \A j \in Instances : db'[j].backup = db[j].backup
    BY <1>0, <1>2 DEF RestoreAuth, TypeOK, Databases
  <2>4. CASE auth'.val = auth.val
    BY <2>2, <2>3, <2>4 DEF Stored, Holds
  <2>5. CASE auth' = [auth EXCEPT !.val = db[i].backup.val]
               /\ db[i].backup.gen = record.gen
    <3>1. auth'.val = v
      BY <1>0, <2>2, <2>5 DEF AuthFiles, Holds
    <3> QED BY <2>2, <2>3, <3>1 DEF Stored, Holds
  <2> QED BY <1>2, <2>4, <2>5 DEF RestoreAuth, CanRestoreAuth
<1>3. ASSUME NEW i \in Instances, Reserve(i) PROVE Goal
  <2>1. record'.owner = NoInst /\ auth' = auth
    BY <1>3 DEF Reserve, Unclaimed
  <2>2. auth.val = v
    BY <1>3 DEF Inv, BackupFirst, BackupOrder, Reserve, At, Stored
  <2> QED BY <1>0, <2>1, <2>2 DEF Stored, Holds
<1>4. ASSUME NEW i \in Instances, DropReleasedBackup(i) PROVE Goal
  <2>1. ReleaseEffect(i) /\ proc[i].pc = "runback"
    BY <1>4, ReleaseStepEffect DEF ReleaseStep, DropReleasedBackup, Reserve, At
  <2>2. proc[i].req \in Requests /\ ask[proc[i].req].gen < record.gen
    BY <2>1 DEF Inv, ReleaseServes, Serves, LatePcs, EarlyPcs, ReleasePcs
  <2>3. record'.owner = record.owner /\ record'.gen = record.gen /\ auth' = auth
    BY <1>4 DEF DropReleasedBackup
  <2>4. \/ db'[i].backup = db[i].backup
        \/ db'[i].backup = NoBackup /\ db[i].backup.gen # record.gen
    BY <1>0, <1>4, <1>g, <2>2 DEF DropReleasedBackup, TypeOK, Databases
  <2>5. \A j \in Instances \ {i} : db'[j].backup = db[j].backup
    BY <2>1 DEF ReleaseEffect, OthersStay
  <2>6. \A j \in Instances :
          \/ db'[j].backup = db[j].backup
          \/ db'[j].backup = NoBackup /\ db[j].backup.gen # record.gen
    BY <2>4, <2>5
  <2>7. Stored(v)'
    <3>1. CASE auth.val = v
      BY <2>3, <3>1 DEF Stored
    <3>2. CASE auth.val = ManagedKey /\ \E j \in Instances :
                 record.owner = j /\ db[j].backup = [val |-> v, gen |-> record.gen]
      <4>1. PICK j \in Instances :
              record.owner = j /\ db[j].backup = [val |-> v, gen |-> record.gen]
        BY <3>2
      <4>2. db'[j].backup = [val |-> v, gen |-> record.gen]
        BY <2>6, <4>1
      <4> QED BY <2>3, <3>2, <4>1, <4>2 DEF Stored
    <3> QED BY <3>1, <3>2 DEF Stored
  <2>8. \A j \in Instances : ~Holds(j, v)'
    BY <1>0, <1>o, <2>3, <2>6 DEF Holds
  <2> QED BY <2>7, <2>8
<1>5. ASSUME NEW i \in Instances, NEW r \in Requests, Claim(i, r), CanClaim(i, r)
      PROVE  Goal
  <2>1. auth' = auth /\ db' = db /\ record'.owner = i
        /\ record'.gen = record.gen + (IF record.owner = i THEN 0 ELSE 1)
    BY <1>5 DEF Claim
  <2>2. CASE record.owner = i
    BY <1>g, <2>1, <2>2 DEF Stored, Holds
  <2>3. CASE record.owner # i
    <3>1. record.owner = NoInst
      BY <1>5, <2>3, ReservedIsFree DEF CanClaim
    <3>2. auth.val = v /\ record'.gen = record.gen + 1
      BY <1>0, <1>n, <2>1, <2>3, <3>1
    <3>3. \A j \in Instances : db'[j].backup.gen # record'.gen
      BY <1>g, <2>1, <3>2
    <3> QED BY <2>1, <3>2, <3>3 DEF Stored, Holds
  <2> QED BY <2>2, <2>3
<1>6. ASSUME NEW i \in Instances, NEW m \in BOOLEAN, NEW o \in Procs,
             Begin(i, m, o), auth' = auth
      PROVE  Goal
  <2>1. CASE record.gen = 0
    <3>1. record.owner = NoInst /\ db[i].lease \in Nat
      BY <1>0, <2>1 DEF Inv, Reservation, Databases
    <3>2. auth.val = v
      BY <1>0, <1>n, <3>1
    <3>3. record' = [Unclaimed(db[i].lease + 1, FALSE) EXCEPT !.owner = i] /\ db' = db
      BY <1>6, <2>1 DEF Begin
    <3>4. record'.gen = db[i].lease + 1
      BY <3>3 DEF Unclaimed
    <3>5. \A j \in Instances : db[j].backup.gen = 0
      BY <1>g, <2>1
    <3>6. record'.gen # 0
      BY <3>1, <3>4
    <3>7. \A j \in Instances : db'[j].backup.gen # record'.gen
      BY <3>3, <3>5, <3>6
    <3> QED BY <1>6, <3>2, <3>7 DEF Stored, Holds
  <2>2. CASE record.gen # 0
    <3>1. record' = record /\ db' = [db EXCEPT ![i].lease = record.gen]
      BY <1>6, <2>2 DEF Begin
    <3>2. \A j \in Instances : db'[j].backup = db[j].backup
      BY <1>0, <3>1 DEF TypeOK, Databases
    <3> QED BY <1>6, <3>1, <3>2 DEF Stored, Holds
  <2> QED BY <2>1, <2>2
<1> HIDE DEF Goal
<1> QED
  BY <1>q, <1>1, <1>2, <1>3, <1>4, <1>5, <1>6, CustodyEffect

LEMMA LoginIsSafeStep ==
  ASSUME Inv, Inv', BackupsPast, LoginIsSafe, Next PROVE LoginIsSafe'
<1>0. TypeOK
  BY DEF Inv
<1>1. ASSUME NEW v \in Logins, Login(v) PROVE LoginIsSafe'
  <2>1. outside'.when = LoginMoment(v)
    BY <1>1 DEF Login
  <2>2. CASE LoginMoment(v) = "covered"
    BY <1>1, <2>2, CoveredLogin
  <2>3. CASE LoginMoment(v) # "covered"
    BY <2>1, <2>3 DEF LoginIsSafe
  <2> QED BY <2>2, <2>3
<1>2. ASSUME ~ \E v \in Logins : Login(v) PROVE LoginIsSafe'
  <2>1. outside'.login = outside.login /\ outside'.when = outside.when
    BY <1>0, <1>2, OutsideEffect DEF EditConfig, TypeOK
  <2>2. outside.login \in Logins /\ outside.login # ManagedKey
    BY <1>0, LoginsAssumption DEF TypeOK
  <2> DEFINE v == outside.login
  <2> SUFFICES ASSUME outside.when = "covered"
               PROVE  /\ Stored(v)' /\ \A i \in Instances : Holds(i, v)' => Refused'
    BY <2>1 DEF LoginIsSafe, Stored, Holds
  <2>3. Stored(v) /\ \A i \in Instances : Holds(i, v) => Refused
    BY LoginIsSafeParts
  <2>4. CASE \A i \in Instances : ~Holds(i, v)
    <3> HIDE DEF v
    <3> QED BY <1>2, <2>1, <2>2, <2>3, <2>4, StoredStays DEF v
  <2>5. CASE \E i \in Instances : Holds(i, v)
    <3>1. PICK i \in Instances : Holds(i, v)
      BY <2>5
    <3>2. record.owner \in Instances /\ Refused
      BY <2>3, <3>1 DEF Holds
    <3>3. Refused' /\ auth'.val = auth.val /\ UNCHANGED record
      BY <1>2, <3>2, RefusedStays
    <3>4. auth.val = v
      BY <2>3, <3>1 DEF Stored, Holds
    <3> QED BY <2>1, <3>3, <3>4 DEF Stored
  <2> QED BY <2>4, <2>5
<1> QED
  BY <1>1, <1>2

-----------------------------------------------------------------------------
(* The status users see.                                                   *)

\* An instance that does nothing: what it reports is still shown, unless an
\* outside change raced somebody.
LEMMA IdleTold ==
  ASSUME NEW j \in Instances, proc'[j].pc = "idle",
         outside'.raced \/ (Reported(j)' => ShowsActive(j)')
  PROVE  Told(j)'
BY DEF Told, Marked, FilesWritten, AuthDone, WritePcs, TakeoverPcs

\* Nothing a report depends on changes.
LEMMA SameShown ==
  ASSUME NEW j \in Instances, Told(j), UNCHANGED record, auth'.val = auth.val,
         db'[j].active = db[j].active,
         Journalled(j) => Journalled(j)', db'[j].status = db[j].status,
         outside.raced => outside'.raced
  PROVE  outside'.raced \/ (Reported(j)' => ShowsActive(j)')
BY DEF Told, Reported, ShowsActive, Want

\* Only instance i moves, as the owner of what it writes.
LEMMA OwnerTold ==
  ASSUME Inv, NEW i \in Instances, OwnerEffect(i), StatusIsShown, Told(i)'
  PROVE  StatusIsShown'
<1>1. /\ record.owner = i /\ record'.owner = i /\ record'.gen # 0
      /\ \A j \in Instances \ {i} : proc'[j].pc = "idle"
  BY InstancesAssumption
  DEF Inv, LockHeld, HolderOwns, OwnerEffect, OthersStay, WritePcs, TakeoverPcs
<1>2. \A j \in Instances \ {i} : ~Reported(j)'
  BY <1>1 DEF Reported
<1>3. \A j \in Instances \ {i} : Told(j)'
  BY <1>1, <1>2, IdleTold
<1> QED
  BY <1>1, <1>3 DEF StatusIsShown, NewIsOfficial

\* The end of an operation that leaves its row, or reports that it failed.
LEMMA EndTold ==
  ASSUME Inv, NEW i \in Instances, StatusIsShown, NEW s,
         \/ Close(i, s) /\ (s # "synchronized" \/ record.pending.kind # "none")
         \/ Abandon(i, s) /\ (s = db[i].status \/ s # "synchronized"),
         auth'.val = auth.val, UNCHANGED <<record, outside>>
  PROVE  Told(i)'
<1>0. TypeOK /\ db[i] \in Databases
  BY DEF Inv, TypeOK
<1>1. proc'[i].pc = "idle"
  BY <1>0, EndEffect
<1>2. CASE Close(i, s) /\ (s # "synchronized" \/ record.pending.kind # "none")
  <2>1. db'[i] = [db[i] EXCEPT !.journal = WithoutOp(i), !.status = s]
    BY <1>0, <1>2 DEF Close, TypeOK
  <2>2. db'[i].status = s
    BY <1>0, <2>1 DEF Databases
  <2>3. ~Reported(i)'
    BY <1>2, <2>2 DEF Reported
  <2> QED BY <1>1, <2>3, IdleTold
<1>3. CASE Abandon(i, s) /\ s # "synchronized"
  <2>1. db'[i] = [db[i] EXCEPT !.status = s]
    BY <1>0, <1>3 DEF Abandon, TypeOK
  <2>2. db'[i].status = s
    BY <1>0, <2>1 DEF Databases
  <2> QED BY <1>1, <1>3, <2>2, IdleTold DEF Reported
<1>4. CASE Abandon(i, s) /\ s = db[i].status
  <2>1. db'[i] = [db[i] EXCEPT !.status = s]
    BY <1>0, <1>4 DEF Abandon, TypeOK
  <2>2. /\ db'[i].status = db[i].status /\ db'[i].active = db[i].active
        /\ db'[i].journal = db[i].journal
    BY <1>0, <1>4, <2>1 DEF Databases
  <2>3. Told(i)
    BY DEF StatusIsShown
  <2> QED BY <1>1, <2>2, <2>3, IdleTold, SameShown DEF Journalled
<1> QED
  BY <1>2, <1>3, <1>4

\* A step of the saga after its row is in the journal and before it goes.
LEMMA GotoTold ==
  ASSUME Inv, NEW i \in Instances, NEW pc \in WritePcs \ {"lease", "journal", "start"},
         Goto(i, pc), StatusIsShown, Journalled(i)', UNCHANGED outside,
         pc = "backup" => proc[i].mode # "apply" \/ record'.pending.kind = "write",
         ~outside.raced => FilesWritten(i)'
  PROVE  Told(i)'
<1>1. /\ proc'[i].pc = pc /\ proc'[i].mode = proc[i].mode
      /\ pc \notin TakeoverPcs /\ pc \notin {"rconfig", "rauth", "reserve", "tclear"}
  BY GotoEffect DEF Inv, WritePcs, TakeoverPcs
<1> QED
  BY <1>1 DEF Told, Marked, Reported

LEMMA WriteTold ==
  ASSUME Inv, NEW i \in Instances, WriteStep(i), StatusIsShown
  PROVE  Told(i)'
<1>0. /\ TypeOK /\ db[i] \in Databases /\ record \in Records /\ Told(i)
      /\ auth \in AuthFiles
  BY DEF Inv, TypeOK, StatusIsShown
<1>p. proc[i].pc \in WritePcs
  BY DEF WriteStep, ClaimLease, Journal, StartWrite, Backup, RequireBackup,
    WriteConfig, UndoBackup, UndoRequire, FailWrite, WriteAuth, FinishWrite,
    DropBackup, DropRequire, SetActive, CompleteWrite, At, WritePcs
<1>h. /\ outside' = outside
      /\ proc[i].pc \notin {"lease", "journal"} => Journalled(i)
  <2>1. outside' = outside
    BY DEF WriteStep, ClaimLease, Journal, StartWrite, Backup, RequireBackup,
      WriteConfig, UndoBackup, UndoRequire, FailWrite, WriteAuth, FinishWrite,
      DropBackup, DropRequire, SetActive, CompleteWrite
  <2> QED BY <1>0, <1>p, <2>1 DEF Told
<1>w. ~outside.raced => FilesWritten(i)
  BY <1>0 DEF Told
<1>g. \A pc \in WritePcs : Goto(i, pc) =>
        /\ proc'[i].pc = pc /\ proc'[i].mode = proc[i].mode
        /\ proc'[i].kind = proc[i].kind
  BY <1>0, GotoEffect
<1>j. db'[i].journal = db[i].journal /\ proc[i].pc \notin {"lease", "journal"}
        => Journalled(i)'
  BY <1>h DEF Journalled
<1>k. proc[i].pc \in {"lease", "journal", "start"} => ~Recovering(i)
  BY <1>0 DEF Told, Marked
<1>u. ASSUME NEW pc \in WritePcs \ {"lease", "journal", "start", "backup"},
             Goto(i, pc), Journalled(i)',
             ~outside.raced => FilesWritten(i)'
      PROVE  Told(i)'
  BY <1>h, <1>u, GotoTold
<1>1. CASE ClaimLease(i)
  <2>1. db'[i].active = db[i].active /\ db'[i].journal = db[i].journal
        /\ db'[i].status = db[i].status
    BY <1>0, <1>1 DEF ClaimLease, TypeOK, Databases
  <2>2. proc'[i].pc = "journal" /\ proc'[i].mode = proc[i].mode
    BY <1>1, <1>g DEF ClaimLease, WritePcs
  <2>3. outside'.raced \/ (Reported(i)' => ShowsActive(i)')
    BY <1>0, <1>1, <1>h, <2>1, SameShown DEF ClaimLease, Journalled
  <2>4. Marked(i)' /\ FilesWritten(i)'
    BY <1>1, <1>k, <2>2 DEF ClaimLease, At, Marked, Recovering, FilesWritten,
      AuthDone, TakeoverPcs
  <2> QED BY <2>2, <2>3, <2>4 DEF Told
<1>2. CASE Journal(i)
  <2>1. CASE Abandon(i, db[i].status)
    BY <1>2, <1>h, <2>1, EndTold DEF Journal
  <2>2. CASE ~Abandon(i, db[i].status)
    <3>1. /\ db'[i].journal = db[i].journal \cup {WriteRow(i)}
          /\ proc'[i].pc = "start" /\ proc'[i].mode = proc[i].mode
      BY <1>0, <1>2, <2>2 DEF Journal, TypeOK, Databases, Procs
    <3>2. Journalled(i)'
      <4>1. WriteRow(i).op = "apply" /\ WriteRow(i) \in db'[i].journal
        BY <3>1 DEF WriteRow
      <4> HIDE DEF WriteRow
      <4> QED BY <4>1 DEF Journalled
    <3>3. Marked(i)' /\ FilesWritten(i)'
      BY <1>2, <1>k, <3>1 DEF Journal, At, Marked, Recovering, FilesWritten,
        AuthDone, TakeoverPcs
    <3> QED BY <3>2, <3>3 DEF Told, Reported
  <2> QED BY <2>1, <2>2
<1>3. CASE StartWrite(i)
  <2>1. record'.pending.kind = "write"
    BY <1>0, <1>3 DEF StartWrite, Records, NoPending
  <2>2. Journalled(i)'
    BY <1>3, <1>j DEF StartWrite, At
  <2>3. PICK pc \in {"backup", "config"} : Goto(i, pc)
    BY <1>3 DEF StartWrite
  <2>4. FilesWritten(i)'
    BY <1>3, <1>g, <1>k, <2>3 DEF StartWrite, At, FilesWritten, AuthDone,
      Recovering, WritePcs
  <2> QED BY <1>h, <2>1, <2>2, <2>3, <2>4, GotoTold DEF WritePcs
<1>4. CASE Backup(i)
  <2>1. CASE \E s : Close(i, s)
    <3>1. proc[i].mode = "apply" => record.pending.kind # "none"
      BY <1>0, <1>4 DEF Backup, At, Told, Marked
    <3>2. PICK s : Close(i, s) /\ (s # "synchronized" \/ record.pending.kind # "none")
      <4>1. CASE Close(i, IF proc[i].mode = "apply" THEN db[i].status ELSE "conflict")
        BY <3>1, <4>1
      <4>2. CASE ~Close(i, IF proc[i].mode = "apply" THEN db[i].status ELSE "conflict")
        <5>1. proc'[i].pc # "idle"
          BY <1>0, <1>4, <1>g, <4>2 DEF Backup, TypeOK, Procs, WritePcs
        <5> QED BY <1>0, <2>1, <5>1, EndEffect
      <4> QED BY <4>1, <4>2
    <3> QED BY <1>4, <1>h, <3>2, EndTold DEF Backup
  <2>2. CASE ~ \E s : Close(i, s)
    <3>1. db'[i].journal = db[i].journal
      BY <1>0, <1>4, <2>2 DEF Backup, TypeOK, Databases
    <3>2. Journalled(i)'
      BY <1>4, <1>j, <3>1 DEF Backup, At
    <3>3. /\ proc'[i].pc \in {"auth", "config", "require"}
          /\ proc'[i].pc = "auth" => Recovering(i)
          /\ proc'[i].mode = proc[i].mode /\ proc'[i].kind = proc[i].kind
      BY <1>0, <1>4, <2>2, GotoEffect DEF Backup, TypeOK, Procs
    <3>4. Marked(i)'
      BY <3>3 DEF Marked, TakeoverPcs
    <3>5. ~outside.raced => FilesWritten(i)'
      BY <1>4, <1>w, <3>3 DEF Backup, At, FilesWritten, AuthDone, Recovering, Want
    <3> QED BY <1>h, <3>2, <3>4, <3>5 DEF Told, Reported
  <2> QED BY <2>1, <2>2
<1>5. CASE RequireBackup(i)
  <2>1. Journalled(i)'
    <3>1. db'[i].journal = db[i].journal
      BY <1>0, <1>5 DEF RequireBackup, TypeOK, Databases
    <3> QED BY <1>5, <1>j, <3>1 DEF RequireBackup, At
  <2>2. PICK pc \in {"auth", "config"} : Goto(i, pc) /\ (pc = "auth" => Recovering(i))
    BY <1>5 DEF RequireBackup
  <2>3. ~outside.raced => FilesWritten(i)'
    BY <1>5, <1>g, <1>w, <2>2 DEF RequireBackup, At, FilesWritten, AuthDone,
      Recovering, Want, WritePcs
  <2> QED BY <1>u, <2>1, <2>2, <2>3 DEF WritePcs
<1>6. CASE WriteConfig(i)
  <2>1. CASE Close(i, "conflict")
    BY <1>6, <1>h, <2>1, EndTold DEF WriteConfig
  <2>2. CASE ~Close(i, "conflict")
    <3>1. UNCHANGED db /\ Journalled(i)'
      BY <1>6, <1>j, <2>2 DEF WriteConfig, At
    <3>2. \/ Goto(i, "undo")
          \/ /\ config' = Want(i, proc[i].kind)
             /\ \/ Goto(i, "backup") /\ Recovering(i)
                \/ Goto(i, "auth")
      BY <1>6, <2>2 DEF WriteConfig
    <3>3. CASE Goto(i, "undo")
      <4>1. FilesWritten(i)'
        BY <1>g, <3>3 DEF FilesWritten, AuthDone, WritePcs
      <4> QED BY <1>u, <3>1, <3>3, <4>1 DEF WritePcs
    <3>4. CASE config' = Want(i, proc[i].kind) /\ Goto(i, "auth")
      <4>1. FilesWritten(i)'
        BY <1>g, <3>4 DEF FilesWritten, AuthDone, WritePcs, Want
      <4> QED BY <1>u, <3>1, <3>4, <4>1 DEF WritePcs
    <3>5. CASE config' = Want(i, proc[i].kind) /\ Goto(i, "backup") /\ Recovering(i)
      <4>1. FilesWritten(i)'
        BY <1>g, <3>5 DEF FilesWritten, AuthDone, WritePcs, Want
      <4>2. "backup" \in WritePcs /\ proc[i].mode # "apply"
        BY <3>5 DEF WritePcs, Recovering
      <4> QED BY <1>h, <3>1, <3>5, <4>1, <4>2, GotoTold
    <3> QED BY <3>2, <3>3, <3>4, <3>5
  <2> QED BY <2>1, <2>2
<1>7. CASE UndoBackup(i) \/ UndoRequire(i)
  <2>1. Journalled(i)'
    <3>1. db'[i].journal = db[i].journal
      BY <1>0, <1>7 DEF UndoBackup, UndoRequire, TypeOK, Databases
    <3> QED BY <1>7, <1>j, <3>1 DEF UndoBackup, UndoRequire, At
  <2>2. PICK pc \in {"unrequire", "fail"} : Goto(i, pc)
    BY <1>7 DEF UndoBackup, UndoRequire
  <2>3. FilesWritten(i)'
    BY <1>g, <2>2 DEF FilesWritten, AuthDone, WritePcs
  <2> QED BY <1>u, <2>1, <2>2, <2>3 DEF WritePcs
<1>9. CASE FailWrite(i)
  BY <1>9, <1>h, EndTold DEF FailWrite
<1>10. CASE WriteAuth(i)
  <2>1. CASE \E s \in {"conflict", "unavailable"} :
               (Close(i, s) \/ Abandon(i, s)) /\ UNCHANGED auth
    BY <1>10, <1>h, <2>1, EndTold DEF WriteAuth
  <2>2. CASE /\ Goto(i, IF Recovering(i) THEN "active" ELSE "finish")
             /\ UNCHANGED db
             /\ \/ Applied(i, proc[i].kind) /\ auth' = auth
                \/ auth' = [auth EXCEPT !.val = WantAuth(i, proc[i].kind)]
    <3>1. Journalled(i)'
      BY <1>10, <1>j, <2>2 DEF WriteAuth, At
    <3>2. record.owner = i /\ record.gen # 0
      BY <1>p DEF Inv, HolderOwns
    <3>3. \A j \in Instances : HasBackup(j) => db[j].backup.val # ManagedKey
      BY LoginsAssumption DEF Inv, NativeLoginRecoverable
    <3>4. auth.val = ManagedKey => HasBackup(i)
      BY <3>2 DEF Inv, NativeLoginRecoverable, HasBackup
    <3>5. auth'.val = ManagedKey <=> Managed(i)
      <4>1. CASE Applied(i, proc[i].kind) /\ auth' = auth
        BY <3>3, <3>4, <4>1 DEF Applied, Managed
      <4>2. CASE auth' = [auth EXCEPT !.val = WantAuth(i, proc[i].kind)]
        <5>1. auth'.val = WantAuth(i, proc[i].kind)
          BY <1>0, <4>2 DEF AuthFiles
        <5> QED BY <3>3, <3>4, <5>1 DEF WantAuth, Managed
      <4> QED BY <2>2, <4>1, <4>2
    <3>6. PICK pc \in {"active", "finish"} : Goto(i, pc) /\ (pc = "finish" => ~Recovering(i))
      BY <2>2
    <3>7. ~outside.raced => FilesWritten(i)'
      BY <1>10, <1>g, <1>w, <3>5, <3>6 DEF WriteAuth, At, FilesWritten, AuthDone,
        Recovering, Managed, Want, WritePcs
    <3> QED BY <1>u, <3>1, <3>6, <3>7 DEF WritePcs
  <2> QED BY <1>10, <2>1, <2>2 DEF WriteAuth
<1>11. CASE FinishWrite(i)
  <2>1. Journalled(i)'
    BY <1>11, <1>j DEF FinishWrite
  <2>2. record'.fp = Live(record.scope)'
    <3>1. record'.scope = (record.scope /\ HasBackup(i))
          /\ record'.fp = Live(record.scope /\ HasBackup(i))
      BY <1>0, <1>11 DEF FinishWrite, Settled, Records
    <3> QED BY <1>11, <3>1 DEF FinishWrite, Live
  <2>3. PICK pc \in {"drop", "complete", "active"} :
          /\ Goto(i, pc)
          /\ pc = "drop" => proc[i].pc = "finish"
          /\ pc = "complete" => proc[i].pc = "seal" \/ Recovering(i)
    BY <1>11 DEF FinishWrite, At
  <2>4. ~outside.raced => FilesWritten(i)'
    BY <1>11, <1>g, <1>w, <2>2, <2>3 DEF FinishWrite, FilesWritten, AuthDone,
      Recovering, Managed, Want, WritePcs
  <2> QED BY <1>u, <2>1, <2>3, <2>4 DEF WritePcs
<1>12. CASE DropBackup(i) \/ DropRequire(i)
  <2>1. db'[i].journal = db[i].journal /\ db'[i].active = db[i].active
    BY <1>0, <1>12 DEF DropBackup, DropRequire, TypeOK, Databases
  <2>2. Journalled(i)'
    BY <1>12, <1>j, <2>1 DEF DropBackup, DropRequire, At
  <2>3. PICK pc \in {"undrop", "refinish"} : Goto(i, pc)
    BY <1>12 DEF DropBackup, DropRequire
  <2>4. ~outside.raced => FilesWritten(i)'
    BY <1>12, <1>g, <1>w, <2>1, <2>3 DEF DropBackup, DropRequire, At, FilesWritten,
      AuthDone, Recovering, Managed, Want, WritePcs
  <2> QED BY <1>u, <2>2, <2>3, <2>4 DEF WritePcs
<1>14. CASE SetActive(i)
  <2>1. db'[i].journal = db[i].journal /\ db'[i].active = proc[i].kind
    BY <1>0, <1>14 DEF SetActive, TypeOK, Databases
  <2>2. Journalled(i)'
    BY <1>14, <1>j, <2>1 DEF SetActive, At
  <2>3. PICK pc \in {"finish", "seal"} : Goto(i, pc)
    BY <1>14 DEF SetActive
  <2>4. ~outside.raced => FilesWritten(i)'
    BY <1>14, <1>g, <1>w, <2>1, <2>3 DEF SetActive, At, FilesWritten,
      AuthDone, Recovering, Managed, Want, WritePcs
  <2> QED BY <1>u, <2>2, <2>3, <2>4 DEF WritePcs
<1>15. CASE CompleteWrite(i)
  <2>1. proc'[i].pc = "idle" /\ UNCHANGED <<config, auth, record>>
    BY <1>0, <1>15, EndEffect DEF CompleteWrite
  <2>2. db'[i].active = db[i].active
    BY <1>0, <1>15 DEF CompleteWrite, Close, TypeOK, Databases
  <2>3. ~outside.raced => ShowsActive(i)'
    <3> SUFFICES ASSUME ~outside.raced PROVE ShowsActive(i)'
      OBVIOUS
    <3>1. /\ config = Want(i, proc[i].kind) /\ (auth.val = ManagedKey <=> Managed(i))
          /\ db[i].active = proc[i].kind /\ record.fp = Live(record.scope)
      BY <1>15, <1>w DEF CompleteWrite, At, FilesWritten, AuthDone
    <3>2. record.fp.cfg = config /\ (record.scope => record.fp.auth = auth.val)
      BY <3>1 DEF Live
    <3> QED BY <2>1, <2>2, <3>1, <3>2 DEF ShowsActive, Want, Native, Managed
  <2> QED BY <1>h, <2>1, <2>3, IdleTold
<1> QED
  BY <1>1, <1>2, <1>3, <1>4, <1>5, <1>6, <1>7, <1>9, <1>10, <1>11, <1>12,
     <1>14, <1>15 DEF WriteStep

\* Nobody writes: reports change only for the worse.
LEMMA QuietTold ==
  ASSUME Inv, QuietEffect, StatusIsShown, UNCHANGED outside, ~EditConfig
  PROVE  StatusIsShown'
<1>1. /\ UNCHANGED <<record, config>> /\ auth'.val = auth.val
      /\ \A i \in Instances : db'[i].active = db[i].active
  BY DEF QuietEffect
<1>2. NewIsOfficial'
  BY <1>1 DEF StatusIsShown, NewIsOfficial
<1>3. ASSUME NEW i \in Instances PROVE Told(i)'
  <2>1. Told(i)
    BY DEF StatusIsShown
  <2>2. CASE db'[i].status = "conflict" /\ proc'[i].pc = "idle"
    BY <2>2, IdleTold DEF Reported
  <2>3. CASE db'[i] = db[i] /\ proc'[i].pc = "idle"
    BY <1>1, <2>1, <2>3, IdleTold, SameShown DEF Journalled
  <2>4. CASE db'[i] = db[i] /\ proc'[i] = proc[i]
    <3>1. outside'.raced \/ (Reported(i)' => ShowsActive(i)')
      BY <1>1, <2>1, <2>4, SameShown DEF Journalled
    <3>2. Marked(i)'
      BY <1>1, <2>1, <2>4 DEF Told, Marked, Recovering
    <3>3. ~outside.raced => FilesWritten(i)'
      BY <1>1, <2>1, <2>4 DEF Told, FilesWritten, Recovering, Managed, Want, Live
    <3> QED BY <2>1, <2>4, <3>1, <3>2, <3>3 DEF Told, Journalled
  <2> QED BY <2>2, <2>3, <2>4 DEF QuietEffect
<1> QED
  BY <1>2, <1>3 DEF StatusIsShown

\* A change of the client's own that races nobody leaves the record as it is,
\* and auth.json without the key wherever the record does not cover it.
LEMMA ClientTold ==
  ASSUME Inv, StatusIsShown, (\E v \in Logins : Login(v)) \/ EditConfig
  PROVE  StatusIsShown'
<1>0. TypeOK /\ auth \in AuthFiles
  BY DEF Inv, TypeOK
<1>1. /\ UNCHANGED <<record, lock, db, proc>>
      /\ outside.raced => outside'.raced
  BY <1>0 DEF Login, EditConfig, TypeOK
<1>2. NewIsOfficial'
  BY <1>1 DEF StatusIsShown, NewIsOfficial
<1>3. ASSUME NEW i \in Instances PROVE Told(i)'
  <2>0. Told(i)
    BY DEF StatusIsShown
  <2>1. /\ proc'[i].pc \in WritePcs \ {"lease", "journal"} => Journalled(i)'
        /\ Marked(i)'
    BY <1>1, <2>0 DEF Told, Marked, Journalled, Recovering
  <2>2. CASE outside'.raced
    BY <2>1, <2>2 DEF Told
  <2>3. CASE ~outside'.raced
    <3>1. Moment = "covered" /\ ~outside.raced
      <4>1. CASE EditConfig
        BY <1>0, <2>3, <4>1 DEF EditConfig, TypeOK
      <4>2. ASSUME NEW v \in Logins, Login(v)
            PROVE  Moment = "covered" /\ ~outside.raced
        <5>1. outside'.raced = (outside.raced \/ LoginMoment(v) # "covered")
          BY <4>2 DEF Login
        <5> QED BY <2>3, <5>1 DEF LoginMoment
      <4> QED BY <4>1, <4>2
    <3>2. lock = NoInst
      BY <3>1 DEF Moment
    <3>3. proc'[i].pc = "idle"
      BY <1>1, <3>2, InstancesAssumption DEF Inv, LockHeld
    <3>4. Reported(i)' => ShowsActive(i)'
      <4>1. CASE auth'.val = auth.val
        BY <1>1, <2>0, <2>3, <4>1, SameShown DEF Journalled
      <4>2. CASE auth'.val # auth.val
        <5>1. auth'.val # ManagedKey
          BY <1>0, <4>2, LoginsAssumption DEF Login, EditConfig, AuthFiles
        <5>2. CASE record.owner # i
          BY <1>1, <5>2 DEF Reported
        <5>3. CASE record.owner = i /\ ~record.scope
          <6>1. ~HasBackup(i)
            BY <3>1, <5>3 DEF Moment
          <6>2. auth.val # ManagedKey
            <7>1. record.gen # 0
              BY <5>3, InstancesAssumption DEF Inv, Reservation
            <7> QED BY <5>3, <6>1, <7>1 DEF Inv, NativeLoginRecoverable, HasBackup
          <6>3. Reported(i) => ShowsActive(i)
            BY <2>0, <3>1 DEF Told
          <6> QED BY <1>1, <5>1, <5>3, <6>2, <6>3 DEF Reported, ShowsActive, Journalled, Want
        <5>4. CASE record.scope
          <6>3. Reported(i) => ShowsActive(i)
            BY <2>0, <3>1 DEF Told
          <6> QED BY <1>1, <5>4, <6>3 DEF Reported, ShowsActive, Journalled, Want
        <5> QED BY <5>2, <5>3, <5>4
      <4> QED BY <4>1, <4>2
    <3> QED BY <3>3, <3>4, IdleTold
  <2> QED BY <2>2, <2>3
<1> QED
  BY <1>2, <1>3 DEF StatusIsShown

\* A takeover ends with nothing managed.
LEMMA TakeoverTold ==
  ASSUME Inv, NEW i \in Instances, StatusIsShown,
         TakeLease(i) \/ TakeReceipt(i) \/ ClearTakeover(i)
  PROVE  Told(i)'
<1>0. /\ TypeOK /\ db[i] \in Databases /\ record \in Records /\ Told(i)
  BY DEF Inv, TypeOK, StatusIsShown
<1>1. CASE TakeLease(i) \/ TakeReceipt(i)
  <2>1. record.pending.kind = "takeover" /\ UNCHANGED record
    BY <1>0, <1>1 DEF TakeLease, TakeReceipt, At, Told, Marked, TakeoverPcs
  <2>2. proc'[i].pc \in {"treceipt", "tclear"}
    BY <1>0, <1>1, GotoEffect DEF TakeLease, TakeReceipt
  <2>3. proc'[i].pc = "tclear" => db'[i].status = "unmanaged"
    BY <1>0, <1>1, GotoEffect DEF TakeLease, TakeReceipt, TypeOK, Databases
  <2> QED BY <2>1, <2>2, <2>3 DEF Told, Marked, FilesWritten, Reported, AuthDone,
        WritePcs, TakeoverPcs
<1>2. CASE ClearTakeover(i)
  <2>1. proc'[i].pc = "idle" /\ db'[i].status = "unmanaged"
    BY <1>0, <1>2, ReturnEffect DEF ClearTakeover, At, Told, Marked
  <2> QED BY <2>1, IdleTold DEF Reported
<1> QED
  BY <1>1, <1>2

\* A release takes the record out of use before it touches a file.
LEMMA ReleaseTold ==
  ASSUME Inv, NEW i \in Instances, StatusIsShown, ReleaseStep(i)
  PROVE  StatusIsShown'
<1>0. /\ TypeOK /\ db[i] \in Databases /\ record \in Records /\ NoInst \notin Instances
      /\ \A j \in Instances : Told(j)
  BY InstancesAssumption DEF Inv, TypeOK, StatusIsShown
<1>1. /\ outside' = outside /\ proc[i].pc \in ReleasePcs
      /\ \A j \in Instances \ {i} : db'[j] = db[j] /\ proc'[j] = proc[j]
  <2>1. outside' = outside /\ proc[i].pc \in ReleasePcs
    BY DEF ReleaseStep, JournalRelease, PendRelease, RestoreConfig, RestoreAuth,
      Reserve, Receipt, DropLease, DropReleasedBackup, DropReleasedRequire,
      FinishRelease, At, ReleasePcs
  <2>2. CASE Reserve(i)
    BY <1>0, <2>1, <2>2, GotoEffect DEF Reserve
  <2>3. CASE ~Reserve(i)
    BY <2>1, <2>3, ReleaseStepEffect DEF ReleaseEffect, OthersStay
  <2> QED BY <2>2, <2>3
<1>2. \A j \in Instances \ {i} : proc'[j].pc = "idle"
  BY <1>0, <1>1 DEF Inv, LockHeld, ReleasePcs
<1>a. db'[i].active = db[i].active
  BY <1>0 DEF ReleaseStep, JournalRelease, PendRelease, RestoreConfig, RestoreAuth,
    Reserve, Receipt, DropLease, DropReleasedBackup, DropReleasedRequire,
    FinishRelease, TypeOK, Databases
<1>b. Journalled(i) => Journalled(i)'
  <2>1. \A op \in db[i].journal : op.op = "apply" => op \in db'[i].journal
    BY <1>0 DEF ReleaseStep, JournalRelease, PendRelease, RestoreConfig,
      RestoreAuth, Reserve, Receipt, DropLease, DropReleasedBackup,
      DropReleasedRequire, FinishRelease, ReleaseOp, TypeOK, Databases
  <2> QED BY <2>1 DEF Journalled
<1>3. \/ UNCHANGED record /\ auth'.val = auth.val
      \/ record'.owner = NoInst
      \/ record.owner = i /\ record'.owner = i
           /\ record'.pending.kind = "release"
  <2>1. CASE PendRelease(i) \/ RestoreAuth(i)
    <3>1. record.owner = i
      BY <2>1 DEF Inv, HolderOwns, PendRelease, RestoreAuth, At, EarlyPcs
    <3>2. record'.owner = record.owner /\ record'.pending.kind = "release"
      BY <1>0, <2>1 DEF PendRelease, RestoreAuth, At, Records, Told, Marked
    <3> QED BY <3>1, <3>2
  <2>2. CASE Reserve(i)
    BY <2>2 DEF Reserve, Unclaimed
  <2>3. CASE ~(PendRelease(i) \/ RestoreAuth(i) \/ Reserve(i))
    BY <2>3 DEF ReleaseStep, JournalRelease, RestoreConfig, Receipt, DropLease,
      DropReleasedBackup, DropReleasedRequire, FinishRelease
  <2> QED BY <2>1, <2>2, <2>3
<1>4. NewIsOfficial'
  <2>1. record'.gen = 0 => record.gen = 0
    BY <1>0 DEF ReleaseStep, JournalRelease, PendRelease, RestoreConfig,
      RestoreAuth, Reserve, Receipt, DropLease, DropReleasedBackup,
      DropReleasedRequire, FinishRelease, Unclaimed, Records
  <2>2. \A j \in Instances : db'[j].active = db[j].active
    BY <1>1, <1>a
  <2> QED BY <2>1, <2>2 DEF StatusIsShown, NewIsOfficial
<1>5. ASSUME NEW j \in Instances \ {i} PROVE Told(j)'
  <2>1. CASE UNCHANGED record /\ auth'.val = auth.val
    BY <1>0, <1>1, <1>2, <2>1, IdleTold, SameShown DEF Journalled
  <2>2. CASE record'.owner # j
    BY <1>2, <2>2, IdleTold DEF Reported
  <2> QED BY <1>0, <1>3, <2>1, <2>2
<1>6. Told(i)'
  <2>1. proc'[i].pc \in ReleasePcs \cup {"idle"}
    <3>1. CASE Reserve(i)
      BY <1>0, <3>1, GotoEffect DEF Reserve, ReleasePcs
    <3>2. CASE ~Reserve(i)
      BY <3>2, ReleaseStepEffect DEF ReleaseEffect, EarlyPcs, LatePcs, ReleasePcs
    <3> QED BY <3>1, <3>2
  <2>2. proc'[i].pc \in {"rconfig", "rauth", "reserve"} => record'.pending.kind = "release"
    BY <1>0, GotoEffect, ReturnEffect
    DEF ReleaseStep, JournalRelease, PendRelease, RestoreConfig, RestoreAuth,
      Reserve, Receipt, DropLease, DropReleasedBackup, DropReleasedRequire,
      FinishRelease, At, Told, Marked, Records
  <2>3. outside'.raced \/ (Reported(i)' => ShowsActive(i)')
    <3>1. CASE UNCHANGED record /\ auth'.val = auth.val
      <4>1. db'[i].status \in {db[i].status, "unmanaged", "conflict"}
        BY <1>0 DEF ReleaseStep, JournalRelease, PendRelease, RestoreConfig,
          RestoreAuth, Reserve, Receipt, DropLease, DropReleasedBackup,
          DropReleasedRequire, FinishRelease, TypeOK, Databases
      <4>2. CASE db'[i].status = db[i].status
        BY <1>0, <1>1, <1>a, <1>b, <3>1, <4>2, SameShown
      <4>3. CASE db'[i].status # db[i].status
        BY <4>1, <4>3 DEF Reported
      <4> QED BY <4>2, <4>3
    <3>2. CASE record'.owner = NoInst \/ record'.pending.kind = "release"
      BY <1>0, <3>2 DEF Reported
    <3> QED BY <1>3, <3>1, <3>2
  <2> QED BY <2>1, <2>2, <2>3 DEF Told, Marked, FilesWritten, AuthDone, WritePcs,
        TakeoverPcs, ReleasePcs
<1> QED
  BY <1>4, <1>5, <1>6 DEF StatusIsShown

\* An instance starts to write: the others are idle.
LEMMA StartTold ==
  ASSUME StatusIsShown, NEW i \in Instances, Told(i)',
         \A j \in Instances \ {i} :
           /\ proc'[j].pc = "idle" /\ db'[j] = db[j]
           /\ UNCHANGED record \/ record'.owner # j,
         UNCHANGED <<auth, outside>>, NewIsOfficial'
  PROVE  StatusIsShown'
<1>1. ASSUME NEW j \in Instances \ {i} PROVE Told(j)'
  <2>1. Told(j)
    BY DEF StatusIsShown
  <2>2. CASE UNCHANGED record
    BY <2>1, <2>2, IdleTold, SameShown DEF Journalled
  <2>3. CASE record'.owner # j
    BY <2>3, IdleTold DEF Reported
  <2> QED BY <2>2, <2>3
<1> QED
  BY <1>1 DEF StatusIsShown

LEMMA ClaimTold ==
  ASSUME Inv, StatusIsShown, NEW i \in Instances, NEW r \in Requests,
         Claim(i, r), CanClaim(i, r)
  PROVE  StatusIsShown'
<1>0. TypeOK /\ record.gen \in Nat /\ record'.gen \in Nat
  BY DEF Inv, TypeOK, Records, Claim
<1>1. /\ UNCHANGED <<auth, outside, db>>
      /\ record'.owner = i /\ record'.pending.kind = "takeover"
      /\ record'.gen = 0 => record.gen = 0
      /\ \A j \in Instances : proc[j].pc = "idle"
  BY <1>0, InstancesAssumption DEF Claim, CanClaim, Inv, LockHeld
<1>2. proc'[i].pc = "tlease" /\ \A j \in Instances \ {i} : proc'[j] = proc[j]
  <2>1. proc' = [proc EXCEPT ![i] =
          [IdleProc EXCEPT !.mode = "takeover", !.pc = "tlease", !.req = r]]
    BY DEF Claim
  <2> QED BY <1>0, <2>1 DEF TypeOK, IdleProc
<1>3. Told(i)'
  BY <1>1, <1>2 DEF Told, Marked, FilesWritten, Reported, AuthDone, WritePcs,
    TakeoverPcs
<1>4. NewIsOfficial'
  BY <1>1 DEF StatusIsShown, NewIsOfficial
<1> QED
  BY <1>1, <1>2, <1>3, <1>4, StartTold

LEMMA BeginTold ==
  ASSUME Inv, StatusIsShown, NEW i \in Instances, NEW m \in BOOLEAN, NEW o \in Procs,
         Begin(i, m, o), o.mode # "recover", UNCHANGED <<config, auth, outside>>
  PROVE  StatusIsShown'
<1>0. /\ TypeOK /\ record.gen \in Nat /\ record \in Records /\ db[i] \in Databases
      /\ Told(i)
  BY DEF Inv, TypeOK, Records, StatusIsShown
<1>1. \A j \in Instances : proc[j].pc = "idle"
  BY InstancesAssumption DEF Inv, LockHeld, Begin, CanBegin
<1>2. /\ proc'[i].pc \in {"lease", "journal"} /\ proc'[i].mode # "recover"
      /\ \A j \in Instances \ {i} : proc'[j] = proc[j]
  <2>1. PICK pc \in {"lease", "journal"} :
          proc' = [proc EXCEPT ![i] = [o EXCEPT !.pc = pc]]
    BY DEF Begin
  <2>2. [o EXCEPT !.pc = pc].pc = pc /\ [o EXCEPT !.pc = pc].mode = o.mode
    BY DEF Procs
  <2> QED BY <1>0, <2>1, <2>2 DEF TypeOK
<1>a. ASSUME outside.raced \/ (Reported(i)' => ShowsActive(i)') PROVE Told(i)'
  BY <1>2, <1>a DEF Told, Marked, FilesWritten, Recovering, AuthDone, WritePcs,
    TakeoverPcs
<1>3. CASE record.gen = 0
  <2>1. /\ record' = [Unclaimed(db[i].lease + 1, FALSE) EXCEPT !.owner = i]
        /\ db' = db
    BY <1>3 DEF Begin
  <2>2. /\ record'.owner = i /\ record'.scope = FALSE
        /\ record'.fp = Live(FALSE) /\ record'.gen = db[i].lease + 1
    BY <2>1 DEF Unclaimed
  <2>3. db[i].active = "official"
    BY <1>3 DEF StatusIsShown, NewIsOfficial
  <2>4. config.by = NoInst /\ record.owner = NoInst
    BY <1>3 DEF Inv, Reservation, Begin, CanBegin, Problem
  <2>5. auth.val # ManagedKey
    BY <2>4, OwnedWhileManaged, InstancesAssumption
  <2>a. record'.fp.cfg = config
    BY <2>2 DEF Live
  <2>b. db'[i].active = "official" /\ auth'.val # ManagedKey
    BY <2>1, <2>3, <2>5
  <2>6. ShowsActive(i)'
    BY <2>2, <2>4, <2>a, <2>b DEF ShowsActive
  <2>7. record'.gen # 0
    BY <1>0, <2>2 DEF Databases
  <2> QED BY <1>1, <1>2, <1>a, <2>1, <2>2, <2>6, <2>7, StartTold DEF NewIsOfficial
<1>4. CASE record.gen # 0
  <2>1. record' = record /\ db' = [db EXCEPT ![i].lease = record.gen]
    BY <1>4 DEF Begin
  <2>2. /\ db'[i].active = db[i].active /\ db'[i].status = db[i].status
        /\ db'[i].journal = db[i].journal
        /\ \A j \in Instances \ {i} : db'[j] = db[j]
    BY <1>0, <2>1 DEF TypeOK, Databases
  <2>3. Told(i)'
    BY <1>0, <1>a, <2>1, <2>2, SameShown DEF Journalled
  <2>4. NewIsOfficial'
    BY <1>4, <2>1 DEF NewIsOfficial
  <2> QED BY <1>1, <1>2, <2>1, <2>2, <2>3, <2>4, StartTold
<1> QED
  BY <1>3, <1>4

LEMMA RecoverTold ==
  ASSUME Inv, StatusIsShown, NEW i \in Instances, NEW op \in NextOp(i),
         RecoverWrite(i, op)
  PROVE  StatusIsShown'
<1>0. TypeOK
  BY DEF Inv
<1>1. /\ UNCHANGED <<config, auth, record, db, outside>>
      /\ \A j \in Instances : proc[j].pc = "idle"
  BY InstancesAssumption DEF Inv, LockHeld, RecoverWrite, CanRecover, CanBegin
<1>2. /\ proc'[i].pc \in {"config", "backup", "auth"}
      /\ proc'[i].pc # "config" => config = Want(i, op.kind)
      /\ proc'[i].mode = "recover" /\ proc'[i].kind = op.kind
      /\ \A j \in Instances \ {i} : proc'[j] = proc[j]
  <2>1. ASSUME NEW pc,
               proc' = [proc EXCEPT ![i] =
                 [IdleProc EXCEPT
                   !.phase = "recover", !.mode = "recover", !.kind = op.kind,
                   !.preserve = op.preserve,
                   !.cfg = op.cfg, !.auth = op.auth, !.id = op.id, !.pc = pc]]
        PROVE  /\ proc'[i].pc = pc
               /\ proc'[i].mode = "recover" /\ proc'[i].kind = op.kind
               /\ \A j \in Instances \ {i} : proc'[j] = proc[j]
    BY <1>0, <2>1 DEF TypeOK, IdleProc
  <2> DEFINE pc == IF config = op.cfg THEN "config"
                   ELSE IF op.kind = "managed" THEN "backup" ELSE "auth"
  <2>2. /\ proc'[i].pc = pc
        /\ proc'[i].mode = "recover" /\ proc'[i].kind = op.kind
        /\ \A j \in Instances \ {i} : proc'[j] = proc[j]
    BY <2>1 DEF RecoverWrite
  <2>3. config \in {op.cfg, Want(i, op.kind)}
    BY DEF RecoverWrite, CanRecover
  <2> QED BY <2>2, <2>3
<1>3. Journalled(i)'
  BY <1>1 DEF NextOp, RecoverWrite, Journalled
<1>4. Told(i)'
  BY <1>1, <1>2, <1>3 DEF Told, Marked, FilesWritten, Reported, AuthDone,
    Recovering, Want, WritePcs, TakeoverPcs
<1> QED
  BY <1>1, <1>2, <1>4, StartTold DEF StatusIsShown, NewIsOfficial

LEMMA StartReleaseTold ==
  ASSUME Inv, StatusIsShown, NEW i \in Instances, NEW r \in Requests,
         NEW phase \in Phases, NEW id \in Nat, StartRelease(i, r, phase, id),
         UNCHANGED <<config, auth, record, db, outside>>
  PROVE  StatusIsShown'
<1>0. TypeOK /\ Told(i)
  BY DEF Inv, StatusIsShown
<1>1. \A j \in Instances : proc[j].pc = "idle"
  BY InstancesAssumption DEF Inv, LockHeld, StartRelease, CanServe
<1>2. /\ proc'[i].pc \in {"unlease", "rjournal"}
      /\ \A j \in Instances \ {i} : proc'[j] = proc[j]
  <2>1. PICK mode \in {"complete", "release"}, pc \in {"unlease", "rjournal"} :
          proc' = [proc EXCEPT ![i] =
            [IdleProc EXCEPT !.phase = phase, !.id = id, !.req = r,
                             !.mode = mode, !.pc = pc]]
    BY DEF StartRelease
  <2> QED BY <1>0, <2>1 DEF TypeOK, IdleProc
<1>3. outside'.raced \/ (Reported(i)' => ShowsActive(i)')
  BY <1>0, SameShown DEF Journalled
<1>4. Told(i)'
  BY <1>2, <1>3 DEF Told, Marked, FilesWritten, AuthDone, WritePcs, TakeoverPcs
<1> QED
  BY <1>1, <1>2, <1>4, StartTold DEF StatusIsShown, NewIsOfficial

LEMMA StatusStep == ASSUME Inv, Next, StatusIsShown PROVE StatusIsShown'
<1>1. CASE (\E v \in Logins : Login(v)) \/ EditConfig
  BY <1>1, ClientTold
<1>2. CASE ~((\E v \in Logins : Login(v)) \/ EditConfig)
  <2>1. outside' = outside
    BY <1>2, OutsideEffect
  <2>2. CASE QuietEffect
    BY <1>2, <2>1, <2>2, QuietTold
  <2>3. ASSUME NEW i \in Instances, WriteStep(i) PROVE StatusIsShown'
    BY <2>3, WriteEffect, WriteTold, OwnerTold
  <2>4. ASSUME NEW i \in Instances,
               TakeLease(i) \/ TakeReceipt(i) \/ ClearTakeover(i)
        PROVE  StatusIsShown'
    BY <2>4, TakeoverEffect, TakeoverTold, OwnerTold
  <2>5. ASSUME NEW i \in Instances, ReleaseStep(i) PROVE StatusIsShown'
    BY <2>5, ReleaseTold
  <2>6. ASSUME NEW i \in Instances, NEW r \in Requests, Claim(i, r), CanClaim(i, r)
        PROVE  StatusIsShown'
    BY <2>6, ClaimTold
  <2>7. ASSUME NEW i \in Instances, NEW m \in BOOLEAN, NEW o \in Procs,
               Begin(i, m, o), o.mode # "recover", UNCHANGED <<config, auth>>
        PROVE  StatusIsShown'
    BY <2>1, <2>7, BeginTold
  <2>8. ASSUME NEW i \in Instances, NEW op \in NextOp(i), RecoverWrite(i, op)
        PROVE  StatusIsShown'
    BY <2>8, RecoverTold
  <2>9. ASSUME NEW i \in Instances, NEW r \in Requests, NEW phase \in Phases,
               NEW id \in Nat, StartRelease(i, r, phase, id),
               UNCHANGED <<config, auth, record, db>>
        PROVE  StatusIsShown'
    BY <2>1, <2>9, StartReleaseTold
  <2> QED BY <2>2, <2>3, <2>4, <2>5, <2>6, <2>7, <2>8, <2>9, NextEffect
<1> QED
  BY <1>1, <1>2

-----------------------------------------------------------------------------
(* The two promises to the user.                                           *)

(* FullInv is inductive: it adds to Inv where the last covered login is,    *)
(* what may be put over it, and what the saga has done to both files.      *)
THEOREM FullInvariance == Spec => []FullInv
<1> DEFINE More == BackupsPast /\ LoginIsSafe /\ StatusIsShown
<1>1. Init => More
  <2> SUFFICES ASSUME Init PROVE More
    OBVIOUS
  <2>1. /\ record.gen = 0 /\ record.owner = NoInst
        /\ auth.val = FirstLogin /\ outside.login = FirstLogin
        /\ \A i \in Instances :
             db[i].backup.gen = 0 /\ db[i].active = "official" /\ proc[i].pc = "idle"
    BY DEF Init, NoBackup, IdleProc
  <2>2. BackupsPast /\ LoginIsSafe
    BY <2>1, InstancesAssumption DEF BackupsPast, LoginIsSafe
  <2>3. StatusIsShown
    BY <2>1, InstancesAssumption DEF StatusIsShown, NewIsOfficial, Told, Marked,
      FilesWritten, Reported, AuthDone, WritePcs, TakeoverPcs
  <2> QED BY <2>2, <2>3
<1>2. ASSUME Inv, Inv', More, [Next]_vars PROVE More'
  <2>1. CASE Next
    BY <1>2, <2>1, BackupsPastStep, LoginIsSafeStep, StatusStep
  <2>2. CASE UNCHANGED vars
    <3>1. BackupsPast' /\ LoginIsSafe'
      BY <1>2, <2>2 DEF vars, BackupsPast, LoginIsSafe, Refused
    <3>2. NewIsOfficial'
      BY <1>2, <2>2 DEF vars, StatusIsShown, NewIsOfficial
    <3>3. ASSUME NEW i \in Instances PROVE Told(i)'
      BY <1>2, <2>2 DEF vars, StatusIsShown, Told, Marked, FilesWritten, Reported,
        ShowsActive, Journalled, Recovering, Managed, Want, Live
    <3> QED BY <3>1, <3>2, <3>3 DEF StatusIsShown
  <2> QED BY <1>2, <2>1, <2>2
<1>3. Inv /\ More => FullInv
  BY DEF FullInv
<1> HIDE DEF More
<1> QED
  BY <1>1, <1>2, <1>3, Invariance, PTL DEF Spec

(* A login made while hsin is at rest and its record covers auth.json is   *)
(* never lost, whoever switches, hands over, crashes or recovers later: it *)
(* is in auth.json or in the backup of the instance that put the key there. *)
THEOREM CoveredLoginsAreKept == Spec => []CoveredLoginIsKept
<1>1. FullInv => CoveredLoginIsKept
  <2>1. \A i \in Instances :
          db[i].backup = [val |-> outside.login, gen |-> record.gen] =>
            db[i].backup.val = outside.login
    OBVIOUS
  <2> QED BY <2>1 DEF FullInv, LoginIsSafe, CoveredLoginIsKept, LoginSurvives
<1> QED
  BY <1>1, FullInvariance, PTL

(* The status users see is true, after any crash, recovery and hand-over:  *)
(* an owner that reports its active provider as synchronized, with no drift *)
(* and no interrupted operation, has it in config.toml and in auth.json,   *)
(* unless an outside change raced one of the transactions.                 *)
THEOREM StatusIsTrue == Spec => []SynchronizedIsTrue
<1>1. FullInv => SynchronizedIsTrue
  <2> SUFFICES ASSUME FullInv, NEW i \in Instances,
                      db[i].status = "synchronized", db[i].journal = {},
                      record.owner = i, ~Problem, ~outside.raced
               PROVE  /\ IF db[i].active = "official" THEN config.by = NoInst
                         ELSE config = Want(i, db[i].active)
                      /\ (auth.val = ManagedKey) = (db[i].active = "managed")
    BY DEF SynchronizedIsTrue
  <2>1. record.gen # 0
    BY InstancesAssumption DEF FullInv, Inv, Reservation
  <2>2. record.pending.kind = "none" /\ Live(record.scope) = record.fp
    BY <2>1 DEF Problem
  <2>3. record.fp.cfg = config /\ (record.scope => record.fp.auth = auth.val)
    BY <2>2 DEF Live
  <2>4. ShowsActive(i)
    BY <2>2 DEF FullInv, StatusIsShown, Told, Reported, Journalled
  <2> QED BY <2>3, <2>4 DEF ShowsActive
<1> QED
  BY <1>1, FullInvariance, PTL

-----------------------------------------------------------------------------
(* Nothing that an operation leaves behind refuses the next one.           *)

\* Where no crash is allowed none happens, and no instance is ever down.
LEMMA NoCrashStays ==
  ASSUME TypeOK, Next, budget["crash"] = 0
  PROVE  budget'["crash"] = 0 /\ \A i \in Instances : ~Crash(i)
<1> DEFINE Kept == UNCHANGED budget \/ \E e \in Events : Spend(e)
<1>1. Kept
  <2>0. {"switch", "crash", "login", "refresh", "edit", "fail"} = Events
    BY DEF Events
  <2>1. ASSUME NEW i \in Instances, WriteStep(i) PROVE Kept
    BY <2>1 DEF WriteStep, ClaimLease, Journal, StartWrite, Backup, RequireBackup,
      WriteConfig, UndoBackup, UndoRequire, FailWrite, WriteAuth, FinishWrite,
      DropBackup, DropRequire, SetActive, CompleteWrite
  <2>2. ASSUME NEW i \in Instances, ReleaseStep(i) PROVE Kept
    BY <2>2 DEF ReleaseStep, JournalRelease, PendRelease, RestoreConfig,
      RestoreAuth, Reserve, Receipt, DropLease, DropReleasedBackup,
      DropReleasedRequire, FinishRelease
  <2>3. ASSUME NEW i \in Instances, TakeoverStep(i) PROVE Kept
    BY <2>3 DEF TakeoverStep, TakeLease, TakeReceipt, ClearTakeover, Unreachable,
      Claim, FinishTakeover
  <2>4. ASSUME NEW i \in Instances, StartStep(i) PROVE Kept
    BY <2>0, <2>4 DEF StartStep, RecoverWrite, RejectRecovery, EndRecovery,
      Reconcile, SkipReconcile
  <2>5. ASSUME NEW i \in Instances, Daemon(i) PROVE Kept
    BY <2>0, <2>1, <2>2, <2>3, <2>4, <2>5
    DEF Daemon, RecoverRelease, ServeRelease, ServeStray
  <2>6. CASE User \/ Retry
    BY <2>0, <2>6 DEF User, Retry, Switch, RequestTakeover, RetryTakeover
  <2>7. CASE Environment
    BY <2>0, <2>7 DEF Environment, Crash, Login, Refresh, EditConfig, LoseCall
  <2> HIDE DEF Kept
  <2> QED BY <2>5, <2>6, <2>7 DEF Next, Kept, Restart
<1>2. ASSUME NEW e \in Events, Spend(e) PROVE e # "crash" /\ budget'["crash"] = 0
  BY <1>2 DEF TypeOK, Events, Spend
<1>3. budget'["crash"] = 0
  BY <1>1, <1>2
<1>4. \A i \in Instances : ~Crash(i)
  BY <1>2 DEF Crash, Events
<1> QED
  BY <1>3, <1>4

\* A step of the owner keeps what the marker says of its backup.
LEMMA OwnerLeaves ==
  ASSUME Inv, NothingIsLeft, NEW i \in Instances, OwnerEffect(i),
         HasBackup(i)' => db'[i].backup.gen = record.gen,
         record.gen \in db'[i].required =>
           HasBackup(i)' \/ proc'[i].pc \in {"unrequire", "undrop"},
         \A g \in db'[i].required : g \in db[i].required \/ g = record.gen
  PROVE  NothingIsLeft'
<1>0. TypeOK /\ record \in Records /\ record.gen \in Nat
  BY DEF Inv, TypeOK, Records
<1>1. /\ lock = i /\ record.owner = i
      /\ \A j \in Instances \ {i} : proc[j].pc = "idle"
  BY InstancesAssumption DEF Inv, LockHeld, HolderOwns, OwnerEffect, WritePcs,
    TakeoverPcs
<1>2. /\ record'.owner = i /\ record'.gen = record.gen
      /\ \A j \in Instances \ {i} : db'[j] = db[j] /\ proc'[j] = proc[j]
      /\ proc'[i].pc \notin EarlyPcs /\ proc'[i].phase # "down"
  BY <1>1 DEF OwnerEffect, OthersStay, EarlyPcs, WritePcs, TakeoverPcs, NothingIsLeft
<1>3. ASSUME NEW j \in Instances \ {i}
      PROVE  /\ ~HasBackup(j)' /\ proc'[j].phase # "down"
             /\ proc'[j].pc \in EarlyPcs => proc'[j].mode = "release"
             /\ \A g \in db'[j].required : g <= record.gen
  BY <1>1, <1>2 DEF NothingIsLeft, HasBackup
<1>4. \A g \in db'[i].required : g <= record.gen
  BY <1>0 DEF NothingIsLeft
<1> QED
  BY <1>2, <1>3, <1>4 DEF NothingIsLeft

LEMMA WriteLeaves ==
  ASSUME Inv, NothingIsLeft, NEW i \in Instances, WriteStep(i)
  PROVE  NothingIsLeft'
<1>0. TypeOK /\ db[i] \in Databases /\ record \in Records /\ record.gen \in Nat
  BY DEF Inv, TypeOK, Records
<1>1. OwnerEffect(i)
  BY WriteEffect
<1>2. record.owner = i /\ record.gen # 0
  BY <1>1 DEF Inv, HolderOwns, OwnerEffect
<1>3. HasBackup(i) => db[i].backup.gen = record.gen
  BY <1>1 DEF NothingIsLeft, OwnerEffect, WritePcs, TakeoverPcs
<1>k. ASSUME UNCHANGED <<db[i].backup, db[i].required>>,
             proc[i].pc \notin {"unrequire", "undrop"}
      PROVE  NothingIsLeft'
  <2>1. record.gen \in db[i].required => HasBackup(i)
    BY <1>2, <1>k DEF NothingIsLeft
  <2> QED BY <1>1, <1>3, <1>k, <2>1, OwnerLeaves DEF HasBackup
<1>c. ASSUME NEW s, Close(i, s) \/ Abandon(i, s),
             proc[i].pc \notin {"unrequire", "undrop"}
      PROVE  NothingIsLeft'
  BY <1>0, <1>c, <1>k, EndEffect
<1>4. CASE ClaimLease(i) \/ SetActive(i)
  BY <1>0, <1>4, <1>k DEF ClaimLease, SetActive, At, TypeOK, Databases
<1>5. CASE StartWrite(i) \/ FinishWrite(i)
  BY <1>5, <1>k DEF StartWrite, FinishWrite, At
<1>6. CASE Journal(i)
  <2>1. CASE Available(i, proc[i].kind)
    BY <1>0, <1>6, <1>k, <2>1 DEF Journal, At, TypeOK, Databases
  <2> QED BY <1>6, <1>c, <2>1 DEF Journal, At
<1>7. CASE WriteConfig(i) \/ WriteAuth(i)
  <2>1. CASE UNCHANGED db
    BY <1>7, <1>k, <2>1 DEF WriteConfig, WriteAuth, At
  <2>2. CASE \E s : Close(i, s) \/ Abandon(i, s)
    BY <1>7, <1>c, <2>2 DEF WriteConfig, WriteAuth, At
  <2> QED BY <1>7, <2>1, <2>2 DEF WriteConfig, WriteAuth
<1>8. CASE FailWrite(i) \/ CompleteWrite(i)
  BY <1>8, <1>c DEF FailWrite, CompleteWrite, At
<1>9. CASE Backup(i)
  <2>1. CASE \E s : Close(i, s)
    BY <1>9, <1>c, <2>1 DEF Backup, At
  <2>2. CASE db[i].backup.gen = record.gen
               /\ db' = [db EXCEPT ![i].required = @ \cup {record.gen}]
    <3>1. /\ db'[i].backup = db[i].backup
          /\ db'[i].required = db[i].required \cup {record.gen}
      BY <1>0, <2>2 DEF TypeOK, Databases
    <3> QED BY <1>1, <1>2, <2>2, <3>1, OwnerLeaves DEF HasBackup
  <2>3. CASE ~HasBackup(i) /\ MayCapture(i) /\ db' = [db EXCEPT ![i].backup =
                                [val |-> auth.val, gen |-> record.gen]]
    <3>1. /\ db'[i].backup = [val |-> auth.val, gen |-> record.gen]
          /\ db'[i].required = db[i].required
      BY <1>0, <2>3 DEF TypeOK, Databases
    <3>2. db'[i].backup.gen = record.gen
      BY <3>1
    <3> QED BY <1>1, <1>2, <3>1, <3>2, OwnerLeaves DEF HasBackup
  <2> QED BY <1>9, <2>1, <2>2, <2>3 DEF Backup
<1>10. CASE RequireBackup(i)
  <2>1. /\ db'[i].backup = db[i].backup
        /\ db'[i].required = db[i].required \cup {record.gen}
    BY <1>0, <1>10 DEF RequireBackup, TypeOK, Databases
  <2>2. db[i].backup.gen = record.gen
    BY <1>10 DEF Inv, BackupFirst, BackupOrder, RequireBackup, At
  <2> QED BY <1>1, <1>2, <2>1, <2>2, OwnerLeaves DEF HasBackup
<1>11. CASE UndoBackup(i) \/ DropBackup(i)
  <2>1. db'[i].backup = NoBackup /\ db'[i].required = db[i].required
    BY <1>0, <1>11 DEF UndoBackup, DropBackup, TypeOK, Databases
  <2>2. proc'[i].pc \in {"unrequire", "undrop"}
    BY <1>0, <1>11, GotoEffect DEF UndoBackup, DropBackup
  <2> QED BY <1>1, <2>1, <2>2, OwnerLeaves DEF HasBackup, NoBackup
<1>12. CASE UndoRequire(i) \/ DropRequire(i)
  <2>1. /\ db'[i].backup = db[i].backup
        /\ db'[i].required = db[i].required \ {record.gen}
    BY <1>0, <1>12 DEF UndoRequire, DropRequire, TypeOK, Databases
  <2> QED BY <1>1, <1>3, <2>1, OwnerLeaves DEF HasBackup
<1> QED
  BY <1>4, <1>5, <1>6, <1>7, <1>8, <1>9, <1>10, <1>11, <1>12 DEF WriteStep

LEMMA TakeoverLeaves ==
  ASSUME Inv, NothingIsLeft, NEW i \in Instances,
         TakeLease(i) \/ TakeReceipt(i) \/ ClearTakeover(i)
  PROVE  NothingIsLeft'
<1>0. TypeOK /\ db[i] \in Databases
  BY DEF Inv, TypeOK
<1>1. OwnerEffect(i) /\ proc[i].pc \in TakeoverPcs
  BY TakeoverEffect DEF TakeLease, TakeReceipt, ClearTakeover, At, TakeoverPcs
<1>2. record.owner = i
  BY <1>1 DEF Inv, HolderOwns
<1>3. /\ HasBackup(i) => db[i].backup.gen = record.gen
      /\ record.gen \in db[i].required => HasBackup(i)
  BY <1>1, <1>2 DEF NothingIsLeft, TakeoverPcs
<1>4. UNCHANGED <<db[i].backup, db[i].required>>
  BY <1>0 DEF TakeLease, TakeReceipt, ClearTakeover, TypeOK, Databases
<1> QED
  BY <1>1, <1>3, <1>4, OwnerLeaves DEF HasBackup

\* The hand-over itself, and the cleanup after it.
LEMMA ReleaseLeaves ==
  ASSUME Inv, NothingIsLeft, NEW i \in Instances, ReleaseStep(i)
  PROVE  NothingIsLeft'
<1> DEFINE r == proc[i].req
           Going == {"receipt", "unlease", "runback"}
           Leaving == /\ proc[i].pc \in Going /\ proc[i].mode = "release"
                      /\ db[i].backup.gen = ask[r].gen
<1>0. /\ TypeOK /\ db[i] \in Databases /\ record \in Records /\ record.gen \in Nat
      /\ NoInst \notin Instances
  BY InstancesAssumption DEF Inv, TypeOK, Records
<1>1. /\ lock = i /\ proc[i].pc \in ReleasePcs
      /\ \A j \in Instances \ {i} : proc[j].pc = "idle"
  BY <1>0 DEF Inv, LockHeld, ReleaseStep, JournalRelease, PendRelease,
    RestoreConfig, RestoreAuth, Reserve, Receipt, DropLease, DropReleasedBackup,
    DropReleasedRequire, FinishRelease, At, ReleasePcs
<1>2. /\ Serves(i, r)
      /\ proc[i].pc \in EarlyPcs =>
           /\ record.owner = i /\ ask[r].gen = record.gen /\ record.gen # 0
           /\ proc[i].mode = "release"
      /\ proc[i].pc \in LatePcs =>
           /\ ask[r].gen < record.gen
           /\ proc[i].mode = "release" => record.owner = NoInst
  BY <1>1 DEF Inv, ReleaseServes, HolderOwns, NothingIsLeft
<1>3. /\ proc[i].phase # "down"
      /\ HasBackup(i) => (record.owner = i /\ db[i].backup.gen = record.gen) \/ Leaving
      /\ record.owner = i /\ record.gen \in db[i].required => HasBackup(i)
      /\ \A g \in db[i].required : g <= record.gen
  BY <1>1 DEF NothingIsLeft, ReleasePcs
<1>4. r \in Requests /\ ask[r].posed
  BY <1>2 DEF Serves
<1> HIDE DEF r
<1>5. CASE Reserve(i)
  <2>1. /\ record'.gen = record.gen + 1 /\ record'.owner = NoInst
        /\ UNCHANGED <<db, ask>> /\ proc[i].pc = "reserve"
    BY <1>5 DEF Reserve, Unclaimed, At
  <2>2. /\ proc'[i].pc = "receipt" /\ proc'[i].mode = proc[i].mode
        /\ proc'[i].req = r /\ proc'[i].phase = proc[i].phase
        /\ \A j \in Instances \ {i} : proc'[j] = proc[j]
    BY <1>0, <1>5, GotoEffect DEF Reserve, r
  <2>3. record.owner = i /\ ask[r].gen = record.gen /\ proc[i].mode = "release"
    BY <1>2, <2>1 DEF EarlyPcs
  <2>4. HasBackup(i) => db[i].backup.gen = ask[r].gen
    BY <1>3, <2>3
  <2>5. \A j \in Instances \ {i} : ~HasBackup(j) /\ proc[j].phase # "down"
    BY <1>1, <2>3 DEF NothingIsLeft
  <2>6. \A j \in Instances : \A g \in db'[j].required : g <= record'.gen
    <3>1. ASSUME NEW j \in Instances, NEW g \in db[j].required PROVE g <= record.gen + 1
      <4>1. g \in Int /\ g <= record.gen
        BY <1>0 DEF NothingIsLeft, TypeOK, Databases
      <4> QED BY <1>0, <4>1
    <3> QED BY <2>1, <3>1
  <2>7. \A j \in Instances \ {i} : ~HasBackup(j)' /\ proc'[j].phase # "down"
                                   /\ proc'[j].pc \notin EarlyPcs
    BY <1>1, <2>1, <2>2, <2>5 DEF HasBackup, EarlyPcs
  <2>8. HasBackup(i)' => db'[i].backup.gen = ask'[proc'[i].req].gen
    BY <2>1, <2>2, <2>4 DEF HasBackup
  <2> QED BY <1>0, <1>3, <2>1, <2>2, <2>3, <2>6, <2>7, <2>8 DEF NothingIsLeft, EarlyPcs
<1>6. ASSUME ~Reserve(i),
             HasBackup(i)' => \/ record.owner = i /\ db'[i].backup.gen = record.gen
                              \/ /\ proc'[i].pc \in Going
                                 /\ proc'[i].mode = "release"
                                 /\ db'[i].backup.gen = ask[r].gen
                                 /\ proc'[i].req = r,
             record.owner = i /\ record.gen \in db'[i].required => HasBackup(i)',
             db'[i].required \subseteq db[i].required
      PROVE  NothingIsLeft'
  <2>1. ReleaseEffect(i)
    BY <1>6, ReleaseStepEffect
  <2>2. /\ record'.gen = record.gen /\ record'.owner = record.owner
        /\ \A j \in Instances \ {i} : db'[j] = db[j] /\ proc'[j] = proc[j]
        /\ proc'[i].phase # "down" /\ ask'[r].gen = ask[r].gen
    BY <1>3, <1>4, <2>1 DEF ReleaseEffect, OthersStay, AsksKept
  <2>3. proc'[i].pc \in EarlyPcs => proc'[i].mode = "release"
    BY <1>2, <2>1 DEF ReleaseEffect, EarlyPcs, LatePcs
  <2>4. ASSUME NEW j \in Instances \ {i}
        PROVE  /\ HasBackup(j)' => record'.owner = j /\ db'[j].backup.gen = record'.gen
               /\ proc'[j].phase # "down"
               /\ proc'[j].pc \in EarlyPcs => proc'[j].mode = "release"
               /\ record'.owner = j /\ record'.gen \in db'[j].required => HasBackup(j)'
               /\ \A g \in db'[j].required : g <= record'.gen
    BY <1>1, <2>2 DEF NothingIsLeft, HasBackup
  <2>5. HasBackup(i)' => \/ record'.owner = i /\ db'[i].backup.gen = record'.gen
                         \/ /\ proc'[i].pc \in Going
                            /\ proc'[i].mode = "release"
                            /\ db'[i].backup.gen = ask'[proc'[i].req].gen
    BY <1>6, <2>2
  <2>6. \A g \in db'[i].required : g <= record'.gen
    BY <1>3, <1>6, <2>2
  <2> QED BY <1>6, <2>2, <2>3, <2>4, <2>5, <2>6 DEF NothingIsLeft
<1>7. ASSUME UNCHANGED <<db[i].backup, db[i].required>>, ~Reserve(i),
             Leaving => /\ proc'[i].pc \in Going /\ proc'[i].mode = proc[i].mode
                        /\ proc'[i].req = r
      PROVE  NothingIsLeft'
  <2>1. HasBackup(i)' <=> HasBackup(i)
    BY <1>7 DEF HasBackup
  <2> QED BY <1>3, <1>6, <1>7, <2>1
<1>8. CASE JournalRelease(i) \/ PendRelease(i) \/ RestoreConfig(i) \/ RestoreAuth(i)
  <2>1. proc[i].pc \notin Going /\ ~Reserve(i)
    BY <1>8 DEF JournalRelease, PendRelease, RestoreConfig, RestoreAuth, Reserve, At
  <2>2. UNCHANGED <<db[i].backup, db[i].required>>
    BY <1>0, <1>8 DEF JournalRelease, PendRelease, RestoreConfig, RestoreAuth,
      TypeOK, Databases
  <2> QED BY <1>7, <2>1, <2>2
<1>9. CASE Receipt(i)
  <2>1. proc[i].pc = "receipt" /\ ~Reserve(i) /\ UNCHANGED db
    BY <1>9 DEF Receipt, Reserve, At
  <2>2. /\ proc'[i].pc = "unlease" /\ proc'[i].mode = proc[i].mode
        /\ proc'[i].req = r
    BY <1>0, <1>9, GotoEffect DEF Receipt, r
  <2> QED BY <1>7, <2>1, <2>2
<1>10. CASE DropLease(i)
  <2>1. proc[i].pc = "unlease" /\ ~Reserve(i)
    BY <1>10 DEF DropLease, Reserve, At
  <2>2. UNCHANGED <<db[i].backup, db[i].required>>
    BY <1>0, <1>10 DEF DropLease, TypeOK, Databases
  <2>3. Leaving => /\ proc'[i].pc \in Going /\ proc'[i].mode = proc[i].mode
                   /\ proc'[i].req = r
    BY <1>0, <1>10, GotoEffect DEF DropLease, OwnCleanup, r
  <2> QED BY <1>7, <2>1, <2>2, <2>3
<1>11. CASE DropReleasedBackup(i)
  <2>1. proc[i].pc = "runback" /\ ~Reserve(i)
    BY <1>11 DEF DropReleasedBackup, Reserve, At
  <2>2. CASE db[i].backup.gen = ask[r].gen
    <3>1. db'[i].backup = NoBackup /\ db'[i].required = db[i].required
      BY <1>0, <1>11, <2>2 DEF DropReleasedBackup, TypeOK, Databases, r
    <3>2. ~HasBackup(i)'
      BY <3>1 DEF HasBackup, NoBackup
    <3>3. ~(record.owner = i /\ record.gen \in db[i].required)
      <4>1. ask[r].gen < record.gen /\ ask[r].gen \in Nat
        BY <1>0, <1>2, <1>4, <2>1 DEF LatePcs, ReleasePcs, EarlyPcs, TypeOK, Asks
      <4>2. db[i].backup.gen # record.gen
        BY <1>0, <2>2, <4>1
      <4>3. record.owner = i => proc[i].mode # "release"
        BY <1>0, <1>2, <2>1 DEF LatePcs, ReleasePcs, EarlyPcs
      <4> QED BY <1>3, <4>2, <4>3
    <3> QED BY <1>6, <2>1, <3>1, <3>2, <3>3
  <2>3. CASE db[i].backup.gen # ask[r].gen
    <3>1. UNCHANGED db
      BY <1>11, <2>3 DEF DropReleasedBackup, r
    <3> QED BY <1>7, <2>1, <2>3, <3>1
  <2> QED BY <2>2, <2>3
<1>12. CASE DropReleasedRequire(i)
  <2>1. proc[i].pc = "runrequire" /\ ~Reserve(i)
    BY <1>12 DEF DropReleasedRequire, Reserve, At
  <2>2. /\ db'[i].backup = db[i].backup
        /\ db'[i].required = db[i].required \ {ask[r].gen}
    BY <1>0, <1>12 DEF DropReleasedRequire, TypeOK, Databases, r
  <2>3. HasBackup(i)' <=> HasBackup(i)
    BY <2>2 DEF HasBackup
  <2> QED BY <1>3, <1>6, <2>1, <2>2, <2>3
<1>13. CASE FinishRelease(i)
  <2>1. proc[i].pc = "rfinish" /\ ~Reserve(i)
    BY <1>13 DEF FinishRelease, Reserve, At
  <2>2. UNCHANGED <<db[i].backup, db[i].required>>
    BY <1>0, <1>13 DEF FinishRelease, TypeOK, Databases
  <2> QED BY <1>7, <2>1, <2>2
<1> QED
  BY <1>5, <1>8, <1>9, <1>10, <1>11, <1>12, <1>13 DEF ReleaseStep

\* Nobody has a backup while the directory has no owner and nothing runs.
LEMMA NobodysBackup ==
  ASSUME Inv, NothingIsLeft, lock = NoInst, record.owner = NoInst,
         NEW i \in Instances
  PROVE  ~HasBackup(i)
BY InstancesAssumption DEF Inv, LockHeld, NothingIsLeft

LEMMA ClaimLeaves ==
  ASSUME Inv, NothingIsLeft, NEW i \in Instances, NEW r \in Requests,
         Claim(i, r), CanClaim(i, r)
  PROVE  NothingIsLeft'
<1>0. /\ TypeOK /\ record \in Records /\ record.gen \in Nat /\ NoInst \notin Instances
      /\ \A j \in Instances : db[j] \in Databases
  BY InstancesAssumption DEF Inv, TypeOK, Records
<1>1. /\ record'.gen = record.gen + (IF record.owner = i THEN 0 ELSE 1)
      /\ record'.owner = i /\ db' = db /\ lock = NoInst
  BY DEF Claim, CanClaim
<1>2. /\ proc'[i].pc = "tlease" /\ proc'[i].phase = "ready"
      /\ \A j \in Instances \ {i} : proc'[j] = proc[j]
  <2>1. proc' = [proc EXCEPT ![i] =
          [IdleProc EXCEPT !.mode = "takeover", !.pc = "tlease", !.req = r]]
    BY DEF Claim
  <2>2. proc'[i] = [IdleProc EXCEPT !.mode = "takeover", !.pc = "tlease", !.req = r]
    BY <1>0, <2>1 DEF TypeOK
  <2>3. proc'[i].pc = "tlease" /\ proc'[i].phase = "ready"
    BY <2>2 DEF IdleProc
  <2>4. \A j \in Instances \ {i} : proc'[j] = proc[j]
    BY <1>0, <2>1 DEF TypeOK
  <2> QED BY <2>3, <2>4
<1>3. \A j \in Instances : proc[j].pc = "idle"
  BY <1>0, <1>1 DEF Inv, LockHeld
<1>4. \A j \in Instances : /\ proc'[j].phase # "down"
                           /\ proc'[j].pc \notin EarlyPcs
  BY <1>2, <1>3 DEF NothingIsLeft, EarlyPcs
<1>5. \A j \in Instances : \A g \in db[j].required : g \in Nat /\ g <= record.gen
  BY <1>0 DEF NothingIsLeft, Databases
<1>6. CASE record.owner = i
  <2>1. record'.gen = record.gen
    BY <1>0, <1>1, <1>6
  <2>2. \A j \in Instances :
          /\ HasBackup(j)' => record'.owner = j /\ db'[j].backup.gen = record'.gen
          /\ record'.owner = j /\ record'.gen \in db'[j].required => HasBackup(j)'
    BY <1>1, <1>3, <1>6, <2>1 DEF NothingIsLeft, HasBackup
  <2> QED BY <1>1, <1>4, <1>5, <2>1, <2>2 DEF NothingIsLeft
<1>7. CASE record.owner # i
  <2>1. record.owner = NoInst
    BY <1>7, ReservedIsFree DEF CanClaim
  <2>2. \A j \in Instances : ~HasBackup(j)'
    BY <1>1, <2>1, NobodysBackup DEF HasBackup
  <2>3. \A j \in Instances : \A g \in db'[j].required : g < record'.gen
    BY <1>0, <1>1, <1>5, <1>7
  <2>4. record'.gen \in Nat
    BY <1>0, <1>1, <1>7
  <2>5. \A j \in Instances : \A g \in db'[j].required : g <= record'.gen
    BY <1>1, <1>5, <2>3, <2>4
  <2>6. \A j \in Instances : record'.gen \notin db'[j].required
    BY <2>3, <2>4
  <2> QED BY <1>4, <2>2, <2>5, <2>6 DEF NothingIsLeft
<1> QED
  BY <1>6, <1>7

LEMMA BeginLeaves ==
  ASSUME Inv, NothingIsLeft, NEW i \in Instances, NEW m \in BOOLEAN, NEW o \in Procs,
         Begin(i, m, o), o.phase # "down"
  PROVE  NothingIsLeft'
<1>0. /\ TypeOK /\ record \in Records /\ record.gen \in Nat /\ NoInst \notin Instances
      /\ \A j \in Instances : db[j] \in Databases
  BY InstancesAssumption DEF Inv, TypeOK, Records
<1>1. lock = NoInst /\ \A j \in Instances : proc[j].pc = "idle"
  BY <1>0 DEF Inv, LockHeld, Begin, CanBegin
<1>2. \A j \in Instances : proc'[j].phase # "down" /\ proc'[j].pc \notin EarlyPcs
  <2>1. PICK pc \in {"lease", "journal"} :
          proc' = [proc EXCEPT ![i] = [o EXCEPT !.pc = pc]]
    BY DEF Begin
  <2>2. [o EXCEPT !.pc = pc].pc = pc /\ [o EXCEPT !.pc = pc].phase = o.phase
    BY DEF Procs
  <2>3. proc'[i].phase # "down" /\ proc'[i].pc \notin EarlyPcs
    BY <1>0, <2>1, <2>2 DEF TypeOK, EarlyPcs
  <2>4. \A j \in Instances \ {i} : proc'[j] = proc[j]
    BY <1>0, <2>1 DEF TypeOK
  <2> QED BY <1>1, <2>3, <2>4 DEF NothingIsLeft, EarlyPcs
<1>3. CASE record.gen = 0
  <2>1. record.owner = NoInst
    BY <1>3 DEF Inv, Reservation
  <2>2. db' = db /\ record'.gen = db[i].lease + 1 /\ db[i].lease \in Nat
    BY <1>0, <1>3 DEF Begin, Unclaimed, Databases
  <2>3. \A j \in Instances : ~HasBackup(j)'
    BY <1>1, <2>1, <2>2, NobodysBackup DEF HasBackup
  <2>4. \A j \in Instances : \A g \in db'[j].required : g = 0
    BY <1>0, <1>3, <2>2 DEF NothingIsLeft, Databases
  <2>5. record'.gen \in Nat /\ record'.gen > 0
    BY <2>2
  <2> QED BY <1>2, <2>3, <2>4, <2>5 DEF NothingIsLeft
<1>4. CASE record.gen # 0
  <2>1. record' = record /\ db' = [db EXCEPT ![i].lease = record.gen]
    BY <1>4 DEF Begin
  <2>2. \A j \in Instances :
          db'[j].backup = db[j].backup /\ db'[j].required = db[j].required
    BY <1>0, <2>1 DEF TypeOK, Databases
  <2>3. \A j \in Instances :
          /\ HasBackup(j)' => record'.owner = j /\ db'[j].backup.gen = record'.gen
          /\ record'.owner = j /\ record'.gen \in db'[j].required => HasBackup(j)'
          /\ \A g \in db'[j].required : g <= record'.gen
    BY <1>1, <2>1, <2>2 DEF NothingIsLeft, HasBackup
  <2> QED BY <1>2, <2>3 DEF NothingIsLeft
<1> QED
  BY <1>3, <1>4

\* A release starts, or recovery enters the saga: neither writes anything yet.
LEMMA StartLeaves ==
  ASSUME Inv, NothingIsLeft, NEW i \in Instances, lock = NoInst,
         UNCHANGED <<record, db>>,
         proc'[i].phase # "down", proc'[i].pc \in EarlyPcs => proc'[i].mode = "release",
         \A j \in Instances \ {i} : proc'[j] = proc[j]
  PROVE  NothingIsLeft'
<1>1. \A j \in Instances : proc[j].pc = "idle"
  BY InstancesAssumption DEF Inv, LockHeld
<1>2. \A j \in Instances : /\ proc'[j].phase # "down"
                           /\ proc'[j].pc \in EarlyPcs => proc'[j].mode = "release"
  BY <1>1 DEF NothingIsLeft, EarlyPcs
<1>3. \A j \in Instances :
        /\ HasBackup(j)' => record'.owner = j /\ db'[j].backup.gen = record'.gen
        /\ record'.owner = j /\ record'.gen \in db'[j].required => HasBackup(j)'
        /\ \A g \in db'[j].required : g <= record'.gen
  BY <1>1 DEF NothingIsLeft, HasBackup
<1> QED
  BY <1>2, <1>3 DEF NothingIsLeft

LEMMA RecoverLeaves ==
  ASSUME Inv, NothingIsLeft, NEW i \in Instances, NEW op \in NextOp(i),
         RecoverWrite(i, op)
  PROVE  NothingIsLeft'
<1>0. TypeOK
  BY DEF Inv
<1>1. lock = NoInst /\ UNCHANGED <<record, db>>
  BY DEF RecoverWrite, CanRecover, CanBegin
<1>2. /\ proc'[i].phase = "recover" /\ proc'[i].pc \in {"config", "backup", "auth"}
      /\ \A j \in Instances \ {i} : proc'[j] = proc[j]
  BY <1>0 DEF RecoverWrite, TypeOK, IdleProc
<1> QED
  BY <1>1, <1>2, StartLeaves DEF EarlyPcs

LEMMA StartReleaseLeaves ==
  ASSUME Inv, NothingIsLeft, NEW i \in Instances, NEW r \in Requests,
         NEW phase \in Phases \ {"down"}, NEW id \in Nat,
         StartRelease(i, r, phase, id), UNCHANGED <<record, db>>
  PROVE  NothingIsLeft'
<1>0. TypeOK
  BY DEF Inv
<1>1. PICK mode \in {"complete", "release"}, pc \in {"unlease", "rjournal"} :
        /\ proc' = [proc EXCEPT ![i] =
             [IdleProc EXCEPT !.phase = phase, !.id = id, !.req = r, !.mode = mode,
                              !.pc = pc]]
        /\ pc = "rjournal" => mode = "release"
  BY DEF StartRelease
<1>2. proc'[i] = [IdleProc EXCEPT !.phase = phase, !.id = id, !.req = r, !.mode = mode,
                                  !.pc = pc]
  BY <1>0, <1>1 DEF TypeOK
<1>3. proc'[i].phase = phase /\ proc'[i].mode = mode /\ proc'[i].pc = pc
  BY <1>2 DEF IdleProc
<1>4. \A j \in Instances \ {i} : proc'[j] = proc[j]
  BY <1>0, <1>1 DEF TypeOK
<1>5. lock = NoInst
  BY DEF StartRelease, CanServe
<1> QED
  BY <1>1, <1>3, <1>4, <1>5, StartLeaves DEF EarlyPcs

LEMMA QuietLeaves ==
  ASSUME Inv, NothingIsLeft, QuietEffect, \A i \in Instances : ~Crash(i)
  PROVE  NothingIsLeft'
<1>1. ASSUME NEW i \in Instances
      PROVE  /\ proc'[i] = proc[i] \/ (proc[i].pc = "idle" /\ proc'[i].pc = "idle")
             /\ proc'[i].phase # "down"
  BY DEF QuietEffect, NothingIsLeft
<1>2. \A i \in Instances :
        /\ HasBackup(i)' <=> HasBackup(i)
        /\ db'[i].backup = db[i].backup /\ db'[i].required = db[i].required
  BY DEF QuietEffect, HasBackup
<1>3. record' = record
  BY DEF QuietEffect
<1>4. ASSUME NEW i \in Instances, proc[i].pc \in {"receipt", "unlease", "runback"}
      PROVE  proc'[i] = proc[i] /\ ask'[proc[i].req].gen = ask[proc[i].req].gen
  <2>1. Serves(i, proc[i].req)
    BY <1>4 DEF Inv, ReleaseServes, ReleasePcs
  <2> QED BY <1>1, <1>4, <2>1 DEF QuietEffect, AsksKept, Serves
<1>5. ASSUME NEW i \in Instances
      PROVE  /\ proc'[i].pc \in EarlyPcs => proc'[i].mode = "release"
             /\ record'.owner = i /\ record'.gen \in db'[i].required =>
                  HasBackup(i)' \/ proc'[i].pc \in {"unrequire", "undrop"}
             /\ \A g \in db'[i].required : g <= record'.gen
  BY <1>1, <1>2, <1>3 DEF NothingIsLeft, EarlyPcs
<1>6. ASSUME NEW i \in Instances, HasBackup(i)'
      PROVE  \/ record'.owner = i /\ db'[i].backup.gen = record'.gen
             \/ /\ proc'[i].pc \in {"receipt", "unlease", "runback"}
                /\ proc'[i].mode = "release"
                /\ db'[i].backup.gen = ask'[proc'[i].req].gen
  BY <1>2, <1>3, <1>4, <1>6 DEF NothingIsLeft
<1> QED
  BY <1>1, <1>5, <1>6 DEF NothingIsLeft

LEMMA NothingIsLeftStep ==
  ASSUME Inv, NothingIsLeft, Next, \A i \in Instances : ~Crash(i)
  PROVE  NothingIsLeft'
<1>1. ASSUME NEW i \in Instances, NEW m \in BOOLEAN, NEW o \in Procs,
             Begin(i, m, o), o.phase # "down"
      PROVE  NothingIsLeft'
  BY <1>1, BeginLeaves
<1>2. ASSUME NEW i \in Instances, NEW r \in Requests,
             NEW phase \in Phases \ {"down"}, NEW id \in Nat,
             StartRelease(i, r, phase, id), UNCHANGED <<record, db>>
      PROVE  NothingIsLeft'
  BY <1>2, StartReleaseLeaves
<1> QED
  BY <1>1, <1>2, NextEffect, QuietLeaves, WriteLeaves, TakeoverLeaves, ReleaseLeaves,
     ClaimLeaves, RecoverLeaves

(* Where no daemon crashes, whatever else fails: an owner at rest, with its *)
(* files as it recorded them, can start its next operation, because no      *)
(* earlier one, of its own or of a former owner, left a backup or a marker. *)
THEOREM OwnersMayWrite == Budget["crash"] = 0 => (Spec => []OwnerMayWrite)
<1> DEFINE Safe == budget["crash"] = 0 /\ NothingIsLeft
<1> SUFFICES ASSUME Budget["crash"] = 0 PROVE Spec => []OwnerMayWrite
  OBVIOUS
<1>1. Init => Safe
  <2> SUFFICES ASSUME Init PROVE Safe
    OBVIOUS
  <2>1. \A i \in Instances : /\ proc[i].pc = "idle" /\ proc[i].phase = "ready"
                             /\ db[i].backup.gen = 0 /\ db[i].required = {}
    BY DEF Init, IdleProc, NoBackup
  <2> QED BY <2>1 DEF Init, NothingIsLeft, HasBackup, EarlyPcs
<1>2. ASSUME Inv, Safe, [Next]_vars PROVE Safe'
  <2>1. CASE Next
    <3>1. budget'["crash"] = 0 /\ \A i \in Instances : ~Crash(i)
      BY <1>2, <2>1, NoCrashStays DEF Inv
    <3> QED BY <1>2, <2>1, <3>1, NothingIsLeftStep
  <2>2. CASE UNCHANGED vars
    BY <1>2, <2>2 DEF vars, NothingIsLeft, HasBackup
  <2> QED BY <1>2, <2>1, <2>2
<1>3. ASSUME Inv, Safe PROVE OwnerMayWrite
  <2> SUFFICES ASSUME AtRest, ~Problem, NEW i \in Instances, record.owner = i
               PROVE  CanBegin(i, FALSE)
    BY DEF OwnerMayWrite
  <2>1. record.gen # 0
    BY <1>3, InstancesAssumption DEF Inv, Reservation
  <2>2. proc[i].pc = "idle" /\ lock = NoInst /\ record.pending.kind = "none"
    BY <1>3, InstancesAssumption DEF AtRest, Inv, LockHeld
  <2>3. ValidBackup(i)
    BY <1>3, <2>2 DEF NothingIsLeft, ValidBackup
  <2> QED BY <2>1, <2>2, <2>3 DEF CanBegin
<1> HIDE DEF Safe
<1> QED
  BY <1>1, <1>2, <1>3, Invariance, PTL DEF Spec

=============================================================================
