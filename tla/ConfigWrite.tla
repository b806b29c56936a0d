---------------------------- MODULE ConfigWrite ----------------------------
(***************************************************************************)
(* The configuration saga of one instance: begin_config_transaction, then  *)
(* apply_configuration_with_overrides; and, on start, recover_operation    *)
(* for every journalled write and reconcile_client_auth_configuration.     *)
(* Every action ends at one durable write, so that a crash or a foreign    *)
(* edit can fall between any two.                                          *)
(***************************************************************************)
EXTENDS OwnershipState

\* Mutant: the owner is not checked.
CanBegin_AnyInstance(i, maintenance) ==
  /\ lock = NoInst
  /\ IF record.gen = 0 THEN ~maintenance /\ ~Problem
     ELSE /\ maintenance => db[i].lease = record.gen
          /\ IF record.pending.kind = "write"
             THEN maintenance \/ Live(record.scope) = record.fp
             ELSE ~Problem
          /\ ValidBackup(i)

\* The conditions begin_config_transaction checks before it claims anything.
CanBegin(i, maintenance) ==
  /\ lock = NoInst
  /\ IF record.gen = 0 THEN ~maintenance /\ ~Problem
     ELSE /\ record.owner = i
          /\ maintenance => db[i].lease = record.gen
          /\ IF record.pending.kind = "write"
             THEN maintenance \/ Live(record.scope) = record.fp
             ELSE ~Problem
          /\ ValidBackup(i)

\* Claim an absent record, or complete the lease receipt of an owned one.
Begin(i, maintenance, operation) ==
  /\ CanBegin(i, maintenance)
  /\ lock' = i
  /\ \/ /\ record.gen = 0
        /\ record' = [Unclaimed(db[i].lease + 1, FALSE) EXCEPT !.owner = i]
        /\ proc' = [proc EXCEPT ![i] = [operation EXCEPT !.pc = "lease"]]
        /\ UNCHANGED db
     \/ /\ record.gen # 0
        /\ db' = [db EXCEPT ![i].lease = record.gen]
        /\ proc' = [proc EXCEPT ![i] = [operation EXCEPT !.pc = "journal"]]
        /\ UNCHANGED record

\* A user switches provider, mode or authentication handling.
Switch(i, k) ==
  /\ Idle(i)
  /\ Spend("switch")
  /\ Begin(i, FALSE, [IdleProc EXCEPT !.mode = "apply", !.kind = k])
  /\ UNCHANGED <<config, auth, ask, call, outside, stray>>

ClaimLease(i) ==
  /\ At(i, "lease")
  /\ db' = [db EXCEPT ![i].lease = record.gen]
  /\ Goto(i, "journal")
  /\ UNCHANGED <<config, auth, record, lock, ask, call, budget, outside, stray>>

-----------------------------------------------------------------------------
(* Ways an operation ends.                                                 *)

WithoutOp(i) == {op \in db[i].journal : op.id # proc[i].id}

\* finish_operation, then the error or result is returned.
Close(i, status) ==
  /\ db' = [db EXCEPT ![i].journal = WithoutOp(i), ![i].status = status]
  /\ Return(i)

\* Return an error and leave the journal row for recovery.
Abandon(i, status) ==
  /\ db' = [db EXCEPT ![i].status = status]
  /\ Return(i)

-----------------------------------------------------------------------------
(* The saga.                                                               *)

\* A client's own login is preserved, or not, under a target of kind k.
Preserves(i, k) ==
  IF k = "official" THEN db[i].preserve ELSE k = "preserved"

\* The journal row of this operation: the target, and the files it was read
\* against.
WriteRow(i) ==
  [id |-> db[i].next, op |-> "apply", kind |-> proc[i].kind,
   preserve |-> Preserves(i, proc[i].kind), cfg |-> config, auth |-> auth,
   gen |-> record.gen, req |-> NoReq]

\* Read both files, then begin_operation.
Journal(i) ==
  /\ At(i, "journal")
  /\ \/ /\ Available(i, proc[i].kind)
        /\ db' = [db EXCEPT ![i].journal = @ \cup {WriteRow(i)},
                            ![i].next = @ + 1]
        /\ proc' = [proc EXCEPT ![i].cfg = config, ![i].auth = auth,
                                ![i].preserve = Preserves(i, proc[i].kind),
                                ![i].id = db[i].next, ![i].pc = "start"]
        /\ UNCHANGED lock
     \/ /\ ~Available(i, proc[i].kind)
        /\ Abandon(i, db[i].status)
  /\ UNCHANGED <<config, auth, record, ask, call, budget, outside, stray>>

\* start_ownership_write.
StartWrite(i) ==
  /\ At(i, "start")
  /\ record' = [record EXCEPT
                  !.scope = Managed(i),
                  !.fp = Live(Managed(i)),
                  !.pending = [NoPending EXCEPT !.kind = "write"]]
  /\ Goto(i, IF Managed(i) THEN "backup" ELSE "config")
  /\ UNCHANGED <<config, auth, lock, db, ask, call, budget, outside, stray>>

\* A backup may be captured only when this lease never had one, and never of
\* a managed key that recovery finds already written.
MayCapture(i) ==
  /\ record.gen \notin db[i].required
  /\ Recovering(i) => auth.val # ManagedKey

\* ensure_codex_auth_backup: keep this lease's backup, or capture one.
Backup(i) ==
  /\ At(i, "backup")
  /\ \/ /\ db[i].backup.gen = record.gen
        /\ db' = [db EXCEPT ![i].required = @ \cup {record.gen}]
        /\ Goto(i, IF Recovering(i) THEN "auth" ELSE "config")
        /\ UNCHANGED lock
     \/ /\ ~HasBackup(i) /\ MayCapture(i)
        /\ db' = [db EXCEPT ![i].backup =
                               [val |-> auth.val, gen |-> record.gen]]
        /\ proc' = [proc EXCEPT ![i].pc = "require", ![i].made = TRUE]
        /\ UNCHANGED lock
     \/ /\ IF HasBackup(i) THEN db[i].backup.gen # record.gen
           ELSE ~MayCapture(i)
        /\ Close(i, IF proc[i].mode = "apply" THEN db[i].status
                    ELSE "conflict")
  /\ UNCHANGED <<config, auth, record, ask, call, budget, outside, stray>>

RequireBackup(i) ==
  /\ At(i, "require")
  /\ db' = [db EXCEPT ![i].required = @ \cup {record.gen}]
  /\ Goto(i, IF Recovering(i) THEN "auth" ELSE "config")
  /\ UNCHANGED <<config, auth, record, lock, ask, call, budget, outside, stray>>

\* config::apply_with_credential: compare with the file read, then replace.
WriteConfig(i) ==
  /\ At(i, "config")
  /\ \/ /\ config = proc[i].cfg
        /\ config' = Want(i, proc[i].kind)
        /\ Goto(i, IF Recovering(i) /\ Managed(i) THEN "backup" ELSE "auth")
        /\ UNCHANGED <<db, lock>>
     \/ /\ config # proc[i].cfg
        /\ \/ proc[i].made /\ Goto(i, "undo") /\ UNCHANGED <<db, lock>>
           \/ ~proc[i].made /\ Close(i, "conflict")
        /\ UNCHANGED config
  /\ UNCHANGED <<auth, record, ask, call, budget, outside, stray>>

\* The error path of a failed config write removes the backup it created.
UndoBackup(i) ==
  /\ At(i, "undo")
  /\ db' = [db EXCEPT ![i].backup = NoBackup]
  /\ Goto(i, "unrequire")
  /\ UNCHANGED <<config, auth, record, lock, ask, call, budget, outside, stray>>

UndoRequire(i) ==
  /\ At(i, "unrequire")
  /\ db' = [db EXCEPT ![i].required = @ \ {record.gen}]
  /\ Goto(i, "fail")
  /\ UNCHANGED <<config, auth, record, lock, ask, call, budget, outside, stray>>

FailWrite(i) ==
  /\ At(i, "fail")
  /\ Close(i, "conflict")
  /\ UNCHANGED <<config, auth, record, ask, call, budget, outside, stray>>

\* Mutant: the backup is not put back.
WantAuth_KeepsKey(i, k) == IF k = "managed" THEN ManagedKey ELSE auth.val

\* The owned fields of auth.json under a target of kind k.
WantAuth(i, k) ==
  IF k = "managed" THEN ManagedKey
  ELSE IF HasBackup(i) THEN db[i].backup.val
  ELSE auth.val

\* apply_codex_auth_target compares the file only when it has to write it.
TouchesAuth(i, k) == k = "managed" \/ HasBackup(i)
CanWriteAuth(i, k) ==
  /\ Available(i, k)
  /\ TouchesAuth(i, k) => auth = proc[i].auth
  /\ k # "managed" /\ HasBackup(i) => db[i].backup.gen = record.gen
  /\ k # "managed" /\ ~HasBackup(i) => record.gen \notin db[i].required

\* apply_codex_auth_target, and recover_codex_auth_target, which leaves an
\* already applied file alone.
WriteAuth(i) ==
  LET k == proc[i].kind
      applied == Recovering(i) /\ Available(i, k) /\ Applied(i, k)
  IN  /\ At(i, "auth")
      /\ \/ /\ applied \/ CanWriteAuth(i, k)
            /\ auth' = IF applied THEN auth
                       ELSE [auth EXCEPT !.val = WantAuth(i, k)]
            /\ Goto(i, IF Recovering(i) THEN "active" ELSE "finish")
            /\ UNCHANGED <<db, lock>>
         \/ /\ ~applied /\ ~CanWriteAuth(i, k)
            /\ CASE proc[i].mode = "recover" ->
                      Close(i, IF Available(i, k) THEN "conflict"
                               ELSE "unavailable")
                 [] proc[i].mode = "reconcile" -> Abandon(i, "conflict")
                 [] OTHER -> Abandon(i, "unavailable")
            /\ UNCHANGED auth
      /\ UNCHANGED <<config, record, ask, call, budget, outside, stray>>

\* finish_ownership_write: forget auth.json without a backup, adopt the live
\* fingerprints, clear the pending transaction.
Settled(i) ==
  LET scope == record.scope /\ HasBackup(i)
  IN  [record EXCEPT !.scope = scope, !.fp = Live(scope), !.pending = NoPending]

FinishWrite(i) ==
  /\ proc[i].pc \in {"finish", "refinish", "seal"}
  /\ record' = Settled(i)
  /\ Goto(i, IF At(i, "finish") /\ ~Managed(i) THEN "drop"
             ELSE IF At(i, "seal") \/ Recovering(i) THEN "complete"
             ELSE "active")
  /\ UNCHANGED <<config, auth, lock, db, ask, call, budget, outside, stray>>

\* remove_codex_auth_backup, once auth.json is native again.
DropBackup(i) ==
  /\ At(i, "drop")
  /\ db' = [db EXCEPT ![i].backup = NoBackup]
  /\ Goto(i, "undrop")
  /\ UNCHANGED <<config, auth, record, lock, ask, call, budget, outside, stray>>

\* Mutant: the backup goes, the marker that requires it stays.
DropRequire_Forgotten(i) ==
  /\ At(i, "undrop")
  /\ Goto(i, "refinish")
  /\ UNCHANGED <<config, auth, record, lock, db, ask, call, budget, outside, stray>>

DropRequire(i) ==
  /\ At(i, "undrop")
  /\ db' = [db EXCEPT ![i].required = @ \ {record.gen}]
  /\ Goto(i, "refinish")
  /\ UNCHANGED <<config, auth, record, lock, ask, call, budget, outside, stray>>

\* Mutant: the operation's mode is stored in place of the provider.
SetActive_StoresMode(i) ==
  /\ At(i, "active")
  /\ db' = [db EXCEPT ![i].active = proc[i].mode, ![i].status = "synchronized"]
  /\ Goto(i, IF Recovering(i) THEN "finish" ELSE "seal")
  /\ UNCHANGED <<config, auth, record, lock, ask, call, budget, outside, stray>>

\* Mutant: the provider is reported without being made the active one.
SetActive_KeepsActive(i) ==
  /\ At(i, "active")
  /\ db' = [db EXCEPT ![i].status = "synchronized"]
  /\ Goto(i, IF Recovering(i) THEN "finish" ELSE "seal")
  /\ UNCHANGED <<config, auth, record, lock, ask, call, budget, outside, stray>>

\* set_active, set_mode and persist_configuration_settings.
SetActive(i) ==
  /\ At(i, "active")
  /\ db' = [db EXCEPT
              ![i].active = proc[i].kind,
              ![i].status = "synchronized",
              ![i].preserve = proc[i].preserve]
  /\ Goto(i, IF Recovering(i) THEN "finish" ELSE "seal")
  /\ UNCHANGED <<config, auth, record, lock, ask, call, budget, outside, stray>>

CompleteWrite(i) ==
  /\ At(i, "complete")
  /\ Close(i, db[i].status)
  /\ UNCHANGED <<config, auth, record, ask, call, budget, outside, stray>>

-----------------------------------------------------------------------------
(* Start: recover_operations walks the journal in order, then              *)
(* reconcile_client_auth_configuration re-applies the active provider.     *)

\* Mutant: recovery does not step past a row it has dealt with.
NextOp_Again(i) ==
  {op \in db[i].journal :
     /\ op.id >= proc[i].id
     /\ \A other \in db[i].journal : other.id >= proc[i].id => other.id >= op.id}

\* The journal row recovery reaches next; id remembers how far it is.
NextOp(i) ==
  {op \in db[i].journal :
     /\ op.id > proc[i].id
     /\ \A other \in db[i].journal : other.id > proc[i].id => other.id >= op.id}

AtRecovery(i) == proc[i].phase = "recover" /\ proc[i].pc = "idle"

\* recover_operation before its first write.
CanRecover(i, op) ==
  /\ CanBegin(i, TRUE)
  /\ op.gen = record.gen
  /\ op.kind = "managed" /\ ~HasBackup(i) =>
       record.gen \notin db[i].required /\ auth.val # ManagedKey
  /\ auth = op.auth \/ Applied(i, op.kind)
  /\ config \in {op.cfg, Want(i, op.kind)}

RecoverWrite(i, op) ==
  /\ AtRecovery(i) /\ op \in NextOp(i) /\ op.op = "apply"
  /\ CanRecover(i, op)
  /\ lock' = i
  /\ proc' = [proc EXCEPT ![i] =
       [IdleProc EXCEPT
          !.phase = "recover", !.mode = "recover", !.kind = op.kind,
          !.preserve = op.preserve,
          !.cfg = op.cfg, !.auth = op.auth, !.id = op.id,
          !.pc = IF config = op.cfg THEN "config"
                 ELSE IF op.kind = "managed" THEN "backup" ELSE "auth"]]
  /\ UNCHANGED <<config, auth, record, db, ask, call, budget, outside, stray>>

\* The operation is closed as a conflict; its record stays pending.
RejectRecovery(i, op) ==
  /\ AtRecovery(i) /\ op \in NextOp(i) /\ op.op = "apply"
  /\ \/ ~CanRecover(i, op) /\ UNCHANGED budget
     \/ Contended(i) /\ Spend("fail")
  /\ db' = [db EXCEPT ![i].journal = @ \ {op}, ![i].status = "conflict"]
  /\ proc' = [proc EXCEPT ![i].id = op.id]
  /\ UNCHANGED <<config, auth, record, lock, ask, call, outside, stray>>

EndRecovery(i) ==
  /\ AtRecovery(i) /\ NextOp(i) = {}
  /\ proc' = [proc EXCEPT ![i] = [IdleProc EXCEPT !.phase = "reconcile"]]
  /\ UNCHANGED <<config, auth, record, lock, db, ask, call, budget, outside, stray>>

AtReconcile(i) == proc[i].phase = "reconcile" /\ proc[i].pc = "idle"
NothingToReconcile(i) == db[i].active = "official" /\ ~HasBackup(i)

Reconcile(i) ==
  /\ AtReconcile(i) /\ ~NothingToReconcile(i)
  /\ Begin(i, TRUE, [IdleProc EXCEPT !.phase = "reconcile",
                       !.mode = "reconcile", !.kind = db[i].active])
  /\ UNCHANGED <<config, auth, ask, call, budget, outside, stray>>

SkipReconcile(i) ==
  /\ AtReconcile(i)
  /\ \/ /\ NothingToReconcile(i)
        /\ UNCHANGED <<db, budget>>
     \/ /\ ~NothingToReconcile(i)
        /\ \/ ~CanBegin(i, TRUE) /\ UNCHANGED budget
           \/ Contended(i) /\ Spend("fail")
        /\ db' = [db EXCEPT ![i].status = "conflict"]
  /\ proc' = [proc EXCEPT ![i] = IdleProc]
  /\ UNCHANGED <<config, auth, record, lock, ask, call, outside, stray>>

-----------------------------------------------------------------------------
WriteStep(i) ==
  \/ ClaimLease(i) \/ Journal(i) \/ StartWrite(i)
  \/ Backup(i) \/ RequireBackup(i)
  \/ WriteConfig(i) \/ UndoBackup(i) \/ UndoRequire(i) \/ FailWrite(i)
  \/ WriteAuth(i) \/ FinishWrite(i) \/ DropBackup(i) \/ DropRequire(i)
  \/ SetActive(i) \/ CompleteWrite(i)

StartStep(i) ==
  \/ \E op \in NextOp(i) : RecoverWrite(i, op) \/ RejectRecovery(i, op)
  \/ EndRecovery(i) \/ Reconcile(i) \/ SkipReconcile(i)
=============================================================================
