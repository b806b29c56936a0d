--------------------------- MODULE ConfigRelease ---------------------------
(***************************************************************************)
(* release_configuration: the owning instance restores the client's own    *)
(* configuration and login, hands the record to the requester as a         *)
(* reservation, and cleans its database up.  The same handler runs when a  *)
(* peer asks for it, when the peer asks again, and on start for every      *)
(* release_config row in the journal.                                      *)
(***************************************************************************)
EXTENDS OwnershipState

\* The record reserves the target for the instance that issued request r.
Reserved(r) ==
  /\ record.pending.kind = "takeover"
  /\ record.pending.req = r
  /\ record.pending.by = Requester[r]

\* An earlier attempt of the same release marked the record.
Resumes(r) ==
  /\ record.pending.kind = "release"
  /\ record.pending.req = r
  /\ record.pending.by = Requester[r]

\* The hand-over happened; what is left is this instance's own cleanup.
HandedOver(r) == record.gen # 0 /\ (ask[r].released \/ Reserved(r))

\* A resumed release finds each owned field as recorded, or restored already.
NothingForeign(i, r) ==
  Resumes(r) =>
    /\ config = record.fp.cfg \/ config = Native
    /\ record.scope /\ auth.val # record.fp.auth =>
         /\ db[i].backup.gen = record.gen
         /\ auth.val = db[i].backup.val

CanRelease(i, r) ==
  /\ record.owner = i
  /\ record.gen = ask[r].gen
  /\ Resumes(r) \/ ~Problem
  /\ ValidBackup(i)
  /\ NothingForeign(i, r)

\* Mutant: the directory lock is not taken.
CanServe_Unlocked(i, r) == HandedOver(r) \/ CanRelease(i, r)

CanServe(i, r) == lock = NoInst /\ (HandedOver(r) \/ CanRelease(i, r))

\* release_configuration_locked up to its first durable write.
StartRelease(i, r, phase, id) ==
  LET begin(mode, pc) ==
        proc' = [proc EXCEPT ![i] =
          [IdleProc EXCEPT !.phase = phase, !.id = id, !.req = r,
                           !.mode = mode, !.pc = pc]]
  IN  /\ CanServe(i, r)
      /\ lock' = i
      /\ \/ /\ HandedOver(r)
            /\ ask' = [ask EXCEPT ![r].released = TRUE]
            /\ begin("complete", "unlease")
         \/ /\ ~HandedOver(r)
            /\ ask' = [ask EXCEPT ![r].restore = IF @ = NoAuth THEN auth ELSE @]
            /\ begin("release", "rjournal")

\* Mutant: the answer is not sent.
Answer_Lost(r, outcome) == UNCHANGED call

\* The answer goes to the coroutine that still waits for it.
Answer(r, outcome) ==
  call' = [call EXCEPT ![r] = IF @ = "served" THEN outcome ELSE @]

\* CONFIG_RELEASE arrives at the owner the requester recorded.
ServeRelease(i, r) ==
  /\ Idle(i) /\ call[r] = "rpc" /\ ask[r].owner = i
  /\ \/ /\ StartRelease(i, r, "ready", 0)
        /\ call' = [call EXCEPT ![r] = "served"]
     \/ /\ ~CanServe(i, r)
        /\ call' = [call EXCEPT ![r] = "idle"]
        /\ UNCHANGED <<lock, ask, proc>>
  /\ UNCHANGED <<config, auth, record, db, budget, outside, stray>>

\* The same for a call nobody waits for any more.
ServeStray(i, r) ==
  /\ Idle(i) /\ r \in stray /\ ask[r].owner = i
  /\ stray' = stray \ {r}
  /\ \/ StartRelease(i, r, "ready", 0)
     \/ ~CanServe(i, r) /\ UNCHANGED <<lock, ask, proc>>
  /\ UNCHANGED <<config, auth, record, db, call, budget, outside>>

\* recover_operations on a release_config row: an error keeps the row.
RecoverRelease(i, op) ==
  /\ proc[i].phase = "recover" /\ At(i, "idle")
  /\ op.op = "release"
  /\ \/ /\ StartRelease(i, op.req, "recover", op.id)
        /\ UNCHANGED <<db, budget>>
     \/ /\ \/ ~CanServe(i, op.req) /\ UNCHANGED budget
           \/ Contended(i) /\ Spend("fail")
        /\ db' = [db EXCEPT ![i].status = "conflict"]
        /\ proc' = [proc EXCEPT ![i].id = op.id]
        /\ UNCHANGED <<lock, ask>>
  /\ UNCHANGED <<config, auth, record, call, outside, stray>>

-----------------------------------------------------------------------------
ReleaseOp(i, r) == {op \in db[i].journal : op.op = "release" /\ op.req = r}

ReleaseRow(i, r) ==
  [id |-> db[i].next, op |-> "release", kind |-> "official",
   preserve |-> FALSE, cfg |-> Native, auth |-> NoAuth,
   gen |-> record.gen, req |-> r]

\* begin_operation, unless an earlier attempt left its row.
JournalRelease(i) ==
  LET r == proc[i].req
  IN  /\ At(i, "rjournal")
      /\ db' = IF ReleaseOp(i, r) # {} THEN db
               ELSE [db EXCEPT ![i].journal = @ \cup {ReleaseRow(i, r)},
                                       ![i].next = @ + 1]
      /\ Goto(i, "rpending")
      /\ UNCHANGED <<config, auth, record, lock, ask, call, budget, outside, stray>>

PendRelease(i) ==
  LET r == proc[i].req
  IN  /\ At(i, "rpending")
      /\ record' = [record EXCEPT !.pending =
                      [kind |-> "release", req |-> r, by |-> Requester[r]]]
      /\ Goto(i, "rconfig")
      /\ UNCHANGED <<config, auth, lock, db, ask, call, budget, outside, stray>>

\* Mutant: config.toml keeps the managed provider.
RestoreConfig_Skipped(i) ==
  /\ At(i, "rconfig")
  /\ Goto(i, "rauth")
  /\ UNCHANGED <<config, auth, record, lock, db, ask, call, budget, outside, stray>>

\* The Official target is patched over whatever config.toml holds now.
RestoreConfig(i) ==
  /\ At(i, "rconfig")
  /\ config' = Native
  /\ Goto(i, "rauth")
  /\ UNCHANGED <<auth, record, lock, db, ask, call, budget, outside, stray>>

\* apply_codex_auth_target with the restore target saved by the first attempt:
\* auth.json must still be the file that attempt saw.
CanRestoreAuth(i) ==
  IF HasBackup(i)
  THEN /\ db[i].backup.gen = record.gen
       /\ auth = ask[proc[i].req].restore
  ELSE record.gen \notin db[i].required

RestoreAuth(i) ==
  /\ At(i, "rauth")
  /\ \/ /\ CanRestoreAuth(i)
        /\ auth' = IF HasBackup(i) THEN [auth EXCEPT !.val = db[i].backup.val]
                   ELSE auth
        /\ Goto(i, "reserve")
        /\ UNCHANGED <<db, lock, call>>
     \/ /\ ~CanRestoreAuth(i)
        /\ Return(i)
        /\ Answer(proc[i].req, "idle")
        /\ db' = IF proc[i].phase = "recover"
                 THEN [db EXCEPT ![i].status = "conflict"] ELSE db
        /\ UNCHANGED auth
  /\ UNCHANGED <<config, record, ask, budget, outside, stray>>

\* Mutant: the hand-over keeps the generation.
Reserve_SameGeneration(i) ==
  LET r == proc[i].req
  IN  /\ At(i, "reserve")
      /\ record' = [Unclaimed(record.gen, record.scope) EXCEPT !.pending =
                      [kind |-> "takeover", req |-> r, by |-> Requester[r]]]
      /\ Goto(i, "receipt")
      /\ UNCHANGED <<config, auth, lock, db, ask, call, budget, outside, stray>>

\* The durable hand-over: nobody owns the target, one instance may claim it.
Reserve(i) ==
  LET r == proc[i].req
  IN  /\ At(i, "reserve")
      /\ record' = [Unclaimed(record.gen + 1, record.scope) EXCEPT !.pending =
                      [kind |-> "takeover", req |-> r, by |-> Requester[r]]]
      /\ Goto(i, "receipt")
      /\ UNCHANGED <<config, auth, lock, db, ask, call, budget, outside, stray>>

Receipt(i) ==
  /\ At(i, "receipt")
  /\ ask' = [ask EXCEPT ![proc[i].req].released = TRUE]
  /\ Goto(i, "unlease")
  /\ UNCHANGED <<config, auth, record, lock, db, call, budget, outside, stray>>

-----------------------------------------------------------------------------
(* Cleanup, straight after the hand-over or when its receipt is replayed.  *)

\* Mutant: a replay always cleans up.
OwnCleanup_Always(i) == TRUE

\* A replayed receipt must not clean up after a newer lease.
OwnCleanup(i) ==
  proc[i].mode = "release" \/ db[i].lease \in {0, ask[proc[i].req].gen}

DropLease(i) ==
  /\ At(i, "unlease")
  /\ IF OwnCleanup(i)
     THEN /\ db' = [db EXCEPT ![i].lease = 0, ![i].status = "unmanaged"]
          /\ Goto(i, "runback")
     ELSE /\ Goto(i, "rfinish")
          /\ UNCHANGED db
  /\ UNCHANGED <<config, auth, record, lock, ask, call, budget, outside, stray>>

\* remove_codex_auth_backup_if_released.
DropReleasedBackup(i) ==
  /\ At(i, "runback")
  /\ IF db[i].backup.gen = ask[proc[i].req].gen
     THEN /\ db' = [db EXCEPT ![i].backup = NoBackup]
          /\ Goto(i, "runrequire")
     ELSE /\ Goto(i, "rfinish")
          /\ UNCHANGED db
  /\ UNCHANGED <<config, auth, record, lock, ask, call, budget, outside, stray>>

DropReleasedRequire(i) ==
  /\ At(i, "runrequire")
  /\ db' = [db EXCEPT ![i].required = @ \ {ask[proc[i].req].gen}]
  /\ Goto(i, "rfinish")
  /\ UNCHANGED <<config, auth, record, lock, ask, call, budget, outside, stray>>

\* Close the journal row, forget the restore target of a cleanup, answer.
FinishRelease(i) ==
  LET r == proc[i].req
  IN  /\ At(i, "rfinish")
      /\ db' = [db EXCEPT ![i].journal = @ \ ReleaseOp(i, r)]
      /\ ask' = [ask EXCEPT ![r].restore = IF OwnCleanup(i) THEN NoAuth ELSE @]
      /\ Return(i)
      /\ Answer(r, "claim")
      /\ UNCHANGED <<config, auth, record, budget, outside, stray>>

ReleaseStep(i) ==
  \/ JournalRelease(i) \/ PendRelease(i) \/ RestoreConfig(i) \/ RestoreAuth(i)
  \/ Reserve(i) \/ Receipt(i) \/ DropLease(i) \/ DropReleasedBackup(i)
  \/ DropReleasedRequire(i) \/ FinishRelease(i)
=============================================================================
