-------------------------- MODULE ConfigOwnership --------------------------
(***************************************************************************)
(* The whole ownership protocol for one shared Codex directory: the write  *)
(* saga, cooperative release and takeover of several hsind instances, with *)
(* crashes and restarts of each, and the client and its user changing the  *)
(* files at any time.                                                      *)
(***************************************************************************)
EXTENDS ConfigWrite, ConfigRelease, ConfigTakeover

\* A fresh directory with the client's own login; every instance is running
\* and has never written to it.
Init ==
  /\ config = Native
  /\ auth = [val |-> FirstLogin, rev |-> 0]
  /\ record = [gen |-> 0, owner |-> NoInst, scope |-> FALSE,
               fp |-> [cfg |-> Native, auth |-> NoLogin],
               pending |-> NoPending]
  /\ lock = NoInst
  /\ db = [i \in Instances |->
             [lease |-> 0, backup |-> NoBackup, required |-> {},
              journal |-> {}, next |-> 1, active |-> "official",
              preserve |-> FALSE, status |-> "synchronized"]]
  /\ ask = [r \in Requests |->
              [posed |-> FALSE, gen |-> 0, owner |-> NoInst, receipt |-> 0,
               finished |-> FALSE, released |-> FALSE, restore |-> NoAuth]]
  /\ proc = [i \in Instances |-> IdleProc]
  /\ call = [r \in Requests |-> "idle"]
  /\ budget = Budget
  /\ stray = {}
  /\ outside = [login |-> FirstLogin, when |-> "covered", raced |-> FALSE]

-----------------------------------------------------------------------------
(* Crashes and restarts.                                                   *)

\* Memory, the directory lock and both ends of every connection are lost.
Crash(i) ==
  /\ proc[i].phase # "down"
  /\ Spend("crash")
  /\ lock' = IF lock = i THEN NoInst ELSE lock
  /\ proc' = [proc EXCEPT ![i] = [IdleProc EXCEPT !.phase = "down"]]
  /\ call' = [r \in Requests |->
                IF \/ Requester[r] = i
                   \/ ask[r].owner = i /\ call[r] = "served"
                THEN "idle" ELSE call[r]]
  /\ stray' \in {stray, stray \cup {r \in Requests :
                                     Requester[r] = i /\ call[r] = "rpc"}}
  /\ UNCHANGED <<config, auth, record, db, ask, outside>>

Restart(i) ==
  /\ proc[i].phase = "down"
  /\ proc' = [proc EXCEPT ![i] = [IdleProc EXCEPT !.phase = "recover"]]
  /\ UNCHANGED <<config, auth, record, lock, db, ask, call, budget, outside, stray>>

-----------------------------------------------------------------------------
(* The client and its user.                                                *)

\* A native login replaces the owned fields of auth.json with new values.
Login(v) ==
  /\ v \notin {auth.val, outside.login} \cup {db[i].backup.val : i \in Instances}
  /\ Spend("login")
  /\ auth' = [auth EXCEPT !.val = v]
  /\ outside' = [login |-> v, when |-> LoginMoment(v),
                 raced |-> outside.raced \/ LoginMoment(v) # "covered"]
  /\ UNCHANGED <<config, record, lock, db, ask, proc, call, stray>>

\* The client rewrites auth.json but not the owned fields (a token refresh).
Refresh ==
  /\ Spend("refresh")
  /\ auth' = [auth EXCEPT !.rev = @ + 1]
  /\ UNCHANGED <<config, record, lock, db, ask, proc, call, outside, stray>>

\* The user edits owned keys of config.toml.
EditConfig ==
  /\ config # Edited
  /\ Spend("edit")
  /\ config' = Edited
  /\ outside' = [outside EXCEPT !.raced = @ \/ Moment # "covered"]
  /\ UNCHANGED <<auth, record, lock, db, ask, proc, call, stray>>

-----------------------------------------------------------------------------
Environment ==
  \/ \E i \in Instances : Crash(i)
  \/ \E v \in Logins : Login(v)
  \/ Refresh
  \/ EditConfig
  \/ \E r \in Requests : LoseCall(r)

User ==
  \/ \E i \in Instances, k \in SwitchKinds : Switch(i, k)
  \/ \E i \in Instances, r \in Requests : RequestTakeover(i, r)

Retry == \E i \in Instances, r \in Requests : RetryTakeover(i, r)

\* What instance i does on its own once an operation or a start has begun.
Daemon(i) ==
  \/ WriteStep(i) \/ ReleaseStep(i) \/ TakeoverStep(i) \/ StartStep(i)
  \/ \E op \in NextOp(i) : RecoverRelease(i, op)
  \/ \E r \in Requests : ServeRelease(i, r) \/ ServeStray(i, r)

Next ==
  \/ Environment \/ User \/ Retry
  \/ \E i \in Instances : Daemon(i) \/ Restart(i)

Spec == Init /\ [][Next]_vars

\* A running daemon keeps executing what it has begun.
DaemonSpec == Spec /\ \A i \in Instances : WF_vars(Daemon(i))

\* The service manager restarts a daemon, and a peer asks again.
FairSpec ==
  /\ DaemonSpec
  /\ \A i \in Instances : WF_vars(Restart(i))
  /\ \A i \in Instances, r \in Requests : SF_vars(RetryTakeover(i, r))

-----------------------------------------------------------------------------
(* Types.                                                                  *)

InstOrNone == Instances \cup {NoInst}
ReqOrNone == Requests \cup {NoReq}
Values == Logins \cup {ManagedKey, NoLogin}
Fingerprints == [cfg: Configs, auth: Values]
Pendings == [kind: {"none", "write", "release", "takeover"},
             req: ReqOrNone, by: InstOrNone]
Ops == [id: Nat, op: {"apply", "release"}, kind: Kinds, preserve: BOOLEAN,
        cfg: Configs, auth: AuthFiles \cup {NoAuth}, gen: Nat, req: ReqOrNone]
Phases == {"down", "recover", "reconcile", "ready"}
Modes == {"none", "apply", "recover", "reconcile", "release", "complete",
          "takeover"}
WritePcs == {"lease", "journal", "start", "backup", "require", "config",
             "undo", "unrequire", "fail", "auth", "finish", "drop", "undrop",
             "refinish", "active", "seal", "complete"}
ReleasePcs == {"rjournal", "rpending", "rconfig", "rauth", "reserve",
               "receipt", "unlease", "runback", "runrequire", "rfinish"}
TakeoverPcs == {"tlease", "treceipt", "tclear"}

Records == [gen: Nat, owner: InstOrNone, scope: BOOLEAN,
            fp: Fingerprints, pending: Pendings]
Backups == {NoBackup} \cup [val: Logins \cup {ManagedKey}, gen: Nat]
Databases == [lease: Nat, backup: Backups, required: SUBSET Nat,
              journal: SUBSET Ops, next: Nat, active: Kinds, preserve: BOOLEAN,
              status: {"synchronized", "unmanaged", "conflict", "unavailable"}]
Asks == [posed: BOOLEAN, gen: Nat, owner: InstOrNone, receipt: Nat,
         finished: BOOLEAN, released: BOOLEAN, restore: AuthFiles \cup {NoAuth}]
Procs == [phase: Phases, mode: Modes, kind: Kinds, preserve: BOOLEAN,
          cfg: Configs,
          pc: {"idle"} \cup WritePcs \cup ReleasePcs \cup TakeoverPcs,
          auth: AuthFiles \cup {NoAuth}, id: Nat, made: BOOLEAN, req: ReqOrNone]

(* Every variable keeps the shape the code gives it.                       *)
TypeOK ==
  /\ config \in Configs
  /\ auth \in AuthFiles
  /\ record \in Records
  /\ lock \in InstOrNone
  /\ db \in [Instances -> Databases]
  /\ ask \in [Requests -> Asks]
  /\ proc \in [Instances -> Procs]
  /\ call \in [Requests -> {"idle", "rpc", "served", "claim", "finish"}]
  /\ budget \in [Events -> Nat]
  /\ stray \in SUBSET Requests
  /\ outside \in [login: Logins, when: Moments, raced: BOOLEAN]

-----------------------------------------------------------------------------
(* Safety.                                                                 *)

(* No write by a stale owner: config.toml gets hsin content, and auth.json *)
(* changes other than by its own user's login or client, only while the    *)
(* instance holding the directory lock is the recorded owner.              *)
OnlyOwnerWrites ==
  [][\/ config' \notin {config, Edited}
     \/ auth'.val # auth.val /\ outside' = outside
     => lock # NoInst /\ record.owner = lock]_vars

(* hsin content in config.toml always belongs to the recorded owner, so a  *)
(* directory that nobody owns, or that is reserved, is the client's own.   *)
ConfigIsOwners == config.by # NoInst => config.by = record.owner

(* While auth.json holds the managed key, the recorded owner has a backup  *)
(* for its current generation; and no backup is ever of a managed key.     *)
NativeLoginRecoverable ==
  /\ auth.val = ManagedKey =>
       \E i \in Instances : record.owner = i /\ db[i].backup.gen = record.gen
  /\ \A i \in Instances : HasBackup(i) => db[i].backup.val \in Logins

(* A lease receipt in a database never runs ahead of the shared record,    *)
(* and one for the record's generation is the recorded owner's.            *)
LeaseIsOwners ==
  \A i \in Instances :
    /\ db[i].lease <= record.gen
    /\ db[i].lease # 0 /\ db[i].lease = record.gen => record.owner = i

\* The last native login is in auth.json or in some instance's backup.
LoginSurvives ==
  \/ auth.val = outside.login
  \/ \E i \in Instances : db[i].backup.val = outside.login

(* A login made while hsin is at rest and its record covers auth.json is   *)
(* never overwritten, whatever runs or crashes later.                      *)
CoveredLoginIsKept == outside.when = "covered" => LoginSurvives

(* The same for every login made while no transaction is in flight, even   *)
(* if the record does not cover auth.json or a takeover has been checked.  *)
LoginAtRestIsKept == outside.when \in {"covered", "rest"} => LoginSurvives

(* The same for a login made over a transaction a crash interrupted.       *)
LoginAfterCrashIsKept == outside.when = "pending" => LoginSurvives

(* The status users see is true: an owner that reports its active provider *)
(* as synchronized, with no drift and no interrupted operation, has it in  *)
(* both files, unless an outside change raced one of its transactions.     *)
SynchronizedIsTrue ==
  \A i \in Instances :
    /\ db[i].status = "synchronized" /\ db[i].journal = {}
    /\ record.owner = i /\ ~Problem /\ ~outside.raced
    => /\ IF db[i].active = "official" THEN config.by = NoInst
          ELSE config = Want(i, db[i].active)
       /\ (auth.val = ManagedKey) = (db[i].active = "managed")

(* An owner at rest, with its files as it recorded them, can start the     *)
(* next operation: no leftover of an earlier one refuses it for ever.      *)
OwnerMayWrite ==
  AtRest /\ ~Problem =>
    \A i \in Instances : record.owner = i => CanBegin(i, FALSE)

(* A release whose hand-over became durable can always be closed: when the *)
(* journal still has its row and the generation has moved on, serving the  *)
(* row again recognises the hand-over and only cleans up.                  *)
HandOverCanBeClosed ==
  \A i \in Instances : \A op \in db[i].journal :
    op.op = "release" /\ record.gen > op.gen => HandedOver(op.req)

(* Only the instance's own change of hands takes its current lease away:   *)
(* a replayed or late release never touches a newer lease or its backup.   *)
CurrentLeaseIsKept ==
  [][\A i \in Instances :
       record.owner = i /\ record.gen # 0 /\ db[i].lease = record.gen =>
         /\ db'[i].lease = record.gen
         /\ db[i].backup.gen = record.gen /\ db'[i].backup = NoBackup =>
              auth.val # ManagedKey]_vars

(* The protocol implements the directory lease.                            *)
Lease == INSTANCE DirectoryLease WITH
  owner <- record.owner,
  heir <- IF record.owner = NoInst THEN record.pending.by ELSE NoInst,
  generation <- record.gen,
  tenant <- config.by

LeaseSpec == Lease!Spec

-----------------------------------------------------------------------------
(* The inductive invariant behind the safety properties.                   *)

\* Release writes before the hand-over is durable, and after it.
EarlyPcs == {"rjournal", "rpending", "rconfig", "rauth", "reserve"}
LatePcs == ReleasePcs \ EarlyPcs

\* Instance i is the one request r asked to leave, and another one asked.
Serves(i, r) ==
  r \in Requests /\ ask[r].posed /\ ask[r].owner = i /\ Requester[r] # i

\* Only the holder of the directory lock is between two writes.
LockHeld == \A i \in Instances : proc[i].pc # "idle" => lock = i

\* It writes as the recorded owner, or finishes a release.
HolderOwns ==
  \A i \in Instances : proc[i].pc \in WritePcs \cup EarlyPcs \cup TakeoverPcs =>
    record.owner = i /\ record.gen # 0

\* A release serves the request that named its generation.
ReleaseServes ==
  \A i \in Instances : LET r == proc[i].req IN
    /\ proc[i].pc \in ReleasePcs => Serves(i, r)
    /\ proc[i].pc \in EarlyPcs => ask[r].gen = record.gen
    /\ proc[i].pc \in LatePcs =>
         /\ ask[r].gen < record.gen
         /\ proc[i].mode = "release" => record.owner = NoInst

CallsServed ==
  \A r \in Requests : call[r] = "rpc" \/ r \in stray =>
    ask[r].posed /\ ask[r].owner # Requester[r]

RowsServed ==
  \A i \in Instances : \A op \in db[i].journal :
    op.op = "release" => Serves(i, op.req)

\* What a request saw stays true until the generation moves on.
RequestSeen ==
  \A r \in Requests :
    /\ ask[r].posed =>
         /\ ask[r].gen <= record.gen
         /\ ask[r].gen = record.gen => ask[r].owner = record.owner
    /\ ask[r].released => ask[r].posed /\ ask[r].gen < record.gen

\* A directory without an owner is new, or reserved for one instance.
Reservation ==
  /\ record.gen = 0 => record.owner = NoInst /\ record.pending = NoPending
  /\ record.owner = NoInst /\ record.gen # 0 => record.pending.kind = "takeover"
  /\ record.pending.kind = "takeover" =>
       record.owner \in {NoInst, record.pending.by}

\* A release takes the configuration out before it hands the record over.
ConfigIsOut ==
  \A i \in Instances : proc[i].pc \in {"rauth", "reserve"} => config.by = NoInst

\* The backup is there before the key is written, and goes after it is gone.
BackupOrder(i) ==
  /\ \/ proc[i].pc = "require"
     \/ proc[i].pc = "config" /\ Managed(i) /\ ~Recovering(i)
     \/ proc[i].pc = "auth" /\ Managed(i)
     => db[i].backup.gen = record.gen
  /\ \/ proc[i].pc \in {"lease", "journal", "start", "backup"}
     \/ proc[i].pc = "config" /\ Recovering(i)
     => ~proc[i].made
  /\ proc[i].pc \in {"drop", "undrop"} => ~Managed(i)
  /\ \/ proc[i].pc \in {"require", "config"} /\ proc[i].made
     \/ proc[i].pc \in {"active", "finish", "drop", "undrop", "refinish"}
          /\ ~Managed(i)
     \/ proc[i].pc \in {"undo", "reserve"}
     => auth.val # ManagedKey

BackupFirst == \A i \in Instances : BackupOrder(i)

\* No backup is of a generation still to come.
BackupsPast == \A i \in Instances : db[i].backup.gen <= record.gen

\* Nobody writes over a login that the record does not show: the owner's next
\* transaction is refused, and no takeover that was checked before it is left.
Refused ==
  /\ record.scope /\ record.fp.auth # auth.val /\ record.pending.kind = "none"
  /\ \A i \in Instances :
       proc[i].pc \notin WritePcs \cup EarlyPcs \cup TakeoverPcs \cup {"receipt"}
  /\ \A r \in Requests : record.owner = Requester[r] => call[r] \notin {"rpc", "served", "claim"}

\* A covered login is in auth.json, or in the backup of the owner, who holds it
\* for the managed key; and while it is in auth.json, a backup that could be
\* put over it holds it too, or the record refuses.
LoginIsSafe ==
  outside.when = "covered" =>
    /\ \/ auth.val = outside.login
       \/ auth.val = ManagedKey /\ \E i \in Instances :
            record.owner = i /\ db[i].backup = [val |-> outside.login, gen |-> record.gen]
    /\ \A i \in Instances :
         record.owner = i /\ db[i].backup.gen = record.gen /\ db[i].backup.val # outside.login =>
           Refused

\* What the record is marked with while one writer is at work; a takeover ends
\* with nothing managed, and recovery enters the saga past its journal row.
Marked(i) ==
  /\ proc[i].pc = "backup" /\ proc[i].mode = "apply" => record.pending.kind = "write"
  /\ proc[i].pc \in {"rconfig", "rauth", "reserve"} => record.pending.kind = "release"
  /\ proc[i].pc \in TakeoverPcs => record.pending.kind = "takeover"
  /\ proc[i].pc = "tclear" => db[i].status = "unmanaged"
  /\ proc[i].pc \in {"lease", "journal", "start"} => ~Recovering(i)

\* What the saga of instance i has done so far, if nobody raced it.
AuthDone == {"finish", "drop", "undrop", "refinish", "active", "seal", "complete"}
FilesWritten(i) ==
  /\ \/ proc[i].pc \in AuthDone \cup {"auth"}
     \/ proc[i].pc \in {"backup", "require"} /\ Recovering(i)
     => config = Want(i, proc[i].kind)
  /\ proc[i].pc \in AuthDone => (auth.val = ManagedKey <=> Managed(i))
  /\ \/ proc[i].pc \in {"seal", "complete"}
     \/ proc[i].pc \in AuthDone \ {"active"} /\ Recovering(i)
     => db[i].active = proc[i].kind
  /\ proc[i].pc = "complete" => record.fp = Live(record.scope)

\* The record shows what the active provider of instance i makes of the files.
ShowsActive(i) ==
  LET shown == IF record.scope THEN record.fp.auth ELSE auth.val IN
  /\ IF db[i].active = "official" THEN record.fp.cfg.by = NoInst
     ELSE record.fp.cfg = Want(i, db[i].active)
  /\ shown = ManagedKey <=> db[i].active = "managed"

\* The journal holds a row of the saga: it runs, or recovery has still to.
Journalled(i) == \E op \in db[i].journal : op.op = "apply"

Reported(i) ==
  /\ db[i].status = "synchronized" /\ ~Journalled(i)
  /\ record.owner = i /\ record.pending.kind = "none"

\* What instance i tells its user, once it has closed its own row.
Told(i) ==
  /\ proc[i].pc \in WritePcs \ {"lease", "journal"} => Journalled(i)
  /\ Marked(i)
  /\ ~outside.raced => FilesWritten(i) /\ (Reported(i) => ShowsActive(i))

NewIsOfficial == record.gen = 0 => \A i \in Instances : db[i].active = "official"

StatusIsShown == NewIsOfficial /\ \A i \in Instances : Told(i)

\* Without crashes, a backup and the marker that requires it are the owner's
\* own, of its lease, or about to be removed by the operation that holds the lock.
NothingIsLeft ==
  \A i \in Instances :
    /\ proc[i].phase # "down"
    /\ proc[i].pc \in EarlyPcs => proc[i].mode = "release"
    /\ HasBackup(i) =>
         \/ record.owner = i /\ db[i].backup.gen = record.gen
         \/ /\ proc[i].pc \in {"receipt", "unlease", "runback"}
            /\ proc[i].mode = "release"
            /\ db[i].backup.gen = ask[proc[i].req].gen
    /\ record.owner = i /\ record.gen \in db[i].required =>
         HasBackup(i) \/ proc[i].pc \in {"unrequire", "undrop"}
    /\ \A g \in db[i].required : g <= record.gen

(* Together with the properties they are there for, preserved by any step. *)
Inv ==
  /\ TypeOK
  /\ LockHeld /\ HolderOwns /\ ReleaseServes /\ CallsServed /\ RowsServed
  /\ RequestSeen /\ Reservation /\ ConfigIsOut /\ BackupFirst
  /\ ConfigIsOwners /\ LeaseIsOwners /\ NativeLoginRecoverable

(* The same with what the two user-facing promises need: the last covered  *)
(* login is kept, and the status users see is true.                        *)
FullInv == Inv /\ BackupsPast /\ LoginIsSafe /\ StatusIsShown

-----------------------------------------------------------------------------
(* Progress.                                                               *)

(* Whatever fails, an operation ends and its directory lock is dropped.    *)
OperationsEnd == \A i \in Instances : lock = i ~> lock # i

(* A start gets through recovery and reconciliation, unless it crashes.    *)
StartsEnd ==
  \A i \in Instances :
    proc[i].phase \in {"recover", "reconcile"} ~>
      proc[i].phase \in {"ready", "down"}

(* Every takeover call returns to its caller.                              *)
TakeoversEnd == \A r \in Requests : call[r] # "idle" ~> call[r] = "idle"

(* A hand-over that has begun ends with the requester as the owner, if the *)
(* requester keeps asking.                                                 *)
HandOverCompletes ==
  \A r \in Requests :
    record.pending.kind = "release" /\ record.pending.req = r ~>
      record.owner = Requester[r]

=============================================================================
