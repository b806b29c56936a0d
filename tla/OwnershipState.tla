--------------------------- MODULE OwnershipState ---------------------------
(***************************************************************************)
(* State of one shared Codex configuration directory and of the hsind      *)
(* instances that compete for it: the client's config.toml and auth.json,  *)
(* the ownership record and directory lock beside them (ownership.rs), and *)
(* each instance's database and running mutation (app.rs).                 *)
(*                                                                         *)
(* Files are reduced to what the code compares.  config is the projection  *)
(* ownership_fingerprints hashes; auth keeps the projection (auth_mode and *)
(* OPENAI_API_KEY) as val, and the rest of the file, which only the hash   *)
(* of the whole file sees, as rev.                                         *)
(***************************************************************************)
EXTENDS Integers, FiniteSets

CONSTANTS
  Instances,    \* hsind instances that share the directory
  NoInst,       \* no instance
  Requests,     \* takeover request identifiers
  NoReq,        \* no request
  Requester,    \* the instance that issues each takeover request
  Logins,       \* values of auth.json's owned fields a native login can give
  FirstLogin,   \* the one present before hsin runs
  NoLogin,      \* no value
  ManagedKey,   \* the placeholder hsin writes over them
  SwitchKinds,  \* kinds of provider the users switch to
  Budget        \* how many times each environment event may happen

Kinds == {"official", "managed", "preserved"}

\* switch: user operations; crash: daemon crashes; login: native logins;
\* refresh: rewrites of unowned auth.json fields; edit: edits of owned
\* config.toml keys; fail: lost RPCs and lock contentions.
Events == {"switch", "crash", "login", "refresh", "edit", "fail"}

ASSUME InstancesAssumption == NoInst \notin Instances
ASSUME RequestsAssumption ==
  NoReq \notin Requests /\ Requester \in [Requests -> Instances]
ASSUME LoginsAssumption ==
  /\ FirstLogin \in Logins
  /\ NoLogin \notin Logins
  /\ ManagedKey \notin Logins \cup {NoLogin}
ASSUME BoundsAssumption ==
  SwitchKinds \subseteq Kinds /\ Budget \in [Events -> Nat]

VARIABLES
  config,  \* config.toml: who wrote the managed projection, and for what kind
  auth,    \* auth.json
  record,  \* this target's entry of .hsin-config-owner.json; gen = 0 is absent
  lock,    \* holder of .hsin-config-owner.lock
  db,      \* settings, protected values and operations of each instance
  ask,     \* durable receipts of each takeover request, at both ends
  proc,    \* the mutation each instance is running, lost in a crash
  call,    \* the takeover coroutine of each request, lost in a crash
  stray,   \* release calls on the way whose sender has given up
  budget,  \* what is left of Budget
  outside  \* history: the last native login, and whether changes raced hsin

vars == <<config, auth, record, lock, db, ask, proc, call, stray, budget, outside>>

-----------------------------------------------------------------------------
Native == [by |-> NoInst, kind |-> "native"]
Edited == [by |-> NoInst, kind |-> "edited"]

\* What config.toml holds once instance i has applied a provider of kind k.
Want(i, k) == IF k = "official" THEN Native ELSE [by |-> i, kind |-> k]

Configs == {Native, Edited} \cup [by: Instances, kind: {"managed", "preserved"}]
AuthFiles == [val: Logins \cup {ManagedKey}, rev: Nat]
NoAuth == [val |-> NoLogin, rev |-> 0]

NoPending == [kind |-> "none", req |-> NoReq, by |-> NoInst]
NoBackup == [val |-> NoLogin, gen |-> 0]

\* The owned fields as they are now, under a scope that covers auth.json or not.
Live(scope) == [cfg |-> config, auth |-> IF scope THEN auth.val ELSE NoLogin]

Unclaimed(gen, scope) ==
  [gen |-> gen, owner |-> NoInst, scope |-> scope, fp |-> Live(scope),
   pending |-> NoPending]

-----------------------------------------------------------------------------
(* What an instance reads before it acts.                                  *)

HasBackup(i) == db[i].backup.gen # 0

\* Mutant: drift of the owned fields goes unnoticed.
Problem_IgnoresDrift ==
  IF record.gen = 0 THEN config.by # NoInst ELSE record.pending.kind # "none"

\* ownership_problem: why nobody but the record's own transaction may proceed.
Problem ==
  IF record.gen = 0 THEN config.by # NoInst
  ELSE record.pending.kind # "none" \/ Live(record.scope) # record.fp

\* validate_codex_backup_record: a backup is this lease's, or not required.
ValidBackup(i) ==
  IF HasBackup(i) THEN db[i].backup.gen = record.gen
  ELSE record.gen \notin db[i].required

\* codex_auth_target_is_applied.
Applied(i, k) ==
  IF k = "managed" THEN auth.val = ManagedKey
  ELSE HasBackup(i) => auth.val = db[i].backup.val

\* ensure_codex_official_auth_available.
Available(i, k) ==
  k = "preserved" => \/ db[i].preserve
                     \/ HasBackup(i)
                     \/ auth.val # ManagedKey

-----------------------------------------------------------------------------
(* The mutation an instance runs.  phase: the daemon's life, from recovery *)
(* of its journal to serving; mode: the operation; pc: the next durable    *)
(* write; kind, preserve, cfg, auth, id: the ConfigTarget and its journal  *)
(* row; made: this operation captured the backup; req: the takeover it     *)
(* serves.                                                                 *)

IdleProc ==
  [phase |-> "ready", mode |-> "none", pc |-> "idle", kind |-> "official",
   preserve |-> FALSE, cfg |-> Native, auth |-> NoAuth, id |-> 0,
   made |-> FALSE, req |-> NoReq]

Idle(i) == proc[i].phase = "ready" /\ proc[i].pc = "idle"
At(i, pc) == proc[i].pc = pc
Recovering(i) == proc[i].mode = "recover"
Managed(i) == proc[i].kind = "managed"

\* Another daemon may hold the directory lock just long enough to refuse.
Contended(i) == \E j \in Instances \ {i} : Idle(j)

Goto(i, pc) == proc' = [proc EXCEPT ![i].pc = pc]

\* Mutant: the directory lock outlives the operation.
Return_KeepsLock(i) ==
  /\ UNCHANGED lock
  /\ proc' = [proc EXCEPT ![i] =
       [IdleProc EXCEPT
          !.phase = IF proc[i].mode = "reconcile" THEN "ready"
                    ELSE proc[i].phase,
          !.id = IF proc[i].phase = "recover" THEN proc[i].id ELSE 0]]

\* The operation returns: its locals die, the directory lock is dropped.
Return(i) ==
  /\ lock' = NoInst
  /\ proc' = [proc EXCEPT ![i] =
       [IdleProc EXCEPT
          !.phase = IF proc[i].mode = "reconcile" THEN "ready"
                    ELSE proc[i].phase,
          !.id = IF proc[i].phase = "recover" THEN proc[i].id ELSE 0]]

Spend(event) ==
  /\ budget[event] > 0
  /\ budget' = [budget EXCEPT ![event] = @ - 1]

\* Nothing is in flight: an outside change meets no unfinished transaction.
AtRest ==
  /\ lock = NoInst
  /\ record.pending.kind = "none"
  /\ \A i \in Instances : db[i].journal = {}

\* A takeover that was checked, and has still to be claimed by the owner itself.
Checked(r) ==
  \/ call[r] = "claim"
  \/ call[r] \in {"rpc", "served"} /\ record.owner = Requester[r]

\* When an outside change falls: inside a running transaction; over one that
\* a crash or an error left; at rest, but while a takeover is between its check
\* and its claim or while the record does not cover an auth.json that hsin
\* holds a backup of; or at rest and covered.
Moments == {"during", "pending", "rest", "covered"}
Moment ==
  IF lock # NoInst THEN "during"
  ELSE IF ~AtRest THEN "pending"
  ELSE IF \/ \E r \in Requests : Checked(r)
          \/ ~record.scope /\ \E i \in Instances :
               record.owner = i /\ HasBackup(i)
       THEN "rest"
  ELSE "covered"

\* The same for a login: one with the values the record already has is not seen.
LoginMoment(v) ==
  IF Moment = "covered" /\ record.scope /\ record.fp.auth = v THEN "rest" ELSE Moment
=============================================================================
