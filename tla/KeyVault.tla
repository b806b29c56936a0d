------------------------------ MODULE KeyVault ------------------------------
(***************************************************************************)
(* The master key of one daemon (crypto.rs): its versions in the key store *)
(* of the operating system, the current key's record and the secrets it    *)
(* encrypts in the database, the copy in memory, and the recovery key the  *)
(* operator keeps.  rotate, import and every write of a secret hold the    *)
(* mutation lock; export_recovery_key and doctor do not, so they fall      *)
(* between any two steps of the others.  A key is a number, minted in      *)
(* order; 0 is no key.  The record identifies its key by the verifier.     *)
(***************************************************************************)
EXTENDS Integers, FiniteSets

CONSTANTS
  Secrets,     \* rows of provider_secrets and protected_values
  MaxVersion,  \* bound on key versions (u32 in the code)
  Budget       \* how many times each environment event may happen

\* crash: the daemon dies; fail: the key store or database refuses one call;
\* lose: the key store loses the current key.
Events == {"crash", "fail", "lose"}

ASSUME VersionsAssumption == MaxVersion \in Nat \ {0}
ASSUME EventsAssumption == Budget \in [Events -> Nat]

VARIABLES
  store,     \* the key store: key held under each version
  record,    \* the current row of encryption_keys
  vault,     \* version and key each secret is encrypted with
  cleanup,   \* setting key_cleanup_pending: an old version to delete
  mark,      \* setting saying that a recovery key was exported
  material,  \* the key in memory; NoKey while locked
  task,      \* the operation that holds the mutation lock
  probe,     \* a doctor call: the version it found pending
  export,    \* an export_recovery_key call: the key it returns
  up,        \* the daemon runs
  minted,    \* history: keys generated so far
  held,      \* history: recovery keys the operator has
  blurred,   \* history: an export or a rotation did not end cleanly
  outrun,    \* history: doctor cleared a cleanup it had not seen
  budget     \* what is left of Budget

vars == <<store, record, vault, cleanup, mark, material, task, probe, export,
          up, minted, held, blurred, outrun, budget>>
disk == <<store, record, vault, cleanup, mark>>
history == <<minted, held, blurred, outrun>>
\* What a step of the running operation leaves alone.
aside == <<probe, export, up, history, budget>>

Versions == 1..MaxVersion
NoKey == [version |-> 0, key |-> 0]
NoTask == [pc |-> "idle", new |-> NoKey, old |-> 0, rows |-> {}]
NoProbe == [pc |-> "idle", version |-> 0]
NoExport == [pc |-> "idle", key |-> NoKey]

Init ==
  /\ store = [v \in Versions |-> 0]
  /\ record = NoKey
  /\ vault = [s \in Secrets |-> NoKey]
  /\ cleanup = 0
  /\ mark = FALSE
  /\ material = NoKey
  /\ task = NoTask
  /\ probe = NoProbe
  /\ export = NoExport
  /\ up = FALSE
  /\ minted = 0
  /\ held = {}
  /\ blurred = FALSE
  /\ outrun = FALSE
  /\ budget = Budget

-----------------------------------------------------------------------------
Spend(event) ==
  /\ budget[event] > 0
  /\ budget' = [budget EXCEPT ![event] = @ - 1]

At(pc) == up /\ task.pc = pc
Goto(pc) == task' = [task EXCEPT !.pc = pc]
Free == At("idle")
Unlocked == material # NoKey

\* Between its commit and its last setting a rotation is not finished.
Committed == task.pc \in {"load", "delete", "clear", "unmark"}

-----------------------------------------------------------------------------
(* CryptoManager::initialize.                                              *)

\* The database has a key record: load its key, or start locked.
Start ==
  /\ ~up /\ record # NoKey
  /\ up' = TRUE
  /\ \/ /\ material' = IF store[record.version] = record.key
                       THEN record ELSE NoKey
        /\ UNCHANGED budget
     \/ /\ Spend("fail")
        /\ UNCHANGED material
  /\ UNCHANGED <<disk, task, probe, export, history>>

\* An empty database: adopt a provisioned key, or generate one and store it.
StartFresh ==
  /\ ~up /\ record = NoKey
  /\ up' = TRUE
  /\ \/ /\ store[1] # 0
        /\ task' = [NoTask EXCEPT !.pc = "record",
                                  !.new = [version |-> 1, key |-> store[1]]]
        /\ UNCHANGED <<store, minted, budget>>
     \/ /\ store[1] = 0
        /\ minted' = minted + 1
        /\ store' = [store EXCEPT ![1] = minted + 1]
        /\ task' = [NoTask EXCEPT !.pc = "record",
                                  !.new = [version |-> 1, key |-> minted + 1]]
        /\ UNCHANGED budget
     \/ /\ Spend("fail")
        /\ UNCHANGED <<store, minted, task>>
  /\ UNCHANGED <<record, vault, cleanup, mark, material, probe, export, held,
                 blurred, outrun>>

InitializeRecord ==
  /\ At("record")
  /\ record' = task.new
  /\ material' = task.new
  /\ task' = NoTask
  /\ UNCHANGED <<store, vault, cleanup, mark, aside>>

-----------------------------------------------------------------------------
(* rotate_key and CryptoManager::rotate.                                   *)

\* retry_pending_cleanup comes first.
Rotate ==
  /\ Free
  /\ task' = [NoTask EXCEPT !.pc = IF cleanup = 0 THEN "read" ELSE "retry",
                            !.old = cleanup]
  /\ UNCHANGED <<disk, material, aside>>

RetryDelete ==
  /\ At("retry")
  /\ store' = [store EXCEPT ![task.old] = 0]
  /\ Goto("retried")
  /\ UNCHANGED <<record, vault, cleanup, mark, material, aside>>

RetryClear ==
  /\ At("retried")
  /\ cleanup' = 0
  /\ Goto("read")
  /\ UNCHANGED <<store, record, vault, mark, material, aside>>

\* Secrets that are there: all of them must decrypt with the key in memory.
Rows == {s \in Secrets : vault[s] # NoKey}

\* Mutant: the version is not checked for overflow.
CanRotate_Unbounded == Unlocked /\ \A s \in Rows : vault[s] = material

CanRotate ==
  /\ Unlocked
  /\ material.version < MaxVersion
  /\ \A s \in Rows : vault[s] = material

ReadSecrets ==
  /\ At("read")
  /\ \/ /\ CanRotate
        /\ minted' = minted + 1
        /\ task' = [pc |-> "store",
                    new |-> [version |-> material.version + 1, key |-> minted + 1],
                    old |-> material.version, rows |-> Rows]
     \/ /\ ~CanRotate
        /\ task' = NoTask
        /\ UNCHANGED minted
  /\ UNCHANGED <<disk, material, probe, export, up, held, blurred, outrun,
                 budget>>

\* Mutant: the new key is not stored.
StoreKey_Skipped ==
  /\ At("store")
  /\ Goto("commit")
  /\ UNCHANGED <<disk, material, aside>>

StoreKey ==
  /\ At("store")
  /\ store' = [store EXCEPT ![task.new.version] = task.new.key]
  /\ Goto("commit")
  /\ UNCHANGED <<record, vault, cleanup, mark, material, aside>>

\* Mutant: the old version is not noted for deletion.
Commit_Unnoted ==
  /\ At("commit")
  /\ vault' = [s \in Secrets |->
                    IF s \in task.rows THEN task.new ELSE vault[s]]
  /\ record' = task.new
  /\ Goto("load")
  /\ UNCHANGED <<store, cleanup, mark, material, aside>>

\* replace_secrets_and_key: one transaction.
Commit ==
  /\ At("commit")
  /\ vault' = [s \in Secrets |->
                    IF s \in task.rows THEN task.new ELSE vault[s]]
  /\ record' = task.new
  /\ cleanup' = task.old
  /\ Goto("load")
  /\ UNCHANGED <<store, mark, material, aside>>

LoadKey ==
  /\ At("load")
  /\ material' = task.new
  /\ Goto("delete")
  /\ UNCHANGED <<disk, aside>>

\* Mutant: the new key is deleted, not the old one.
DeleteOld_Current ==
  /\ At("delete")
  /\ store' = [store EXCEPT ![task.new.version] = 0]
  /\ Goto("clear")
  /\ UNCHANGED <<record, vault, cleanup, mark, material, aside>>

DeleteOld ==
  /\ At("delete")
  /\ store' = [store EXCEPT ![task.old] = 0]
  /\ Goto("clear")
  /\ UNCHANGED <<record, vault, cleanup, mark, material, aside>>

ClearCleanup ==
  /\ At("clear")
  /\ cleanup' = 0
  /\ Goto("unmark")
  /\ UNCHANGED <<store, record, vault, mark, material, aside>>

\* Mutant: the exported mark survives the rotation.
Unmark_Forgotten ==
  /\ At("unmark")
  /\ task' = NoTask
  /\ UNCHANGED <<disk, material, aside>>

\* The exported recovery keys are of an older version now.
Unmark ==
  /\ At("unmark")
  /\ mark' = FALSE
  /\ task' = NoTask
  /\ UNCHANGED <<store, record, vault, cleanup, material, aside>>

\* A failed commit takes the new key back, and ignores a failure to.
UndoStore ==
  /\ At("undo")
  /\ \/ store' = [store EXCEPT ![task.new.version] = 0] /\ UNCHANGED budget
     \/ Spend("fail") /\ UNCHANGED store
  /\ task' = NoTask
  /\ UNCHANGED <<record, vault, cleanup, mark, material, probe, export, up,
                 history>>

-----------------------------------------------------------------------------
(* import_recovery_key, and writes of secrets.                             *)

Import ==
  /\ Free /\ record # NoKey /\ record.key \in held
  /\ task' = [NoTask EXCEPT !.pc = "istore", !.new = record]
  /\ UNCHANGED <<disk, material, aside>>

ImportStore ==
  /\ At("istore")
  /\ store' = [store EXCEPT ![task.new.version] = task.new.key]
  /\ Goto("iload")
  /\ UNCHANGED <<record, vault, cleanup, mark, material, aside>>

ImportLoad ==
  /\ At("iload")
  /\ material' = task.new
  /\ Goto("imark")
  /\ UNCHANGED <<disk, aside>>

ImportMark ==
  /\ At("imark")
  /\ mark' = TRUE
  /\ task' = NoTask
  /\ UNCHANGED <<store, record, vault, cleanup, material, aside>>

\* Mutant: the mutation lock is not taken.
MayWrite_Unlocked == up /\ Unlocked

MayWrite == Free /\ Unlocked

\* A provider, an account or a backup is saved.
PutSecret(s) ==
  /\ MayWrite
  /\ vault[s] # material
  /\ vault' = [vault EXCEPT ![s] = material]
  /\ UNCHANGED <<store, record, cleanup, mark, material, task, aside>>

DropSecret(s) ==
  /\ Free
  /\ vault[s] # NoKey
  /\ vault' = [vault EXCEPT ![s] = NoKey]
  /\ UNCHANGED <<store, record, cleanup, mark, material, task, aside>>

-----------------------------------------------------------------------------
(* Calls that do not take the mutation lock.                               *)

ExportKey ==
  /\ up /\ export.pc = "idle" /\ Unlocked
  /\ export' = [pc |-> "mark", key |-> material]
  /\ UNCHANGED <<disk, material, task, probe, up, history, budget>>

\* mark_recovery_key_held.
MarkHeld ==
  /\ up /\ export.pc = "mark"
  /\ mark' = TRUE
  /\ export' = [export EXCEPT !.pc = "answer"]
  /\ blurred' = (blurred \/ export.key # record)
  /\ UNCHANGED <<store, record, vault, cleanup, material, task, probe, up,
                 minted, held, outrun, budget>>

AnswerExport ==
  /\ up /\ export.pc = "answer"
  /\ held' = held \cup {export.key.key}
  /\ export' = NoExport
  /\ UNCHANGED <<disk, material, task, probe, up, minted, blurred, outrun,
                 budget>>

\* doctor retries the pending cleanup.
Doctor ==
  /\ up /\ probe.pc = "idle" /\ cleanup # 0
  /\ probe' = [pc |-> "delete", version |-> cleanup]
  /\ UNCHANGED <<disk, material, task, export, up, history, budget>>

DoctorDelete ==
  /\ up /\ probe.pc = "delete"
  /\ \/ /\ store' = [store EXCEPT ![probe.version] = 0]
        /\ probe' = [probe EXCEPT !.pc = "clear"]
        /\ UNCHANGED budget
     \/ /\ Spend("fail")
        /\ probe' = NoProbe
        /\ UNCHANGED store
  /\ UNCHANGED <<record, vault, cleanup, mark, material, task, export, up,
                 history>>

DoctorClear ==
  /\ up /\ probe.pc = "clear"
  /\ cleanup' = 0
  /\ probe' = NoProbe
  /\ outrun' = (outrun \/ cleanup \notin {0, probe.version})
  /\ UNCHANGED <<store, record, vault, mark, material, task, export, up,
                 minted, held, blurred, budget>>

-----------------------------------------------------------------------------
(* Failures.                                                               *)

\* The key store or the database refuses a step and its operation returns the
\* error; a rotation whose commit failed takes its key back first.
Fail ==
  /\ up /\ task.pc \notin {"idle", "record", "load", "undo", "iload"}
  /\ Spend("fail")
  /\ IF At("commit") THEN Goto("undo") ELSE task' = NoTask
  /\ blurred' = (blurred \/ Committed)
  /\ UNCHANGED <<disk, material, probe, export, up, minted, held, outrun>>

Crash ==
  /\ up
  /\ Spend("crash")
  /\ up' = FALSE
  /\ material' = NoKey
  /\ task' = NoTask
  /\ probe' = NoProbe
  /\ export' = NoExport
  /\ blurred' = (blurred \/ Committed \/ export.pc = "answer")
  /\ UNCHANGED <<disk, minted, held, outrun>>

LoseKey ==
  /\ record # NoKey
  /\ Spend("lose")
  /\ store' = [store EXCEPT ![record.version] = 0]
  /\ UNCHANGED <<record, vault, cleanup, mark, material, task, probe, export,
                 up, history>>

-----------------------------------------------------------------------------
Next ==
  \/ Start \/ StartFresh \/ InitializeRecord
  \/ Rotate \/ RetryDelete \/ RetryClear \/ ReadSecrets \/ StoreKey \/ Commit
  \/ LoadKey \/ DeleteOld \/ ClearCleanup \/ Unmark \/ UndoStore
  \/ Import \/ ImportStore \/ ImportLoad \/ ImportMark
  \/ \E s \in Secrets : PutSecret(s) \/ DropSecret(s)
  \/ ExportKey \/ MarkHeld \/ AnswerExport
  \/ Doctor \/ DoctorDelete \/ DoctorClear
  \/ Fail \/ Crash \/ LoseKey

Spec == Init /\ [][Next]_vars

-----------------------------------------------------------------------------
Keys == [version: 0..MaxVersion, key: Nat]
Pcs == {"idle", "record", "retry", "retried", "read", "store", "commit", "load",
        "delete", "clear", "unmark", "undo", "istore", "iload", "imark"}
Tasks == [pc: Pcs, new: Keys, old: 0..MaxVersion, rows: SUBSET Secrets]
Probes == [pc: {"idle", "delete", "clear"}, version: 0..MaxVersion]
Exports == [pc: {"idle", "mark", "answer"}, key: Keys]

(* Every variable keeps the shape the code gives it.                       *)
TypeOK ==
  /\ store \in [Versions -> Nat]
  /\ record \in Keys
  /\ vault \in [Secrets -> Keys]
  /\ cleanup \in 0..MaxVersion
  /\ mark \in BOOLEAN
  /\ material \in Keys
  /\ task \in Tasks
  /\ probe \in Probes
  /\ export \in Exports
  /\ up \in BOOLEAN
  /\ minted \in Nat
  /\ held \in SUBSET Nat
  /\ blurred \in BOOLEAN
  /\ outrun \in BOOLEAN
  /\ budget \in [Events -> Nat]

(* Whatever fails or crashes during a rotation, an import or a cleanup,    *)
(* the daemon itself never deletes or overwrites the current key's entry.  *)
KeyIsStored ==
  budget["lose"] = Budget["lose"] /\ record # NoKey =>
    store[record.version] = record.key

(* Every secret is encrypted with the recorded key: none is left behind by *)
(* a rotation, none is written with a key that a rotation has replaced.    *)
SecretsAreCurrent == \A s \in Secrets : vault[s] \in {NoKey, record}

(* An old key stays in the key store only while its deletion is pending,   *)
(* unless a doctor call cleared a cleanup that a rotation had just noted.  *)
OldKeysAreCleaned ==
  ~outrun => \A v \in Versions :
    v < record.version /\ store[v] # 0 => cleanup = v

(* At rest, a recovery key that is reported as exported is one the         *)
(* operator has and an import would accept.                                *)
RecoveryKeyIsHeld ==
  Free /\ export.pc = "idle" /\ mark => record.key \in held

(* The same, unless an export was overtaken by a rotation or lost its      *)
(* answer, or a rotation ended with an error after its commit.             *)
RecoveryMarkIsTrue == ~blurred => RecoveryKeyIsHeld

-----------------------------------------------------------------------------
(* The inductive invariant behind them.                                    *)

Rotating == task.pc \in {"store", "commit", "undo"}
Importing == task.pc \in {"istore", "iload", "imark"}

\* A daemon that is down does nothing; one without a record has no secrets.
Quiet ==
  /\ ~up => task = NoTask /\ probe = NoProbe /\ export = NoExport
  /\ record = NoKey => ~mark /\ export.pc = "idle"
  /\ record # NoKey => record.version \in Versions

Spent == budget["lose"] <= Budget["lose"]

\* What deletions aim at is older than the current key.
OldVersions ==
  /\ cleanup = 0 \/ cleanup < record.version
  /\ probe.pc # "idle" => probe.version < record.version
  /\ task.pc \in {"retry", "retried", "load", "delete", "clear"} =>
       task.old < record.version /\ cleanup \in {0, task.old}
  /\ task.pc \in {"read", "store", "commit"} => cleanup = 0

\* What was deleted stays deleted until its cleanup is cleared.
Deleted ==
  /\ probe.pc = "clear" /\ probe.version \in Versions =>
       store[probe.version] = 0
  /\ task.pc \in {"retried", "clear"} /\ task.old \in Versions =>
       store[task.old] = 0

\* The key a task works with, and the one in memory.
TaskKeys ==
  /\ task.pc = "record" =>
       /\ record = NoKey /\ material = NoKey
       /\ task.new.version = 1 /\ task.new.key = store[1]
  /\ Rotating =>
       /\ record # NoKey /\ material = record /\ task.rows = Rows
       /\ task.old = record.version
       /\ task.new.version = record.version + 1
       /\ task.new.version \in Versions
  /\ task.pc = "commit" => store[task.new.version] = task.new.key
  /\ Committed \/ Importing => record # NoKey /\ task.new = record
  /\ Importing => record.key \in held
  /\ material # NoKey /\ task.pc # "load" => material = record

\* An export that has marked the key hands over the recorded one.
Marked ==
  ~blurred /\ mark /\ ~Committed =>
    record.key \in held \/ (export.pc = "answer" /\ export.key = record)

(* Together with the properties they are there for, preserved by any step. *)
Inv ==
  /\ TypeOK
  /\ Quiet /\ Spent /\ OldVersions /\ Deleted /\ TaskKeys /\ Marked
  /\ KeyIsStored /\ SecretsAreCurrent /\ OldKeysAreCleaned
=============================================================================
