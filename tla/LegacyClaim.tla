----------------------------- MODULE LegacyClaim -----------------------------
(***************************************************************************)
(* Adoption of a configuration that a release without ownership records    *)
(* left behind (app/legacy_config.rs): at every start the daemon proves    *)
(* from its own journal that the client's files hold its last write,       *)
(* stages lease, receipt and rebound backup in one transaction, and only   *)
(* then publishes the record in the shared directory.  The user edits the  *)
(* files, another instance takes the directory and the daemon crashes in   *)
(* between.                                                                *)
(***************************************************************************)
EXTENDS Naturals

CONSTANTS Edits, Crashes  \* bounds: user edits or peer writes, restarts
ASSUME LegacyAssumption == Edits \in Nat /\ Crashes \in Nat

VARIABLES
  legacy,    \* what never changes here: client, journal, provider state, key store
  files,     \* config and (Codex) auth.json, as the journalled write left them?
  backup,    \* the encrypted auth.json backup and the lease it is bound to
  store,     \* settings of the daemon: receipt, config_lease, required marker, block
  record,    \* the ownership record in the client's directory
  status,    \* client_state.config_status
  claim,     \* the running migration
  spent      \* [edits, crashes]

legacyVars == <<legacy, files, backup, store, record, status, claim, spent>>

NoPrint == "none"
NoReceipt == [owner |-> "none", print |-> NoPrint]
NoRecord == NoReceipt
Mine(print) == [owner |-> "me", print |-> print]
Codex == legacy.client = "codex"

\* config: hsin = byte for byte the journalled write, edited = one managed value
\* was changed, native = none of hsin's fields.
Configs == {"hsin", "edited", "native"}
Prints == {NoPrint} \cup Configs
Blocks == {"none", "no_journal", "in_flight", "state_changed", "files_changed",
           "backup_mismatch", "model_snapshot_mismatch", "migration_failed"}

LegacyInit ==
  /\ legacy \in [client : {"codex", "claude"}, journal : BOOLEAN, matches : BOOLEAN,
                 pendingOp : BOOLEAN, snapshot : BOOLEAN, unlocked : BOOLEAN,
                 manages : BOOLEAN]
  /\ files \in [config : Configs, auth : {"hsin", "other"}]
  /\ backup \in {"none", "plain", "foreign"}
  /\ ~Codex => files.auth = "other" /\ backup = "none" /\ ~legacy.manages
  /\ Codex => legacy.snapshot
  /\ store = [receipt |-> NoReceipt, lease |-> FALSE, required |-> FALSE,
              block |-> "none"]
  /\ record = NoRecord /\ status = "pending"
  /\ claim = [pc |-> "look", seen |-> files, print |-> NoPrint]
  /\ spent = [edits |-> 0, crashes |-> 0]

ClaimAt(pc) == claim.pc = pc
ClaimGoto(pc) == claim' = [claim EXCEPT !.pc = pc]

\* legacy_ownership: a residue of hsin in the file, or state of an unfinished
\* ownership beside a file that is not a native baseline.
LegacyOwnership == files.config # "native"

\* migrate_legacy_configuration: the outcome of one client is stored; an error
\* other than a locked key store is an outcome too.
Outcome(block) ==
  /\ store' = [store EXCEPT !.block = block]
  /\ ClaimGoto("done")
  /\ status' = IF block = "migration_failed" THEN "conflict" ELSE status
LockedOut == ClaimGoto("done") /\ UNCHANGED <<store, status>>

\* Without the lock: is there anything to do?
LookForLegacy ==
  /\ ClaimAt("look")
  /\ IF store.receipt # NoReceipt THEN ClaimGoto("lock") /\ UNCHANGED <<store, status>>
     ELSE IF record # NoRecord \/ ~LegacyOwnership THEN Outcome("none")
     ELSE IF ~legacy.journal THEN Outcome("no_journal")
     ELSE ClaimGoto("lock") /\ UNCHANGED <<store, status>>
  /\ UNCHANGED <<legacy, files, backup, record, spent>>

\* The lock of the directory is tried once: a peer may hold it.
LockTarget ==
  /\ ClaimAt("lock")
  /\ \/ Outcome("migration_failed")
     \/ /\ ClaimGoto(IF store.receipt # NoReceipt THEN "publish" ELSE "prove")
        /\ UNCHANGED <<store, status>>
  /\ UNCHANGED <<legacy, files, backup, record, spent>>

\* prove_legacy_codex and prove_legacy_claude, in the order of their refusals.
HoldsItsWrite == files.config = "hsin" /\ (legacy.manages => files.auth = "hsin")
BackupFits == legacy.manages = (backup # "none") /\ backup # "foreign"
Proof ==
  CASE store.lease \/ legacy.pendingOp -> "in_flight"
    [] ~legacy.matches -> "state_changed"
    [] ~legacy.snapshot -> "model_snapshot_mismatch"
    [] ~HoldsItsWrite -> "files_changed"
    [] ~BackupFits -> "backup_mismatch"
    [] OTHER -> "none"

ProveClaim ==
  /\ ClaimAt("prove")
  /\ IF record # NoRecord THEN Outcome("none")
     ELSE IF Proof \notin {"in_flight", "state_changed", "model_snapshot_mismatch"}
             /\ ~legacy.unlocked THEN LockedOut
     ELSE IF Proof # "none" THEN Outcome(Proof)
     ELSE /\ claim' = [claim EXCEPT !.pc = "print", !.seen = files]
          /\ UNCHANGED <<store, status>>
  /\ UNCHANGED <<legacy, files, backup, record, spent>>

\* The fingerprints of the record are read after the proof, the hashes of the
\* proof compared after that.
Fingerprint ==
  /\ ClaimAt("print")
  /\ claim' = [claim EXCEPT !.pc = "stage", !.print = files.config]
  /\ UNCHANGED <<legacy, files, backup, store, record, status, spent>>

\* Mutant: the files are not compared again before the claim is stored.
StageClaim_Unchecked ==
  /\ ClaimAt("stage")
  /\ store' = [store EXCEPT !.receipt = Mine(files.config), !.lease = TRUE,
                            !.required = backup # "none"]
  /\ backup' = IF backup = "plain" THEN "bound" ELSE backup
  /\ ClaimGoto("publish")
  /\ UNCHANGED <<legacy, files, record, spent, status>>

\* stage_legacy_config_claim: one transaction.
StageClaim ==
  /\ ClaimAt("stage")
  /\ IF files # claim.seen
       THEN Outcome("migration_failed") /\ UNCHANGED backup
       ELSE /\ store' = [store EXCEPT !.receipt = Mine(claim.print), !.lease = TRUE,
                                      !.required = backup # "none"]
            /\ backup' = IF backup = "plain" THEN "bound" ELSE backup
            /\ ClaimGoto("publish") /\ UNCHANGED status
  /\ UNCHANGED <<legacy, files, record, spent>>

\* Mutant: a record that is there already is replaced.
PublishClaim_Replaces ==
  /\ ClaimAt("publish") /\ record' = store.receipt /\ ClaimGoto("forget")
  /\ UNCHANGED <<legacy, files, backup, spent, store, status>>

\* finish_legacy_claim, also what a later start does with the receipt alone.
PublishClaim ==
  /\ ClaimAt("publish")
  /\ IF record \notin {NoRecord, store.receipt} \/ ~store.lease
          \/ files.config # store.receipt.print
       THEN Outcome("migration_failed") /\ UNCHANGED record
     ELSE IF Codex /\ backup # "none" /\ ~legacy.unlocked
       THEN LockedOut /\ UNCHANGED record
     ELSE IF Codex /\ (IF backup = "none" THEN store.required ELSE backup # "bound")
       THEN Outcome("migration_failed") /\ UNCHANGED record
     ELSE /\ record' = store.receipt
          /\ ClaimGoto("forget") /\ UNCHANGED <<store, status>>
  /\ UNCHANGED <<legacy, files, backup, spent>>

ForgetReceipt ==
  /\ ClaimAt("forget")
  /\ store' = [store EXCEPT !.receipt = NoReceipt, !.block = "none"]
  /\ status' = "synchronized"
  /\ ClaimGoto("done")
  /\ UNCHANGED <<legacy, files, backup, record, spent>>

-----------------------------------------------------------------------------
(* Outside the daemon.  Nobody but the holder of the directory lock writes the *)
(* record; the user edits the files whenever they like, short of restoring     *)
(* within one migration, byte for byte, what they have just changed.           *)

UserEdits ==
  /\ spent.edits < Edits
  /\ spent' = [spent EXCEPT !.edits = @ + 1]
  /\ files' \in [config : Configs, auth : IF Codex THEN {"hsin", "other"} ELSE {"other"}]
  /\ files' # files
  /\ claim.pc \in {"print", "stage"} => files' # claim.seen
  /\ UNCHANGED <<legacy, backup, store, record, status, claim>>

PeerClaims ==
  /\ spent.edits < Edits /\ claim.pc \in {"look", "lock", "done", "down"} /\ record = NoRecord
  /\ spent' = [spent EXCEPT !.edits = @ + 1]
  /\ record' = [owner |-> "peer", print |-> files.config]
  /\ UNCHANGED <<legacy, files, backup, store, status, claim>>

StopMigration ==
  /\ spent.crashes < Crashes /\ claim.pc # "down"
  /\ spent' = [spent EXCEPT !.crashes = @ + 1]
  /\ ClaimGoto("down")
  /\ UNCHANGED <<legacy, files, backup, store, record, status>>

\* The key store may be locked at one start and not at the next.
MigrateAgain ==
  /\ ClaimAt("down")
  /\ \E u \in BOOLEAN : legacy' = [legacy EXCEPT !.unlocked = u]
  /\ claim' = [pc |-> "look", seen |-> files, print |-> NoPrint]
  /\ UNCHANGED <<files, backup, store, record, status, spent>>

LegacyNext ==
  LookForLegacy \/ LockTarget \/ ProveClaim \/ Fingerprint \/ StageClaim \/ PublishClaim
  \/ ForgetReceipt \/ UserEdits \/ PeerClaims \/ StopMigration \/ MigrateAgain

LegacySpec == LegacyInit /\ [][LegacyNext]_legacyVars

-----------------------------------------------------------------------------
(* Properties *)

LegacyTypeOK ==
  /\ store.receipt.print \in Prints /\ store.block \in Blocks
  /\ record.print \in Prints /\ record.owner \in {"none", "me", "peer"}
  /\ backup \in {"none", "plain", "foreign", "bound"}

\* A configuration is adopted only as this instance's journal says it was last
\* written: a value the user changed is never taken over as hsin's own, not even
\* when the change was made between the proof and the record.
AdoptsOnlyItsWrite ==
  /\ record.owner = "me" => record.print = "hsin"
  /\ store.receipt # NoReceipt => store.receipt.print = "hsin"

\* What release needs is there before the record is: a lease of the record's
\* generation and, when auth.json was replaced, the backup bound to that lease.
RecordIsBacked ==
  record.owner = "me" =>
    store.lease /\ (Codex /\ store.required => backup = "bound")

\* The backup is rebound to a lease only together with the lease and its receipt.
ReboundWithLease == backup = "bound" => store.lease /\ store.required

\* A record of another instance is never replaced, however the staged claim of
\* this one was interrupted.
PeerRecordIsKept ==
  [][record.owner = "peer" => record' = record]_legacyVars

\* A lease is never left alone: it has a receipt that the next start finishes,
\* or the record that it was taken for.
LeaseIsAccounted ==
  store.lease => store.receipt # NoReceipt \/ record.owner = "me"

\* A legacy configuration is adopted only as hsin wrote it, by an owner that is on
\* record and holds a lease and a backup of what it replaced.
ClaimsAreSound ==
  LegacyTypeOK /\ AdoptsOnlyItsWrite /\ RecordIsBacked /\ ReboundWithLease /\ LeaseIsAccounted
=============================================================================
