--------------------------- MODULE OfficialSwitch ---------------------------
(***************************************************************************)
(* Saved official accounts of one client and the switch between them       *)
(* (app/official_accounts.rs), inside the configuration journal of app.rs. *)
(* A switch captures what it is about to replace, journals both snapshots, *)
(* writes the native store resource by resource, and commits; the daemon   *)
(* may crash between any two of these, and the client refreshes or         *)
(* replaces its login at any time.                                         *)
(***************************************************************************)
EXTENDS NativeAuth

CONSTANTS
  Layouts,      \* native store layouts to consider
  SwitchBudget  \* how often each event from outside may happen, and any of them

Occasions == {"switch", "restart", "fail", "login", "explicit", "remove", "any"}
ASSUME OccasionsAssumption ==
  SwitchBudget \in [Occasions -> Nat] /\ Layouts \subseteq Backends
ASSUME TargetsAssumption ==
  Accounts \cap {"native", "api", "release", "inspect"} = {}

VARIABLES
  backend,    \* layout of the native store
  disk,       \* the native store
  oauth,      \* the server: sessions begun and the newest refresh of each
  vault,      \* per account its encrypted credential, and a revision that stands for
              \* the provider's identifier and credential_revision: never used again
  nativeRev,  \* official_native_revision: last revision imported from the store
  removed,    \* official_removed markers
  owner,      \* the ownership record: pending write and identity fingerprint
  applied,    \* official_applied of this lease
  baseline,   \* official_baseline of this lease: the login hsin found
  active,     \* active provider of the client
  selector,   \* what config.toml or settings.json selects
  ops,        \* pending journal rows; the oldest has the greatest id
  switch,     \* the running prepare, apply, rollback, capture or recovery
  left,       \* what is left of SwitchBudget
  history     \* what went wrong that later steps cannot tell

storeVars == <<disk, oauth>>
dbVars == <<vault, nativeRev, removed, owner, applied, baseline, active,
            selector, ops>>
switchVars == <<backend, disk, oauth, vault, nativeRev, removed, owner, applied,
                baseline, active, selector, ops, switch, left, history>>

NoApplied == [acct |-> NoAccount, rev |-> 0]
NoSnapshot == [auth |-> NoCred, meta |-> NoAccount]
NoBaseline == [kept |-> FALSE, snap |-> NoSnapshot]
Unread == [source |-> "file", auth |-> NoCred, meta |-> NoAccount,
           fallback |-> NoCred, reachable |-> FALSE]
NoOp == [id |-> 0, to |-> "native", before |-> NoSnapshot, after |-> NoSnapshot,
         state |-> NoApplied, prepared |-> Unread, selector |-> "official"]
Idle == [pc |-> "idle", to |-> "native", raw |-> Unread, op |-> NoOp,
         back |-> FALSE, queue |-> {}]

Raw == RawState(backend, disk)
Active == Snapshot(Raw)
IsSaved(a) == a \in Accounts /\ vault[a].cred # NoCred
SnapshotOf(a) == [auth |-> vault[a].cred,
                  meta |-> IF IsClaude(backend) THEN a ELSE NoAccount]

\* ownership_fingerprint: refreshes leave it alone, another login does not.
OwnedBy(b, raw) ==
  LET who == Identity(b, Snapshot(raw)) IN
  [source |-> raw.source, reachable |-> raw.reachable, identity |-> who,
   unrecognized |-> IF who = NoAccount THEN Snapshot(raw) ELSE NoSnapshot,
   fallback |-> IF raw.source = "file" THEN NoCred ELSE raw.fallback]
Unclaimed == [lease |-> FALSE, pending |-> FALSE, scoped |-> FALSE,
              print |-> OwnedBy("codex_file", Unread)]

Spend(what) ==
  /\ left[what] > 0 /\ left.any > 0
  /\ left' = [left EXCEPT ![what] = @ - 1, !.any = @ - 1]
At(pc) == switch.pc = pc
Goto(pc) == switch' = [switch EXCEPT !.pc = pc]

SwitchInit ==
  /\ backend \in Layouts
  /\ \E s \in Sessions \cup {NoCred} :
       LET c == IF s = NoCred THEN NoCred ELSE [sess |-> s, gen |-> 0] IN
       /\ disk = [secure |-> IF FileOnly(backend) THEN NoCred ELSE c,
                  file |-> IF FileOnly(backend) THEN c ELSE NoCred,
                  meta |-> IF IsClaude(backend) THEN AccountIn(c) ELSE NoAccount,
                  reachable |-> ~FileOnly(backend)]
       /\ oauth = [begun |-> {s} \cap Sessions, newest |-> [t \in Sessions |-> 0]]
  /\ vault = [a \in Accounts |-> [cred |-> NoCred, rev |-> 0]]
  /\ nativeRev = [a \in Accounts |-> 0]
  /\ removed = {} /\ owner = Unclaimed /\ applied = NoApplied
  /\ baseline = NoBaseline /\ active = "native" /\ selector = "official"
  /\ ops = {} /\ switch = Idle /\ left = SwitchBudget
  /\ history = [half |-> FALSE, torn |-> {}, handed |-> {}, dropped |-> {}]

-----------------------------------------------------------------------------
(* The clients and the user, outside the daemon. *)

\* While hsin holds Claude's lock directories, from the capture to the journal and
\* from the check to the last write, the client waits; Codex has none.
Guarded == IsClaude(backend) /\ switch.pc \in {"outgoing", "mark", "native",
             "imported", "open", "auth", "fallback", "meta", "verify"}

\* The client exchanges the refresh token it holds; the old one stops working.
Refresh ==
  LET c == Active.auth
      next == [c EXCEPT !.gen = @ + 1] IN
  /\ ~Guarded /\ c # NoCred
  /\ c.gen = oauth.newest[c.sess] /\ c.gen < MaxGen
  /\ Readable(backend, disk)
  /\ oauth' = [oauth EXCEPT !.newest[c.sess] = @ + 1]
  /\ disk' = IF Raw.source = "file" THEN [disk EXCEPT !.file = next]
             ELSE [disk EXCEPT !.secure = next]
  /\ UNCHANGED <<backend, dbVars, switch, left>>

\* The user logs in with the client itself, or (Codex) leaves a login in the
\* inactive auth.json.
NativeLogin(s, inactive) ==
  LET c == [sess |-> s, gen |-> 0] IN
  /\ ~Guarded /\ s \notin oauth.begun /\ Spend("login")
  /\ inactive => backend \in {"codex_keyring", "codex_auto"}
  /\ oauth' = [oauth EXCEPT !.begun = @ \cup {s}]
  /\ disk' = IF inactive \/ FileOnly(backend)
                \/ (backend = "codex_auto" /\ ~disk.reachable)
             THEN [disk EXCEPT !.file = c,
                               !.meta = IF IsClaude(backend) THEN AccountOf[s] ELSE @]
             ELSE [disk EXCEPT !.secure = c,
                               !.file = IF IsClaude(backend) THEN @ ELSE NoCred,
                               !.meta = IF IsClaude(backend) THEN AccountOf[s] ELSE @]
  /\ disk.reachable \/ ~NeedsKeyring(backend)
  /\ UNCHANGED <<backend, dbVars, switch>>

\* The keyring service is locked or unlocked.
KeyringFlip ==
  /\ backend \in {"codex_keyring", "codex_auto"} /\ Spend("fail")
  /\ disk' = [disk EXCEPT !.reachable = ~@]
  /\ UNCHANGED <<backend, oauth, dbVars, switch>>

-----------------------------------------------------------------------------
(* save_official_account_locked: the record and its envelope are one          *)
(* transaction, which also forgets a removal.                                 *)

Store(a, cred) ==
  /\ vault' = [vault EXCEPT ![a] = [cred |-> cred, rev |-> @.rev + 1]]
  /\ removed' = removed \ {a}

\* A completed login subprocess, or a login imported by hand, under the mutation
\* lock.  The native store keeps what it has.
ExplicitLogin(s) ==
  /\ At("idle") /\ s \notin oauth.begun /\ Spend("explicit")
  /\ oauth' = [oauth EXCEPT !.begun = @ \cup {s}]
  /\ Store(AccountOf[s], [sess |-> s, gen |-> 0])
  /\ UNCHANGED <<backend, disk, nativeRev, owner, applied, baseline, active,
                 selector, ops, switch>>

RemoveAccount(a) ==
  /\ At("idle") /\ IsSaved(a) /\ active # a /\ Spend("remove")
  /\ vault' = [vault EXCEPT ![a].cred = NoCred]
  /\ nativeRev' = [nativeRev EXCEPT ![a] = 0]
  /\ removed' = removed \cup {a}
  /\ UNCHANGED <<backend, storeVars, owner, applied, baseline, active, selector,
                 ops, switch>>

-----------------------------------------------------------------------------
(* prepare_official_auth_transition, which startup's automatic inspection     *)
(* shares as far as the two captures.  Every database write is a step.        *)

\* begin_config_transaction: the configuration is claimed on first use, and a
\* changed fingerprint of what is owned refuses the switch.
MayBegin ==
  /\ owner.scoped => OwnedBy(backend, Raw) = owner.print
  /\ \A o \in ops : o.to # "release"

\* validate_applied_account
SameLogin == applied = NoApplied \/ Identity(backend, Active) = applied.acct

\* capture_for_switch, then the baseline's own tokens follow a refresh.
Capture(to) ==
  LET who == Identity(backend, Active)
      refreshed == /\ baseline.kept /\ who # NoAccount
                   /\ Identity(backend, baseline.snap) = who
  IN /\ Readable(backend, disk) /\ SameLogin
     /\ baseline' = IF refreshed THEN [baseline EXCEPT !.snap = Active] ELSE baseline
     /\ switch' = [Idle EXCEPT !.pc = "outgoing", !.to = to, !.raw = Raw]
     /\ UNCHANGED <<backend, storeVars, vault, nativeRev, removed, applied, active,
                    selector, ops>>

BeginSwitch(to) ==
  /\ At("idle") /\ Spend("switch") /\ MayBegin
  /\ to \in Accounts => IsSaved(to)
  /\ IsSaved(to) \/ baseline.kept
  /\ to = "release" => owner.lease /\ ~owner.pending
  /\ Writable(backend, Raw)
  /\ Capture(to)
  /\ owner' = [owner EXCEPT !.lease = TRUE]

\* A switch with no saved account on either side leaves the store alone; its
\* configuration write belongs to ConfigWrite.
SwitchWithoutAccounts(to) ==
  /\ At("idle") /\ Spend("switch") /\ MayBegin /\ ~baseline.kept
  /\ to \in {"native", "api", "release"}
  /\ to = "release" => owner.lease /\ ~owner.pending
  /\ owner' = IF to = "release" THEN Unclaimed ELSE [owner EXCEPT !.lease = TRUE]
  /\ active' = IF to = "release" THEN active ELSE to
  /\ selector' = IF to = "api" THEN "api" ELSE "official"
  /\ UNCHANGED <<backend, storeVars, vault, nativeRev, removed, applied, baseline,
                 ops, switch>>

\* capture_existing_official_accounts, one client.
BeginInspection ==
  /\ At("inspect")
  /\ IF /\ ~owner.pending /\ Readable(backend, disk)
        /\ Identity(backend, Active) # NoAccount
        /\ owner.lease => SameLogin
       THEN IF owner.lease THEN Capture("inspect")
            ELSE /\ switch' = [Idle EXCEPT !.pc = "native", !.to = "inspect",
                                           !.raw = Raw]
                 /\ UNCHANGED <<backend, storeVars, vault, nativeRev, removed,
                                applied, baseline, active, selector, ops>>
       ELSE /\ switch' = Idle
            /\ UNCHANGED <<backend, storeVars, vault, nativeRev, removed, applied,
                           baseline, active, selector, ops>>
  /\ UNCHANGED <<owner, left>>

\* Mutant: the tokens of the account that is left are not saved.
CaptureOutgoing_Skipped ==
  /\ At("outgoing") /\ Goto("native")
  /\ UNCHANGED <<backend, storeVars, nativeRev, owner, applied, baseline, active,
                 selector, ops, left, vault, removed>>

\* capture_outgoing_account: only a refresh of the revision that was applied.
CaptureOutgoing ==
  LET a == applied.acct IN
  /\ At("outgoing")
  /\ IF IsSaved(a) /\ vault[a].rev = applied.rev
          /\ vault[a].cred # switch.raw.auth
       THEN /\ Store(a, switch.raw.auth)
            /\ switch' = [switch EXCEPT !.pc = "mark"]
       ELSE /\ Goto("native") /\ UNCHANGED <<vault, removed>>
  /\ UNCHANGED <<backend, storeVars, nativeRev, owner, applied, baseline, active,
                 selector, ops, left>>

MarkOutgoing ==
  /\ At("mark")
  /\ applied' = [applied EXCEPT !.rev = vault[applied.acct].rev]
  /\ Goto("native")
  /\ UNCHANGED <<backend, storeVars, vault, nativeRev, removed, owner, baseline,
                 active, selector, ops, left>>

\* capture_native_official_account: an automatic save never replaces a revision
\* that did not come from the store.
ImportsNative ==
  LET a == Identity(backend, Snapshot(switch.raw)) IN
  /\ a \notin removed \cup {NoAccount}
  /\ IsSaved(a) => nativeRev[a] = vault[a].rev /\ vault[a].cred # switch.raw.auth

CaptureNative ==
  LET a == Identity(backend, Snapshot(switch.raw)) IN
  /\ At("native")
  /\ IF ImportsNative
       THEN /\ Store(a, switch.raw.auth) /\ Goto("imported")
       ELSE /\ Goto("open") /\ UNCHANGED <<vault, removed>>
  /\ UNCHANGED <<backend, storeVars, nativeRev, owner, applied, baseline, active,
                 selector, ops, left>>

MarkNative ==
  LET a == Identity(backend, Snapshot(switch.raw)) IN
  /\ At("imported")
  /\ nativeRev' = [nativeRev EXCEPT ![a] = vault[a].rev]
  /\ Goto("open")
  /\ UNCHANGED <<backend, storeVars, vault, removed, owner, applied, baseline,
                 active, selector, ops, left>>

\* Mutant: the account's credential with the metadata found in the store.
Wanted_KeepsMetadata(to, kept) ==
  IF to \in Accounts THEN [SnapshotOf(to) EXCEPT !.meta = kept.meta] ELSE kept

\* What the store is to hold: the vault's credential, or the login hsin found
\* with whatever the vault knows of its account.
Wanted(to, kept) ==
  IF to \in Accounts THEN SnapshotOf(to)
  ELSE LET who == Identity(backend, kept) IN
       IF IsSaved(who)
         THEN [auth |-> vault[who].cred,
               meta |-> IF IsClaude(backend) THEN who ELSE NoAccount]
         ELSE kept

\* The baseline, both encrypted snapshots, begin_operation and
\* start_ownership_write.
OpenJournal ==
  LET kept == IF baseline.kept THEN baseline.snap ELSE Snapshot(switch.raw)
      to == switch.to
      op == [id |-> 1 + left.switch, to |-> to, before |-> Snapshot(switch.raw),
             after |-> Wanted(to, kept), prepared |-> switch.raw,
             state |-> IF to \in Accounts THEN [acct |-> to, rev |-> vault[to].rev]
                       ELSE NoApplied,
             selector |-> selector]
  IN /\ At("open")
     /\ baseline' = IF to = "inspect" THEN baseline
                    ELSE [kept |-> TRUE, snap |-> kept]
     /\ CASE to = "inspect" ->
               switch' = Idle /\ UNCHANGED <<owner, ops, active, selector>>
          [] to = "api" ->
               /\ switch' = Idle /\ active' = to /\ selector' = "api"
               /\ owner' = [owner EXCEPT !.pending = FALSE, !.scoped = TRUE,
                                         !.print = OwnedBy(backend, Raw)]
               /\ UNCHANGED ops
          [] OTHER ->
               /\ ops' = ops \cup {op}
               /\ switch' = [switch EXCEPT !.op = op,
                    !.pc = IF to = "release" THEN "config" ELSE "check"]
               /\ owner' = [owner EXCEPT !.pending = TRUE, !.scoped = TRUE,
                                         !.print = OwnedBy(backend, Raw)]
               /\ UNCHANGED <<active, selector>>
     /\ UNCHANGED <<backend, storeVars, vault, nativeRev, removed, applied, left>>

-----------------------------------------------------------------------------
(* apply_official_auth_transition and its rollback: the journalled switch     *)
(* against the store as it is now.  A refusal leaves the operation pending,   *)
(* or ends it when recovery meets it, except for a release, which is retried. *)

Op == switch.op
Recovering == switch.queue # {}
Without(op) == ops \ {op}
NextPending(op) == [Idle EXCEPT !.pc = "recover", !.queue = switch.queue \ {op}]

Refuse ==
  IF Recovering
    THEN /\ ops' = IF Op.to = "release" THEN ops ELSE Without(Op)
         /\ switch' = NextPending(Op)
    ELSE switch' = Idle /\ UNCHANGED ops

\* The revision that was journalled is still the one in the vault.
StillCurrent(op) ==
  op.state # NoApplied => /\ IsSaved(op.state.acct)
                          /\ vault[op.state.acct].rev = op.state.rev

CheckApply ==
  /\ At("check")
  /\ IF /\ owner.lease /\ StillCurrent(Op)
        /\ Readable(backend, disk) /\ Writable(backend, Raw)
        /\ \/ ApplyCompleted(Raw, Op.after)
           \/ ApplyMayResume(backend, Raw, Op.before, Op.after, Op.prepared)
       THEN /\ switch' = [switch EXCEPT !.raw = Raw,
                 !.pc = IF ApplyCompleted(Raw, Op.after) THEN "applied" ELSE "auth"]
            /\ UNCHANGED ops
       ELSE Refuse
  /\ UNCHANGED <<backend, storeVars, vault, nativeRev, removed, owner, applied,
                 baseline, active, selector, left>>

CheckRollback ==
  LET source == Op.prepared.source IN
  /\ At("undo")
  /\ IF /\ Readable(backend, disk) /\ Writable(backend, Raw)
        /\ RollbackMayStart(backend, Raw, Op.before, Op.after, Op.prepared, source)
       THEN /\ switch' = [switch EXCEPT !.raw = Raw, !.back = TRUE,
                 !.pc = IF RollbackDone(Raw, Op.before, source) THEN "undone"
                        ELSE "auth"]
            /\ UNCHANGED ops
       ELSE Refuse
  /\ UNCHANGED <<backend, storeVars, vault, nativeRev, removed, owner, applied,
                 baseline, active, selector, left>>

Want == IF switch.back THEN Op.before ELSE Op.after
Observed == ForSource(switch.raw, IF switch.back THEN Op.prepared.source
                                  ELSE switch.raw.source)

\* One resource at a time; the store is compared before each.
WriteStep(pc, next, may, to) ==
  /\ At(pc)
  /\ IF may THEN disk' = to /\ Goto(next) /\ UNCHANGED ops
     ELSE Refuse /\ UNCHANGED disk
  /\ UNCHANGED <<backend, oauth, vault, nativeRev, removed, owner, applied,
                 baseline, active, selector, left>>

WriteCredential ==
  WriteStep("auth", "fallback", Raw = switch.raw /\ AuthMatches(disk, Observed),
            WriteAuth(disk, Observed, Want))

WriteFallback ==
  IF ClearsFallback(backend, Observed)
    THEN WriteStep("fallback", "meta", FallbackMatches(disk, Observed),
                   ClearFallback(disk))
    ELSE WriteStep("fallback", "meta", TRUE, disk)

WriteMetadata ==
  IF IsClaude(backend)
    THEN WriteStep("meta", "verify", MetaMatches(disk, Observed),
                   WriteMeta(disk, Want))
    ELSE WriteStep("meta", "verify", TRUE, disk)

VerifyWrite ==
  WriteStep("verify", IF switch.back THEN "undone" ELSE "applied",
            Verified(backend, disk, Want), disk)

\* Any of them may fail on I/O.
FailWrite ==
  /\ switch.pc \in {"auth", "fallback", "meta"} /\ Spend("fail")
  /\ Refuse
  /\ UNCHANGED <<backend, storeVars, vault, nativeRev, removed, owner, applied,
                 baseline, active, selector>>

-----------------------------------------------------------------------------
(* The rest of apply_configuration, recover_operation and the release.        *)

\* A release writes the configuration first, a switch the credentials.
Applied ==
  /\ At("applied")
  /\ Goto(IF Op.to = "release" THEN "commit" ELSE "config")
  /\ UNCHANGED <<backend, storeVars, dbVars, left>>

WriteConfiguration ==
  /\ At("config")
  /\ selector' = "official"
  /\ Goto(IF Op.to = "release" THEN "check" ELSE "commit")
  /\ UNCHANGED <<backend, storeVars, vault, nativeRev, removed, owner, applied,
                 baseline, active, ops, left>>

FailConfiguration ==
  /\ At("config") /\ Spend("fail")
  /\ IF Recovering \/ Op.to = "release" THEN Refuse
     ELSE Goto("undo") /\ UNCHANGED ops
  /\ UNCHANGED <<backend, storeVars, vault, nativeRev, removed, owner, applied,
                 baseline, active, selector>>

RolledBack ==
  /\ At("undone")
  /\ owner' = [owner EXCEPT !.pending = FALSE, !.print = OwnedBy(backend, Raw)]
  /\ ops' = Without(Op) /\ switch' = Idle
  /\ UNCHANGED <<backend, storeVars, vault, nativeRev, removed, applied, baseline,
                 active, selector, left>>

\* commit_official_auth_transition; a release also clears the lease's rows.
Commit ==
  /\ At("commit") /\ Readable(backend, disk)
  /\ IF Op.to = "release"
       THEN /\ owner' = Unclaimed /\ applied' = NoApplied /\ baseline' = NoBaseline
            /\ UNCHANGED active
       ELSE /\ owner' = [owner EXCEPT !.pending = FALSE,
                                      !.print = OwnedBy(backend, Raw)]
            /\ applied' = Op.state /\ active' = Op.to
            /\ UNCHANGED baseline
  /\ Goto("finish")
  /\ UNCHANGED <<backend, storeVars, vault, nativeRev, removed, selector, ops, left>>

Finish ==
  /\ At("finish")
  /\ ops' = Without(Op)
  /\ switch' = IF Recovering THEN NextPending(Op) ELSE Idle
  /\ UNCHANGED <<backend, storeVars, vault, nativeRev, removed, owner, applied,
                 baseline, active, selector, left>>

\* The daemon stops anywhere and starts again.
Restart ==
  /\ Spend("restart")
  /\ switch' = [Idle EXCEPT !.pc = "recover", !.queue = ops]
  /\ UNCHANGED <<backend, storeVars, dbVars>>

\* recover_operations, oldest first: the provider, the lease and the
\* configuration are checked before the credentials.
MayRecover(op) ==
  /\ owner.lease
  /\ selector \in {op.selector, "official"}
  /\ op.to \in Accounts => IsSaved(op.to)
  /\ owner.scoped /\ ~owner.pending => OwnedBy(backend, Raw) = owner.print

RecoverOldest(op) ==
  /\ At("recover") /\ \A o \in switch.queue : o.id <= op.id
  /\ IF op.to = "release" /\ owner.lease
       THEN switch' = [switch EXCEPT !.op = op, !.pc = "config"] /\ UNCHANGED ops
     ELSE IF MayRecover(op)
       THEN switch' = [switch EXCEPT !.op = op, !.pc = "check"] /\ UNCHANGED ops
       ELSE switch' = NextPending(op) /\ ops' = Without(op)
  /\ UNCHANGED <<backend, storeVars, vault, nativeRev, removed, owner, applied,
                 baseline, active, selector, left>>

Recovered ==
  /\ At("recover") /\ ~Recovering /\ Goto("inspect")
  /\ UNCHANGED <<backend, storeVars, dbVars, left>>

\* The instance that asked for the release asks again.
RetryRelease ==
  /\ At("idle") /\ Spend("switch")
  /\ \E op \in ops :
       /\ op.to = "release"
       /\ switch' = [Idle EXCEPT !.pc = "config", !.to = "release", !.op = op,
                                 !.raw = op.prepared]
  /\ UNCHANGED <<backend, storeVars, dbVars>>

SwitchSteps ==
  \/ Refresh \/ KeyringFlip
  \/ \E s \in Sessions : ExplicitLogin(s) \/ \E i \in BOOLEAN : NativeLogin(s, i)
  \/ \E a \in Accounts : RemoveAccount(a)
  \/ \E to \in Accounts \cup {"native", "api", "release"} :
       BeginSwitch(to) \/ SwitchWithoutAccounts(to)
  \/ CaptureOutgoing \/ MarkOutgoing \/ CaptureNative \/ MarkNative \/ OpenJournal
  \/ CheckApply \/ CheckRollback \/ WriteCredential \/ WriteFallback
  \/ WriteMetadata \/ VerifyWrite \/ FailWrite
  \/ Applied \/ WriteConfiguration \/ FailConfiguration \/ RolledBack
  \/ Commit \/ Finish
  \/ Restart \/ (\E op \in switch.queue : RecoverOldest(op)) \/ Recovered
  \/ RetryRelease \/ BeginInspection

\* Claude's tokens and the account named beside them disagree.
OneLogin(snap) == snap.auth # NoCred => snap.meta = AccountIn(snap.auth)
Mixed == IsClaude(backend) /\ ~OneLogin(Active)

\* The login an operation is to put into the store is there, whether or not the
\* client has refreshed it since, in place of another one; or Claude's metadata is.
SameSession(c, d) == c # NoCred /\ d # NoCred /\ c.sess = d.sess
Place(source) == IF source = "file" THEN disk.file ELSE disk.secure
PutLogin(op) ==
  /\ SameSession(Place(op.prepared.source), op.after.auth)
  /\ ~SameSession(op.before.auth, op.after.auth)
Written(op) ==
  \/ PutLogin(op)
  \/ IsClaude(backend) /\ disk.meta = op.after.meta /\ disk.meta # op.before.meta

\* An operation ends, or is left for the next start, after it wrote to the
\* store and without a commit or a rollback.
GivenUp ==
  /\ switch.pc \in {"check", "undo", "auth", "fallback", "meta", "verify", "config",
                     "recover"}
  /\ switch'.pc \in {"idle", "recover"} /\ left'.restart = left.restart
  /\ \E op \in IF At("recover") THEN switch.queue \ switch'.queue ELSE {Op} :
       Written(op)

\* The credential that a step takes away: the one the client replaces by another
\* login, or the inactive one that a switch of the keyring clears.
TakenAway ==
  IF oauth'.begun # oauth.begun
    THEN {disk.file, disk.secure} \ {disk'.file, disk'.secure, NoCred}
  ELSE IF switch.pc \in {"auth", "fallback"} /\ Op.prepared.source # "file"
    THEN {disk.file} \ {disk'.file, NoCred}
  ELSE {}

\* half: an operation was given up with the store written; torn: accounts
\* whose save was not followed by its mark; handed: sessions given back to the
\* client as its own login rather than as a saved account; dropped: sessions
\* whose credential was taken away.
HistoryStep ==
  history' =
    [half |-> history.half \/ GivenUp,
     torn |-> history.torn \cup
       CASE At("mark") /\ switch'.pc = "recover" -> {applied.acct}
         [] At("imported") /\ switch'.pc = "recover" ->
              {Identity(backend, Snapshot(switch.raw))}
         [] OTHER -> {},
     handed |-> history.handed \cup
       IF At("commit") /\ switch'.pc = "finish" /\ Op.state = NoApplied
            /\ Op.after.auth # NoCred
         THEN {Op.after.auth.sess} ELSE {},
     dropped |-> history.dropped \cup {c.sess : c \in TakenAway}]

SwitchNext == SwitchSteps /\ HistoryStep
SwitchingSpec == SwitchInit /\ [][SwitchNext]_switchVars
-----------------------------------------------------------------------------
(* Properties *)

Targets == Accounts \cup {"native", "api", "release", "inspect"}
Raws == [source : {"file", "keyring"}, auth : AnyCred, meta : MaybeAccount,
         fallback : AnyCred, reachable : BOOLEAN]
AppliedStates == [acct : MaybeAccount, rev : Nat]
Journals == [id : Nat, to : Targets \ {"inspect"}, before : AnySnapshot, after : AnySnapshot,
             state : AppliedStates, prepared : Raws, selector : {"official", "api"}]
OwnedPrints == [source : {"file", "keyring"}, reachable : BOOLEAN, identity : MaybeAccount,
           unrecognized : AnySnapshot, fallback : AnyCred]
Steps == {"idle", "outgoing", "mark", "native", "imported", "open", "check", "auth",
          "fallback", "meta", "verify", "applied", "config", "undo", "undone",
          "commit", "finish", "recover", "inspect"}
OwnerStates == [lease : BOOLEAN, pending : BOOLEAN, scoped : BOOLEAN, print : OwnedPrints]
Baselines == [kept : BOOLEAN, snap : AnySnapshot]
SwitchStates == [pc : Steps, to : Targets, raw : Raws, op : Journals, back : BOOLEAN,
                 queue : SUBSET Journals]
Histories == [half : BOOLEAN, torn : SUBSET MaybeAccount, handed : SUBSET Sessions,
              dropped : SUBSET Sessions]

SwitchTypeOK ==
  /\ backend \in Layouts /\ disk \in Disks
  /\ oauth \in [begun : SUBSET Sessions, newest : [Sessions -> 0 .. MaxGen]]
  /\ vault \in [Accounts -> [cred : AnyCred, rev : Nat]]
  /\ nativeRev \in [Accounts -> Nat] /\ removed \subseteq Accounts
  /\ owner \in OwnerStates
  /\ applied \in AppliedStates
  /\ baseline \in Baselines
  /\ active \in Accounts \cup {"native", "api"} /\ selector \in {"official", "api"}
  /\ ops \subseteq Journals
  /\ switch \in SwitchStates
  /\ left \in [Occasions -> Nat]
  /\ history \in Histories

\* Claude keeps the tokens and the account they belong to in two places.  They
\* name one account whenever the daemon rests, unless an operation was given up
\* in between.
NoMixedStore ==
  At("idle") /\ ~history.half => ~Mixed

\* An account's saved credential is a login of that very account: what a switch
\* captures is filed under whom it belongs to.
VaultHoldsOwnLogins ==
  \A a \in Accounts : IsSaved(a) => AccountIn(vault[a].cred) = a
VaultIsSorted == ~history.half => VaultHoldsOwnLogins

\* The newest refresh of a saved session is in the vault, still in the store
\* the client reads, or in the journal of a switch under way: the vault is never
\* left with a token the server has already replaced.
Newest(s) == [sess |-> s, gen |-> oauth.newest[s]]
Kept(a) ==
  LET s == vault[a].cred.sess IN
  s \notin history.dropped =>
    Newest(s) \in {vault[a].cred, disk.file, disk.secure}
LatestIsKept ==
  \A a \in Accounts :
    IsSaved(a) /\ a \notin history.torn /\ vault[a].cred.sess \notin history.handed
      /\ ~history.half => Kept(a)

\* Every switch saves the refreshes of a saved account, also when the client has
\* got the session back as its own login.  It does not hold.
SwitchCapturesLatest ==
  ~history.half /\ history.torn = {} => \A a \in Accounts : IsSaved(a) => Kept(a)

\* hsin replaces a credential only if the switch it is running recorded it: a
\* login made meanwhile is never overwritten.
Recorded(c) == c \in {NoCred, Op.before.auth, Op.after.auth, Op.prepared.fallback}
ReplacesOnlyRecorded ==
  [][switch.pc \in {"auth", "fallback"} /\ oauth' = oauth =>
       /\ disk'.file # disk.file => Recorded(disk.file)
       /\ disk'.secure # disk.secure => Recorded(disk.secure)]_switchVars

\* Credential and metadata of a client are of one account when it rests, and the vault
\* holds each account's own logins, unless an operation was given up half way.
AccountsAreWhole == SwitchTypeOK /\ NoMixedStore /\ VaultIsSorted
=============================================================================
