------------------------- MODULE OfficialSwitchProofs -------------------------
(***************************************************************************)
(* Proofs about OfficialSwitch, for any sessions and accounts, any number  *)
(* of refreshes and any budget.  SwitchInv says what a step may rely on    *)
(* for every layout of the store.                                          *)
(***************************************************************************)
EXTENDS OfficialSwitch, TLAPS

Capturing == {"outgoing", "mark", "native", "imported", "open"}
Writing == {"auth", "fallback", "meta", "verify"}
Serving == {"check", "applied", "config", "undo", "undone", "commit", "finish"} \cup Writing

\* The journal row being served is pending, and recovery has the rows it read.
ServedIsPending ==
  /\ switch.pc \in Serving => Op \in ops
  /\ switch.queue \subseteq ops
  /\ Recovering => switch.pc \in (Serving \ {"undo", "undone"}) \cup {"recover"}
  /\ Recovering /\ switch.pc # "recover" => Op \in switch.queue
  /\ switch.back => ~Recovering /\ switch.pc \in Writing \cup {"undone"}
  /\ switch.pc \in {"undo", "undone"} \/ switch.back => Op.to # "release"

\* A capture saves the account that was applied under that account, and what it
\* marks is saved.
CapturesFile ==
  LET who == Identity(backend, Snapshot(switch.raw)) IN
  /\ At("outgoing") /\ applied # NoApplied => who = applied.acct
  /\ At("mark") => IsSaved(applied.acct)
  /\ At("imported") => IsSaved(who)

\* Only Codex's automatic choice moves a login between the keyring and the file.
FitsLayout(source) ==
  /\ FileOnly(backend) => source = "file"
  /\ NeedsKeyring(backend) => source = "keyring"
SourcesFit ==
  /\ switch.pc \in Capturing \cup Writing => FitsLayout(switch.raw.source)
  /\ \A op \in ops : FitsLayout(op.prepared.source)

\* Nobody knows a session before it began, or a refresh before the client got it.
Issued(c) == c # NoCred => c.sess \in oauth.begun /\ c.gen <= oauth.newest[c.sess]
SnapshotsIssued(op) == Issued(op.before.auth) /\ Issued(op.after.auth)
OnlyIssued ==
  /\ \A s \in Sessions \ oauth.begun : oauth.newest[s] = 0
  /\ Issued(disk.file) /\ Issued(disk.secure) /\ Issued(baseline.snap.auth)
  /\ \A a \in Accounts : Issued(vault[a].cred)
  /\ \A op \in ops : SnapshotsIssued(op)
  /\ switch.pc \in Capturing => Issued(switch.raw.auth)

\* Whatever is filed, journalled or read names one account; the store itself
\* may not while an operation is at work that put one half of it there.
Proper(snap) == IsClaude(backend) => OneLogin(snap)
Underway ==
  IF Recovering THEN IF At("finish") THEN switch.queue \ {Op} ELSE switch.queue
  ELSE IF switch.pc \in Serving \ {"undone", "finish"} THEN {Op} ELSE {}
HalfWay(op) ==
  /\ disk.meta \in {op.before.meta, op.after.meta}
  /\ Written(op)
MixedIsUnderway ==
  Mixed => /\ switch.pc \in {"recover", "check", "config", "auth", "fallback", "meta"}
           /\ \E op \in Underway : HalfWay(op)
           /\ At("config") => Op.to = "release"
ClaudeIsWritten ==
  IsClaude(backend) =>
    /\ At("auth") => switch.raw.meta \in {Op.before.meta, Op.after.meta}
    /\ switch.pc \in {"fallback", "meta"} => Active.auth = Want.auth
    /\ At("verify") => Active = Want
WholeParts ==
  /\ VaultHoldsOwnLogins /\ Proper(baseline.snap)
  /\ \A op \in ops : Proper(op.before) /\ Proper(op.after)
  /\ switch.pc \in Capturing => Proper(Snapshot(switch.raw))
  /\ MixedIsUnderway /\ ClaudeIsWritten

\* A write starts from what the operation recorded.
WritesFromRecorded ==
  switch.pc \in {"auth", "fallback"} =>
    /\ Recorded(Observed.auth)
    /\ ClearsFallback(backend, Observed) => Recorded(Observed.fallback)

\* A journal row names the revision it was made from, and that revision's credential.
StatesAgree ==
  \A op \in ops :
    IF op.to \in Accounts
      THEN /\ op.state.acct = op.to /\ op.state.rev <= vault[op.to].rev
           /\ StillCurrent(op) => vault[op.to].cred = op.after.auth
      ELSE op.state = NoApplied

MarksAreApplied == applied = NoApplied \/ applied.acct \in Accounts
SavedIsNotRemoved == \A a \in removed : ~IsSaved(a)

SwitchInv ==
  /\ SwitchTypeOK /\ ServedIsPending /\ CapturesFile /\ SourcesFit /\ OnlyIssued
  /\ WritesFromRecorded /\ StatesAgree /\ MarksAreApplied /\ SavedIsNotRemoved
  /\ ~history.half => WholeParts

-----------------------------------------------------------------------------
(* What the operators of the model return.                                    *)

LEMMA AccountsOfCreds == \A c \in AnyCred : AccountIn(c) \in MaybeAccount
BY DEF AccountIn, AnyCred, Creds, MaybeAccount, Accounts

LEMMA CredsAre ==
  /\ NoCred \in AnyCred /\ NoAccount \in MaybeAccount /\ AccountIn(NoCred) = NoAccount
  /\ \A c \in AnyCred : c # NoCred =>
       /\ c \in Creds /\ c.sess \in Sessions /\ c.gen \in 0 .. MaxGen
       /\ AccountIn(c) = AccountOf[c.sess] /\ AccountIn(c) \in Accounts
       /\ c = [sess |-> c.sess, gen |-> c.gen]
  /\ \A s \in Sessions, g \in 0 .. MaxGen :
       /\ [sess |-> s, gen |-> g] \in Creds /\ [sess |-> s, gen |-> g] # NoCred
       /\ [sess |-> s, gen |-> g] \in AnyCred
BY CredAssumption DEF AnyCred, Creds, AccountIn, Accounts, MaybeAccount

LEMMA SnapshotsOfRaws ==
  \A raw \in Raws : /\ Snapshot(raw) \in AnySnapshot
                    /\ Snapshot(raw).auth = raw.auth /\ Snapshot(raw).meta = raw.meta
BY DEF Raws, Snapshot, AnySnapshot

LEMMA RawsOfDisks ==
  \A b, d : d \in Disks =>
    /\ RawState(b, d) \in Raws
    /\ RawState(b, d).source = SourceOf(b, d)
    /\ RawState(b, d).auth = IF SourceOf(b, d) = "file" THEN d.file ELSE d.secure
    /\ RawState(b, d).meta = IF IsClaude(b) THEN d.meta ELSE NoAccount
BY CredsAre DEF Disks, RawState, Raws, SourceOf, FileOnly

LEMMA IdentityIs ==
  \A b, snap : snap \in AnySnapshot =>
    /\ Identity(b, snap) \in MaybeAccount
    /\ Identity(b, snap) # NoAccount => snap.auth # NoCred
BY AccountsOfCreds, CredsAre DEF AnySnapshot, Identity

LEMMA PrintsOfRaws == \A b : \A raw \in Raws : OwnedBy(b, raw) \in OwnedPrints
<1> SUFFICES ASSUME NEW b, NEW raw \in Raws PROVE OwnedBy(b, raw) \in OwnedPrints
  OBVIOUS
<1>1. Snapshot(raw) \in AnySnapshot /\ Identity(b, Snapshot(raw)) \in MaybeAccount
  BY SnapshotsOfRaws, IdentityIs
<1>2. NoSnapshot \in AnySnapshot
  BY CredsAre DEF NoSnapshot, AnySnapshot
<1> QED
  BY <1>1, <1>2, CredsAre DEF OwnedBy, OwnedPrints, Raws

LEMMA ConstantsAreTyped ==
  /\ NoApplied \in AppliedStates /\ NoSnapshot \in AnySnapshot /\ Unread \in Raws
  /\ NoOp \in Journals /\ Unclaimed \in OwnerStates
  /\ NoBaseline \in Baselines /\ Idle \in SwitchStates
<1>1. NoApplied \in AppliedStates /\ NoSnapshot \in AnySnapshot /\ Unread \in Raws
  BY CredsAre DEF NoApplied, AppliedStates, NoSnapshot, AnySnapshot, Unread, Raws
<1>2. NoOp \in Journals
  BY <1>1 DEF NoOp, Journals, Targets
<1>3. Unclaimed \in OwnerStates
  BY <1>1, PrintsOfRaws DEF Unclaimed, OwnerStates
<1>4. NoBaseline \in Baselines
  BY <1>1 DEF NoBaseline, Baselines
<1>5. Idle \in SwitchStates
  BY <1>1, <1>2 DEF Idle, SwitchStates, Steps, Targets
<1> QED
  BY <1>1, <1>2, <1>3, <1>4, <1>5

-----------------------------------------------------------------------------
(* Types                                                                      *)

LEMMA SpendIs ==
  ASSUME left \in [Occasions -> Nat], NEW what \in Occasions \ {"any"}, Spend(what)
  PROVE  /\ left' \in [Occasions -> Nat]
         /\ what # "restart" => left'["restart"] = left["restart"]
         /\ what = "restart" => left'["restart"] # left["restart"]
<1>1. left[what] \in Nat /\ left["any"] \in Nat /\ left["restart"] \in Nat
  BY DEF Occasions
<1>2. left[what] > 0 /\ left["any"] > 0
      /\ left' = [left EXCEPT ![what] = @ - 1, !["any"] = @ - 1]
  BY DEF Spend
<1>3. left[what] - 1 \in Nat /\ left["any"] - 1 \in Nat /\ left["restart"] - 1 # left["restart"]
  BY <1>1, <1>2
<1>4. left' = [c \in Occasions |-> IF c = "any" THEN left["any"] - 1
                                  ELSE IF c = what THEN left[what] - 1 ELSE left[c]]
  BY <1>2 DEF Occasions
<1> QED
  BY <1>3, <1>4 DEF Occasions

LEMMA StoreReads ==
  ASSUME SwitchTypeOK
  PROVE  /\ backend \in Backends /\ Raw \in Raws /\ Active \in AnySnapshot
         /\ Active.auth = Raw.auth /\ Active.meta = Raw.meta
         /\ Raw.auth \in AnyCred /\ Raw.meta \in MaybeAccount
         /\ Raw.source = SourceOf(backend, disk)
         /\ Raw.auth = IF SourceOf(backend, disk) = "file" THEN disk.file ELSE disk.secure
         /\ Raw.meta = IF IsClaude(backend) THEN disk.meta ELSE NoAccount
         /\ disk.file \in AnyCred /\ disk.secure \in AnyCred
         /\ disk.meta \in MaybeAccount /\ disk.reachable \in BOOLEAN
         /\ OwnedBy(backend, Raw) \in OwnedPrints
<1>1. backend \in Backends /\ disk \in Disks
  BY OccasionsAssumption DEF SwitchTypeOK
<1>2. Raw \in Raws /\ Raw.source = SourceOf(backend, disk)
      /\ Raw.auth = (IF SourceOf(backend, disk) = "file" THEN disk.file ELSE disk.secure)
      /\ Raw.meta = (IF IsClaude(backend) THEN disk.meta ELSE NoAccount)
  BY <1>1, RawsOfDisks DEF Raw
<1>3. Active \in AnySnapshot /\ Active.auth = Raw.auth /\ Active.meta = Raw.meta
  BY <1>2, SnapshotsOfRaws DEF Active
<1>4. OwnedBy(backend, Raw) \in OwnedPrints
  BY <1>2, PrintsOfRaws
<1>5. Raw.auth \in AnyCred /\ Raw.meta \in MaybeAccount
  BY <1>2 DEF Raws
<1> QED
  BY <1>1, <1>2, <1>3, <1>4, <1>5 DEF Disks

LEMMA SwitchReads ==
  ASSUME SwitchTypeOK
  PROVE  /\ switch.pc \in Steps /\ switch.to \in Targets /\ switch.raw \in Raws
         /\ switch.op \in Journals /\ switch.back \in BOOLEAN
         /\ switch.queue \subseteq Journals /\ Op = switch.op
         /\ Snapshot(switch.raw) \in AnySnapshot
         /\ Snapshot(switch.raw).auth = switch.raw.auth
         /\ Snapshot(switch.raw).meta = switch.raw.meta
         /\ switch.raw.auth \in AnyCred
         /\ Identity(backend, Snapshot(switch.raw)) \in MaybeAccount
         /\ Op.before \in AnySnapshot /\ Op.after \in AnySnapshot /\ Want \in AnySnapshot
         /\ Op.before.auth \in AnyCred /\ Op.after.auth \in AnyCred
         /\ Want.auth \in AnyCred /\ Want.meta \in MaybeAccount
         /\ Op.prepared \in Raws /\ Op.state \in AppliedStates /\ Op.to \in Targets
<1>1. switch.pc \in Steps /\ switch.to \in Targets /\ switch.raw \in Raws
      /\ switch.op \in Journals /\ switch.back \in BOOLEAN
      /\ switch.queue \subseteq Journals /\ Op = switch.op
  BY DEF SwitchTypeOK, SwitchStates, Op
<1>2. Snapshot(switch.raw) \in AnySnapshot
      /\ Snapshot(switch.raw).auth = switch.raw.auth
      /\ Snapshot(switch.raw).meta = switch.raw.meta
  BY <1>1, SnapshotsOfRaws
<1>3. switch.raw.auth \in AnyCred
  BY <1>1 DEF Raws
<1>4. Identity(backend, Snapshot(switch.raw)) \in MaybeAccount
  BY <1>2, IdentityIs
<1>5. Op.before \in AnySnapshot /\ Op.after \in AnySnapshot
      /\ Op.prepared \in Raws /\ Op.state \in AppliedStates /\ Op.to \in Targets
  BY <1>1 DEF Journals
<1>6. Want \in AnySnapshot
  BY <1>5 DEF Want
<1> QED
  BY <1>1, <1>2, <1>3, <1>4, <1>5, <1>6 DEF AnySnapshot

LEMMA VaultReads ==
  ASSUME SwitchTypeOK, NEW a \in Accounts
  PROVE  /\ vault[a].cred \in AnyCred /\ vault[a].rev \in Nat /\ nativeRev[a] \in Nat
         /\ SnapshotOf(a) \in AnySnapshot /\ SnapshotOf(a).auth = vault[a].cred
         /\ SnapshotOf(a).meta = (IF IsClaude(backend) THEN a ELSE NoAccount)
         /\ IsSaved(a) <=> vault[a].cred # NoCred
<1>1. vault[a].cred \in AnyCred /\ vault[a].rev \in Nat /\ nativeRev[a] \in Nat
  BY DEF SwitchTypeOK
<1> QED
  BY <1>1 DEF SnapshotOf, AnySnapshot, IsSaved, MaybeAccount

LEMMA WantedIs ==
  ASSUME SwitchTypeOK, NEW to, NEW kept \in AnySnapshot
  PROVE  /\ Wanted(to, kept) \in AnySnapshot
         /\ to \in Accounts => Wanted(to, kept) = SnapshotOf(to)
         /\ to \notin Accounts =>
              \/ Wanted(to, kept) = kept /\ ~IsSaved(Identity(backend, kept))
              \/ \E a \in Accounts : /\ IsSaved(a) /\ a = Identity(backend, kept)
                                     /\ Wanted(to, kept) = SnapshotOf(a)
<1>1. CASE to \in Accounts
  BY <1>1, VaultReads DEF Wanted
<1>2. CASE to \notin Accounts
  <2>1. CASE IsSaved(Identity(backend, kept))
    <3>1. PICK a \in Accounts : a = Identity(backend, kept) /\ IsSaved(a)
      BY <2>1 DEF IsSaved
    <3>2. Wanted(to, kept) = SnapshotOf(a)
      BY <1>2, <3>1 DEF Wanted, SnapshotOf
    <3> QED
      BY <1>2, <3>1, <3>2, VaultReads
  <2>2. CASE ~IsSaved(Identity(backend, kept))
    BY <1>2, <2>2 DEF Wanted
  <2> QED
    BY <2>1, <2>2
<1> QED
  BY <1>1, <1>2

LEMMA StoreIs ==
  ASSUME SwitchTypeOK, NEW a \in Accounts, NEW c \in AnyCred, Store(a, c)
  PROVE  /\ vault' \in [Accounts -> [cred : AnyCred, rev : Nat]]
         /\ vault'[a].cred = c /\ vault'[a].rev = vault[a].rev + 1
         /\ \A b \in Accounts \ {a} : vault'[b] = vault[b]
         /\ removed' = removed \ {a}
<1>1. vault' = [vault EXCEPT ![a] = [cred |-> c, rev |-> vault[a].rev + 1]]
  BY DEF Store
<1>2. vault \in [Accounts -> [cred : AnyCred, rev : Nat]]
  BY DEF SwitchTypeOK
<1>3. [cred |-> c, rev |-> vault[a].rev + 1] \in [cred : AnyCred, rev : Nat]
  BY VaultReads
<1> QED
  BY <1>1, <1>2, <1>3 DEF Store

LEMMA InitTyped == SwitchInit => SwitchTypeOK
<1> SUFFICES ASSUME SwitchInit PROVE SwitchTypeOK
  OBVIOUS
<1>1. PICK s \in Sessions \cup {NoCred} :
        LET c == IF s = NoCred THEN NoCred ELSE [sess |-> s, gen |-> 0] IN
        /\ disk = [secure |-> IF FileOnly(backend) THEN NoCred ELSE c,
                   file |-> IF FileOnly(backend) THEN c ELSE NoCred,
                   meta |-> IF IsClaude(backend) THEN AccountIn(c) ELSE NoAccount,
                   reachable |-> ~FileOnly(backend)]
        /\ oauth = [begun |-> {s} \cap Sessions, newest |-> [t \in Sessions |-> 0]]
  BY DEF SwitchInit
<1> DEFINE c == IF s = NoCred THEN NoCred ELSE [sess |-> s, gen |-> 0]
<1>2. c \in AnyCred /\ AccountIn(c) \in MaybeAccount
  <2>1. 0 \in 0 .. MaxGen
    BY GenAssumption
  <2> QED
    BY <2>1, CredsAre, AccountsOfCreds
<1>3. disk \in Disks
  BY <1>1, <1>2, CredsAre DEF Disks, FileOnly
<1>4. oauth \in [begun : SUBSET Sessions, newest : [Sessions -> 0 .. MaxGen]]
  BY <1>1, GenAssumption
<1>5. vault \in [Accounts -> [cred : AnyCred, rev : Nat]] /\ nativeRev \in [Accounts -> Nat]
      /\ removed \subseteq Accounts
  BY CredsAre DEF SwitchInit
<1>6. owner \in OwnerStates /\ applied \in AppliedStates /\ baseline \in Baselines
      /\ switch \in SwitchStates /\ ops \subseteq Journals
  BY ConstantsAreTyped DEF SwitchInit
<1>7. left \in [Occasions -> Nat] /\ history \in Histories
  BY OccasionsAssumption DEF SwitchInit, Histories
<1> QED
  BY <1>3, <1>4, <1>5, <1>6, <1>7 DEF SwitchInit, SwitchTypeOK

\* All but history: what went wrong is a matter of its own.
SwitchTypes ==
  /\ backend \in Layouts /\ disk \in Disks
  /\ oauth \in [begun : SUBSET Sessions, newest : [Sessions -> 0 .. MaxGen]]
  /\ vault \in [Accounts -> [cred : AnyCred, rev : Nat]]
  /\ nativeRev \in [Accounts -> Nat] /\ removed \subseteq Accounts
  /\ owner \in OwnerStates /\ applied \in AppliedStates /\ baseline \in Baselines
  /\ active \in Accounts \cup {"native", "api"} /\ selector \in {"official", "api"}
  /\ ops \subseteq Journals /\ switch \in SwitchStates /\ left \in [Occasions -> Nat]

LEMMA TypesOf == SwitchTypeOK => SwitchTypes
BY DEF SwitchTypeOK, SwitchTypes

\* Goto and its like keep the record of the switch in shape.
LEMMA GotoIs ==
  ASSUME switch \in SwitchStates, NEW pc \in Steps, switch' = [switch EXCEPT !.pc = pc]
  PROVE  /\ switch' \in SwitchStates /\ switch'.pc = pc
         /\ switch'.to = switch.to /\ switch'.raw = switch.raw /\ switch'.op = switch.op
         /\ switch'.back = switch.back /\ switch'.queue = switch.queue
BY DEF SwitchStates

LEMMA IdleIs ==
  /\ Idle.pc = "idle" /\ Idle.queue = {} /\ Idle.back = FALSE /\ Idle.raw = Unread
  /\ Idle.op = NoOp /\ Idle.to = "native"
BY DEF Idle

LEMMA NextPendingIs ==
  ASSUME SwitchTypeOK, NEW op
  PROVE  /\ NextPending(op) \in SwitchStates /\ NextPending(op).pc = "recover"
         /\ NextPending(op).queue = switch.queue \ {op} /\ NextPending(op).back = FALSE
         /\ NextPending(op).raw = Unread
<1>1. switch.queue \ {op} \subseteq Journals
  BY SwitchReads
<1> QED
  BY <1>1, ConstantsAreTyped, IdleIs DEF NextPending, SwitchStates, Steps

LEMMA RefuseIs ==
  ASSUME SwitchTypeOK, Refuse
  PROVE  /\ ops' \subseteq ops /\ ops' \subseteq Journals /\ switch' \in SwitchStates
         /\ ops \ ops' \subseteq {Op}
         /\ ~Recovering => ops' = ops /\ switch' = Idle
         /\ Recovering => switch' = NextPending(Op)
<1>1. ops \subseteq Journals
  BY DEF SwitchTypeOK
<1> QED
  BY <1>1, NextPendingIs, ConstantsAreTyped DEF Refuse, Without

LEMMA ClientTyped ==
  ASSUME SwitchTypeOK,
         Refresh \/ KeyringFlip \/ \E s \in Sessions, i \in BOOLEAN : NativeLogin(s, i)
  PROVE  SwitchTypes'
<1>0. SwitchTypes
  BY TypesOf
<1>1. CASE Refresh
  <2>1. PICK c \in Creds : c = Active.auth /\ c.gen = oauth.newest[c.sess] /\ c.gen < MaxGen
    BY <1>1, StoreReads DEF Refresh, AnyCred
  <2> DEFINE next == [c EXCEPT !.gen = @ + 1]
  <2>2. c.sess \in Sessions /\ c.gen + 1 \in 0 .. MaxGen /\ next \in Creds
    BY <2>1, GenAssumption DEF Creds
  <2>3. oauth' = [oauth EXCEPT !.newest[c.sess] = @ + 1]
    BY <1>1, <2>1 DEF Refresh
  <2>4. oauth' \in [begun : SUBSET Sessions, newest : [Sessions -> 0 .. MaxGen]]
    BY <1>0, <2>1, <2>2, <2>3 DEF SwitchTypes
  <2>5. disk' \in {[disk EXCEPT !.file = next], [disk EXCEPT !.secure = next]}
    BY <1>1, <2>1 DEF Refresh
  <2>6. disk' \in Disks
    BY <1>0, <2>2, <2>5 DEF SwitchTypes, Disks, AnyCred
  <2> QED
    BY <1>0, <1>1, <2>4, <2>6 DEF Refresh, dbVars, SwitchTypes
<1>2. CASE KeyringFlip
  <2>1. disk' \in Disks
    BY <1>0, <1>2 DEF KeyringFlip, SwitchTypes, Disks
  <2>2. left' \in [Occasions -> Nat]
    BY <1>0, <1>2, SpendIs DEF KeyringFlip, SwitchTypes, Occasions
  <2> QED
    BY <1>0, <1>2, <2>1, <2>2 DEF KeyringFlip, dbVars, SwitchTypes
<1>3. ASSUME NEW s \in Sessions, NEW i \in BOOLEAN, NativeLogin(s, i) PROVE SwitchTypes'
  <2> DEFINE c == [sess |-> s, gen |-> 0]
  <2>1. c \in AnyCred /\ AccountOf[s] \in MaybeAccount
    BY GenAssumption, CredsAre DEF MaybeAccount, Accounts
  <2>2. disk' \in Disks
    BY <1>0, <1>3, <2>1, CredsAre DEF NativeLogin, SwitchTypes, Disks
  <2>3. oauth' \in [begun : SUBSET Sessions, newest : [Sessions -> 0 .. MaxGen]]
    BY <1>0, <1>3 DEF NativeLogin, SwitchTypes
  <2>4. left' \in [Occasions -> Nat]
    BY <1>0, <1>3, SpendIs DEF NativeLogin, SwitchTypes, Occasions
  <2> QED
    BY <1>0, <1>3, <2>2, <2>3, <2>4 DEF NativeLogin, dbVars, SwitchTypes
<1> QED
  BY <1>1, <1>2, <1>3

LEMMA RestTyped ==
  ASSUME SwitchTypeOK,
         \/ \E s \in Sessions : ExplicitLogin(s)
         \/ \E a \in Accounts : RemoveAccount(a)
         \/ \E to \in Accounts \cup {"native", "api", "release"} : SwitchWithoutAccounts(to)
  PROVE  SwitchTypes'
<1>0. SwitchTypes
  BY TypesOf
<1>1. ASSUME NEW s \in Sessions, ExplicitLogin(s) PROVE SwitchTypes'
  <2>1. [sess |-> s, gen |-> 0] \in AnyCred /\ AccountOf[s] \in Accounts
    BY GenAssumption, CredsAre DEF Accounts
  <2>2. vault' \in [Accounts -> [cred : AnyCred, rev : Nat]] /\ removed' \subseteq Accounts
    BY <1>0, <1>1, <2>1, StoreIs DEF ExplicitLogin, SwitchTypes
  <2>3. oauth' \in [begun : SUBSET Sessions, newest : [Sessions -> 0 .. MaxGen]]
    BY <1>0, <1>1 DEF ExplicitLogin, SwitchTypes
  <2>4. left' \in [Occasions -> Nat]
    BY <1>0, <1>1, SpendIs DEF ExplicitLogin, SwitchTypes, Occasions
  <2> QED
    BY <1>0, <1>1, <2>2, <2>3, <2>4 DEF ExplicitLogin, SwitchTypes
<1>2. ASSUME NEW a \in Accounts, RemoveAccount(a) PROVE SwitchTypes'
  <2>1. vault' \in [Accounts -> [cred : AnyCred, rev : Nat]]
        /\ nativeRev' \in [Accounts -> Nat]
    BY <1>0, <1>2, CredsAre DEF RemoveAccount, SwitchTypes
  <2>2. left' \in [Occasions -> Nat]
    BY <1>0, <1>2, SpendIs DEF RemoveAccount, SwitchTypes, Occasions
  <2> QED
    BY <1>0, <1>2, <2>1, <2>2 DEF RemoveAccount, storeVars, SwitchTypes
<1>3. ASSUME NEW to \in Accounts \cup {"native", "api", "release"}, SwitchWithoutAccounts(to)
      PROVE  SwitchTypes'
  <2>1. owner' \in OwnerStates
    BY <1>0, <1>3, ConstantsAreTyped DEF SwitchWithoutAccounts, SwitchTypes, OwnerStates
  <2>2. left' \in [Occasions -> Nat]
    BY <1>0, <1>3, SpendIs DEF SwitchWithoutAccounts, SwitchTypes, Occasions
  <2>3. active' \in Accounts \cup {"native", "api"} /\ selector' \in {"official", "api"}
    BY <1>0, <1>3 DEF SwitchWithoutAccounts, SwitchTypes
  <2> QED
    BY <1>0, <1>3, <2>1, <2>2, <2>3 DEF SwitchWithoutAccounts, storeVars, SwitchTypes
<1> QED
  BY <1>1, <1>2, <1>3

LEMMA CaptureIs ==
  ASSUME SwitchTypeOK, NEW to \in Targets, Capture(to)
  PROVE  /\ switch' \in SwitchStates /\ baseline' \in Baselines
         /\ switch'.pc = "outgoing" /\ switch'.to = to /\ switch'.raw = Raw
         /\ switch'.queue = {} /\ switch'.back = FALSE
         /\ baseline' \in {baseline, [baseline EXCEPT !.snap = Active]}
         /\ UNCHANGED <<backend, storeVars, vault, nativeRev, removed, applied, active,
                        selector, ops>>
         /\ SameLogin
<1>1. switch' = [Idle EXCEPT !.pc = "outgoing", !.to = to, !.raw = Raw]
  BY DEF Capture
<1>2. /\ switch' \in SwitchStates /\ switch'.pc = "outgoing" /\ switch'.to = to
      /\ switch'.raw = Raw /\ switch'.queue = {} /\ switch'.back = FALSE
  BY <1>1, StoreReads, ConstantsAreTyped, IdleIs DEF SwitchStates, Steps
<1>3. baseline' \in {baseline, [baseline EXCEPT !.snap = Active]}
  BY DEF Capture
<1>4. baseline' \in Baselines
  BY <1>3, StoreReads DEF SwitchTypeOK, Baselines
<1> QED
  BY <1>2, <1>3, <1>4 DEF Capture

LEMMA CapturesTyped ==
  ASSUME SwitchTypeOK, CapturesFile,
         \/ \E to \in Accounts \cup {"native", "api", "release"} : BeginSwitch(to)
         \/ BeginInspection \/ CaptureOutgoing \/ MarkOutgoing \/ CaptureNative
         \/ MarkNative
  PROVE  SwitchTypes'
<1>0. SwitchTypes
  BY TypesOf
<1>1. ASSUME NEW to \in Accounts \cup {"native", "api", "release"}, BeginSwitch(to)
      PROVE  SwitchTypes'
  <2>1. to \in Targets /\ Capture(to)
    BY <1>1 DEF BeginSwitch, Targets
  <2>2. owner' \in OwnerStates /\ left' \in [Occasions -> Nat]
    BY <1>0, <1>1, SpendIs DEF BeginSwitch, SwitchTypes, OwnerStates, Occasions
  <2> QED
    BY <1>0, <2>1, <2>2, CaptureIs DEF storeVars, SwitchTypes
<1>2. CASE BeginInspection
  <2>1. CASE Capture("inspect")
    BY <1>0, <1>2, <2>1, CaptureIs DEF BeginInspection, storeVars, SwitchTypes, Targets
  <2>2. CASE switch' = [Idle EXCEPT !.pc = "native", !.to = "inspect", !.raw = Raw]
             /\ UNCHANGED <<backend, storeVars, vault, nativeRev, removed, applied,
                            baseline, active, selector, ops>>
    <3>1. switch' \in SwitchStates
      BY <2>2, StoreReads, ConstantsAreTyped DEF SwitchStates, Steps, Targets
    <3> QED
      BY <1>0, <1>2, <2>2, <3>1 DEF BeginInspection, storeVars, SwitchTypes
  <2>3. CASE switch' = Idle
             /\ UNCHANGED <<backend, storeVars, vault, nativeRev, removed, applied,
                            baseline, active, selector, ops>>
    BY <1>0, <1>2, <2>3, ConstantsAreTyped DEF BeginInspection, storeVars, SwitchTypes
  <2> QED
    BY <1>2, <2>1, <2>2, <2>3 DEF BeginInspection
<1>3. CASE CaptureOutgoing
  <2>1. CASE IsSaved(applied.acct) /\ Store(applied.acct, switch.raw.auth)
             /\ switch' = [switch EXCEPT !.pc = "mark"]
    <3>1. applied.acct \in Accounts /\ switch.raw.auth \in AnyCred
      BY <2>1, SwitchReads DEF IsSaved
    <3>2. vault' \in [Accounts -> [cred : AnyCred, rev : Nat]] /\ removed' \subseteq Accounts
      BY <1>0, <2>1, <3>1, StoreIs DEF SwitchTypes
    <3>3. switch' \in SwitchStates
      BY <1>0, <2>1, GotoIs DEF SwitchTypes, Steps
    <3> QED
      BY <1>0, <1>3, <3>2, <3>3 DEF CaptureOutgoing, storeVars, SwitchTypes
  <2>2. CASE Goto("native") /\ UNCHANGED <<vault, removed>>
    <3>1. switch' \in SwitchStates
      BY <1>0, <2>2, GotoIs DEF SwitchTypes, Steps, Goto
    <3> QED
      BY <1>0, <1>3, <2>2, <3>1 DEF CaptureOutgoing, storeVars, SwitchTypes
  <2> QED
    BY <1>3, <2>1, <2>2 DEF CaptureOutgoing
<1>4. CASE MarkOutgoing
  <2>1. switch' \in SwitchStates
    BY <1>0, <1>4, GotoIs DEF MarkOutgoing, SwitchTypes, Steps, Goto
  <2>2. applied.acct \in Accounts
    BY <1>4 DEF MarkOutgoing, CapturesFile, IsSaved
  <2>3. applied' \in AppliedStates
    BY <1>0, <1>4, <2>2 DEF MarkOutgoing, SwitchTypes, AppliedStates
  <2> QED
    BY <1>0, <1>4, <2>1, <2>3 DEF MarkOutgoing, storeVars, SwitchTypes
<1> DEFINE a == Identity(backend, Snapshot(switch.raw))
<1>5. CASE CaptureNative
  <2>1. CASE ImportsNative /\ Store(a, switch.raw.auth) /\ Goto("imported")
    <3>1. a \in Accounts /\ switch.raw.auth \in AnyCred
      BY <2>1, SwitchReads DEF ImportsNative, MaybeAccount
    <3>2. vault' \in [Accounts -> [cred : AnyCred, rev : Nat]] /\ removed' \subseteq Accounts
      BY <1>0, <2>1, <3>1, StoreIs DEF SwitchTypes
    <3>3. switch' \in SwitchStates
      BY <1>0, <2>1, GotoIs DEF SwitchTypes, Steps, Goto
    <3> QED
      BY <1>0, <1>5, <3>2, <3>3 DEF CaptureNative, storeVars, SwitchTypes
  <2>2. CASE Goto("open") /\ UNCHANGED <<vault, removed>>
    <3>1. switch' \in SwitchStates
      BY <1>0, <2>2, GotoIs DEF SwitchTypes, Steps, Goto
    <3> QED
      BY <1>0, <1>5, <2>2, <3>1 DEF CaptureNative, storeVars, SwitchTypes
  <2> QED
    BY <1>5, <2>1, <2>2 DEF CaptureNative
<1>6. CASE MarkNative
  <2>1. switch' \in SwitchStates
    BY <1>0, <1>6, GotoIs DEF MarkNative, SwitchTypes, Steps, Goto
  <2>2. a \in Accounts
    BY <1>6 DEF MarkNative, CapturesFile, IsSaved
  <2>3. nativeRev' \in [Accounts -> Nat]
    BY <1>0, <1>6, <2>2 DEF MarkNative, SwitchTypes
  <2> QED
    BY <1>0, <1>6, <2>1, <2>3 DEF MarkNative, storeVars, SwitchTypes
<1> QED
  BY <1>1, <1>2, <1>3, <1>4, <1>5, <1>6

\* The journal row that is opened.
KeptLogin == IF baseline.kept THEN baseline.snap ELSE Snapshot(switch.raw)
NewOp ==
  [id |-> 1 + left.switch, to |-> switch.to, before |-> Snapshot(switch.raw),
   after |-> Wanted(switch.to, KeptLogin), prepared |-> switch.raw,
   state |-> IF switch.to \in Accounts
               THEN [acct |-> switch.to, rev |-> vault[switch.to].rev] ELSE NoApplied,
   selector |-> selector]

LEMMA NewOpIs ==
  ASSUME SwitchTypeOK
  PROVE  /\ switch.to # "inspect" => NewOp \in Journals
         /\ KeptLogin \in AnySnapshot
         /\ NewOp.to = switch.to /\ NewOp.before = Snapshot(switch.raw)
         /\ NewOp.after = Wanted(switch.to, KeptLogin) /\ NewOp.prepared = switch.raw
         /\ NewOp.before.auth = switch.raw.auth
         /\ NewOp.state = IF switch.to \in Accounts
                            THEN [acct |-> switch.to, rev |-> vault[switch.to].rev]
                            ELSE NoApplied
<1>1. KeptLogin \in AnySnapshot
  BY SwitchReads DEF KeptLogin, SwitchTypeOK, Baselines
<1>2. Wanted(switch.to, KeptLogin) \in AnySnapshot
  BY <1>1, WantedIs
<1>3. 1 + left.switch \in Nat
  BY DEF SwitchTypeOK, Occasions
<1>4. (IF switch.to \in Accounts THEN [acct |-> switch.to, rev |-> vault[switch.to].rev]
       ELSE NoApplied) \in AppliedStates
  BY VaultReads, ConstantsAreTyped DEF AppliedStates, MaybeAccount
<1>5. selector \in {"official", "api"}
  BY DEF SwitchTypeOK
<1>6. switch.to # "inspect" => NewOp \in Journals
  BY <1>2, <1>3, <1>4, <1>5, SwitchReads DEF NewOp, Journals
<1> QED
  BY <1>1, <1>6, SwitchReads DEF NewOp

Opened ==
  /\ ops' = ops \cup {NewOp}
  /\ switch' = [switch EXCEPT !.op = NewOp,
                              !.pc = IF switch.to = "release" THEN "config" ELSE "check"]
  /\ UNCHANGED <<active, selector>>

LEMMA OpenJournalIs ==
  ASSUME SwitchTypeOK, OpenJournal
  PROVE  /\ At("open")
         /\ UNCHANGED <<backend, storeVars, vault, nativeRev, removed, applied, left>>
         /\ \/ /\ switch.to = "inspect" /\ switch' = Idle /\ baseline' = baseline
               /\ UNCHANGED <<ops, owner, active, selector>>
            \/ /\ switch.to \notin {"inspect"}
               /\ baseline' = [kept |-> TRUE, snap |-> KeptLogin]
               /\ owner' \in OwnerStates
               /\ \/ /\ switch' = Idle /\ ops' = ops
                     /\ active' = "api" /\ selector' = "api"
                  \/ Opened
<1> DEFINE own(p) == [owner EXCEPT !.pending = p, !.scoped = TRUE,
                                   !.print = OwnedBy(backend, Raw)]
<1>1. own(TRUE) \in OwnerStates /\ own(FALSE) \in OwnerStates
  BY StoreReads DEF SwitchTypeOK, OwnerStates
<1>2. At("open") /\ UNCHANGED <<backend, storeVars, vault, nativeRev, removed, applied, left>>
  BY DEF OpenJournal
<1>3. baseline' = IF switch.to = "inspect" THEN baseline
                  ELSE [kept |-> TRUE, snap |-> KeptLogin]
  BY DEF OpenJournal, KeptLogin
<1>4. CASE switch.to = "inspect"
  BY <1>2, <1>3, <1>4 DEF OpenJournal
<1>5. CASE switch.to = "api"
  <2>1. switch' = Idle /\ active' = "api" /\ selector' = "api" /\ owner' = own(FALSE)
        /\ ops' = ops
    BY <1>5 DEF OpenJournal
  <2> QED
    BY <1>1, <1>2, <1>3, <1>5, <2>1
<1>6. CASE switch.to \notin {"inspect", "api"}
  <2>1. Opened /\ owner' = own(TRUE)
    BY <1>6 DEF OpenJournal, Opened, NewOp, KeptLogin
  <2> QED
    BY <1>1, <1>2, <1>3, <1>6, <2>1
<1> QED
  BY <1>4, <1>5, <1>6

LEMMA OpenedIs ==
  ASSUME SwitchTypeOK, Opened, switch.to # "inspect"
  PROVE  /\ switch' \in SwitchStates /\ switch'.op = NewOp
         /\ switch'.pc = IF switch.to = "release" THEN "config" ELSE "check"
         /\ switch'.to = switch.to /\ switch'.raw = switch.raw
         /\ switch'.back = switch.back /\ switch'.queue = switch.queue
         /\ Op' = NewOp
BY NewOpIs DEF Opened, SwitchTypeOK, SwitchStates, Steps, Op

LEMMA OpenTyped ==
  ASSUME SwitchTypeOK, OpenJournal
  PROVE  SwitchTypes'
<1>1. SwitchTypes
  BY TypesOf
<1>2. [kept |-> TRUE, snap |-> KeptLogin] \in Baselines
  BY NewOpIs DEF Baselines
<1>3. Opened /\ switch.to # "inspect" => switch' \in SwitchStates /\ ops' \subseteq Journals
  BY <1>1, OpenedIs, NewOpIs DEF Opened, SwitchTypes
<1>4. Idle \in SwitchStates
  BY ConstantsAreTyped
<1>5. UNCHANGED <<backend, disk, oauth, vault, nativeRev, removed, applied, left>>
  BY OpenJournalIs DEF storeVars
<1>6. switch' \in SwitchStates /\ ops' \subseteq Journals /\ baseline' \in Baselines
      /\ owner' \in OwnerStates
      /\ active' \in Accounts \cup {"native", "api"} /\ selector' \in {"official", "api"}
  BY <1>1, <1>2, <1>3, <1>4, OpenJournalIs DEF SwitchTypes, Opened
<1> QED
  BY <1>1, <1>5, <1>6 DEF SwitchTypes

-----------------------------------------------------------------------------
(* What a step of the journalled switch does when it is not refused.          *)

OthersStay == UNCHANGED <<backend, oauth, vault, nativeRev, removed, owner, applied,
                          baseline, active, selector>>
StartApply ==
  /\ At("check") /\ StillCurrent(Op) /\ Readable(backend, disk)
  /\ \/ ApplyCompleted(Raw, Op.after)
     \/ ApplyMayResume(backend, Raw, Op.before, Op.after, Op.prepared)
  /\ switch' = [switch EXCEPT !.raw = Raw,
                  !.pc = IF ApplyCompleted(Raw, Op.after) THEN "applied" ELSE "auth"]
  /\ UNCHANGED <<ops, disk>>
StartRollback ==
  /\ At("undo")
  /\ RollbackMayStart(backend, Raw, Op.before, Op.after, Op.prepared, Op.prepared.source)
  /\ switch' = [switch EXCEPT !.raw = Raw, !.back = TRUE,
                  !.pc = IF RollbackDone(Raw, Op.before, Op.prepared.source) THEN "undone"
                         ELSE "auth"]
  /\ UNCHANGED <<ops, disk>>
PutCredential ==
  /\ At("auth") /\ Raw = switch.raw /\ AuthMatches(disk, Observed)
  /\ disk' = WriteAuth(disk, Observed, Want) /\ Goto("fallback") /\ UNCHANGED ops
PutFallback ==
  /\ At("fallback") /\ ClearsFallback(backend, Observed) /\ FallbackMatches(disk, Observed)
  /\ disk' = ClearFallback(disk) /\ Goto("meta") /\ UNCHANGED ops
PutMetadata ==
  /\ At("meta") /\ IsClaude(backend) /\ MetaMatches(disk, Observed)
  /\ disk' = WriteMeta(disk, Want) /\ Goto("verify") /\ UNCHANGED ops
PassOver ==
  /\ \/ At("fallback") /\ Goto("meta")
     \/ At("meta") /\ ~IsClaude(backend) /\ Goto("verify")
     \/ At("verify") /\ Verified(backend, disk, Want)
          /\ Goto(IF switch.back THEN "undone" ELSE "applied")
  /\ UNCHANGED <<ops, disk>>
StartUndo ==
  /\ At("config") /\ ~Recovering /\ Op.to # "release" /\ Goto("undo")
  /\ UNCHANGED <<ops, disk>>
Refused ==
  /\ switch.pc \in {"check", "undo", "auth", "fallback", "meta", "verify", "config"}
  /\ Refuse /\ UNCHANGED disk

ServingStep ==
  \/ CheckApply \/ CheckRollback \/ WriteCredential \/ WriteFallback \/ WriteMetadata
  \/ VerifyWrite \/ FailWrite \/ FailConfiguration
Served ==
  \/ Refused \/ StartApply \/ StartRollback \/ PutCredential \/ PutFallback
  \/ PutMetadata \/ PassOver \/ StartUndo

LEMMA ServingIs ==
  ASSUME SwitchTypeOK, ServingStep
  PROVE  OthersStay /\ Served /\ left' \in [Occasions -> Nat] /\ left'["restart"] = left["restart"]
<1>0. left \in [Occasions -> Nat] /\ left["restart"] = left["restart"]
  BY DEF SwitchTypeOK
<1>1. CASE CheckApply
  BY <1>0, <1>1 DEF CheckApply, storeVars, OthersStay, Served, StartApply, Refused, At
<1>2. CASE CheckRollback
  BY <1>0, <1>2 DEF CheckRollback, storeVars, OthersStay, Served, StartRollback, Refused, At
<1>3. CASE WriteCredential
  BY <1>0, <1>3 DEF WriteCredential, WriteStep, OthersStay, Served, PutCredential, Refused, At
<1>4. CASE WriteFallback
  BY <1>0, <1>4
  DEF WriteFallback, WriteStep, OthersStay, Served, PutFallback, PassOver, Refused, At
<1>5. CASE WriteMetadata
  BY <1>0, <1>5
  DEF WriteMetadata, WriteStep, OthersStay, Served, PutMetadata, PassOver, Refused, At
<1>6. CASE VerifyWrite
  BY <1>0, <1>6 DEF VerifyWrite, WriteStep, OthersStay, Served, PassOver, Refused, At
<1>7. CASE FailWrite
  <2>1. left' \in [Occasions -> Nat] /\ left'["restart"] = left["restart"]
    BY <1>0, <1>7, SpendIs DEF FailWrite, Occasions
  <2> QED
    BY <1>7, <2>1 DEF FailWrite, storeVars, OthersStay, Served, Refused
<1>8. CASE FailConfiguration
  <2>1. left' \in [Occasions -> Nat] /\ left'["restart"] = left["restart"]
    BY <1>0, <1>8, SpendIs DEF FailConfiguration, Occasions
  <2> QED
    BY <1>8, <2>1 DEF FailConfiguration, storeVars, OthersStay, Served, Refused, StartUndo, At
<1> QED
  BY <1>1, <1>2, <1>3, <1>4, <1>5, <1>6, <1>7, <1>8 DEF ServingStep

\* Where each of them leaves the switch.
LEMMA ServedMoves ==
  ASSUME SwitchTypeOK
  PROVE  /\ StartApply => /\ switch' \in SwitchStates /\ switch'.op = Op /\ switch'.raw = Raw
                          /\ switch'.pc = IF ApplyCompleted(Raw, Op.after) THEN "applied"
                                          ELSE "auth"
                          /\ switch'.back = switch.back /\ switch'.queue = switch.queue
                          /\ switch'.to = switch.to
         /\ StartRollback =>
              /\ switch' \in SwitchStates /\ switch'.op = Op /\ switch'.raw = Raw
              /\ switch'.pc = IF RollbackDone(Raw, Op.before, Op.prepared.source)
                              THEN "undone" ELSE "auth"
              /\ switch'.back = TRUE /\ switch'.queue = switch.queue
              /\ switch'.to = switch.to
         /\ PutCredential \/ PutFallback \/ PutMetadata \/ PassOver \/ StartUndo =>
              /\ switch' \in SwitchStates /\ switch'.op = Op /\ switch'.raw = switch.raw
              /\ switch'.back = switch.back /\ switch'.queue = switch.queue
              /\ switch'.to = switch.to
         /\ PutCredential => switch.pc = "auth" /\ switch'.pc = "fallback"
         /\ PutFallback => switch.pc = "fallback" /\ switch'.pc = "meta"
         /\ PutMetadata => switch.pc = "meta" /\ switch'.pc = "verify"
         /\ PassOver =>
              \/ switch.pc = "fallback" /\ switch'.pc = "meta"
              \/ switch.pc = "meta" /\ switch'.pc = "verify" /\ ~IsClaude(backend)
              \/ switch.pc = "verify"
                   /\ switch'.pc = (IF switch.back THEN "undone" ELSE "applied")
         /\ StartUndo => switch.pc = "config" /\ switch'.pc = "undo"
         /\ Op' = switch'.op
<1>0. switch \in SwitchStates /\ Raw \in Raws /\ Op = switch.op /\ Op' = switch'.op
  BY StoreReads DEF SwitchTypeOK, Op
<1>1. StartApply => /\ switch' \in SwitchStates /\ switch'.op = Op /\ switch'.raw = Raw
                    /\ switch'.pc = IF ApplyCompleted(Raw, Op.after) THEN "applied"
                                    ELSE "auth"
                    /\ switch'.back = switch.back /\ switch'.queue = switch.queue
                    /\ switch'.to = switch.to
  BY <1>0 DEF StartApply, SwitchStates, Steps
<1>2. StartRollback =>
        /\ switch' \in SwitchStates /\ switch'.op = Op /\ switch'.raw = Raw
        /\ switch'.pc = IF RollbackDone(Raw, Op.before, Op.prepared.source)
                        THEN "undone" ELSE "auth"
        /\ switch'.back = TRUE /\ switch'.queue = switch.queue
        /\ switch'.to = switch.to
  BY <1>0 DEF StartRollback, SwitchStates, Steps
<1>3. {"fallback", "meta", "verify", "undone", "applied", "undo"} \subseteq Steps
  BY DEF Steps
<1>4. PutCredential => switch' = [switch EXCEPT !.pc = "fallback"] /\ switch.pc = "auth"
  BY DEF PutCredential, Goto, At
<1>5. PutFallback => switch' = [switch EXCEPT !.pc = "meta"] /\ switch.pc = "fallback"
  BY DEF PutFallback, Goto, At
<1>6. PutMetadata => switch' = [switch EXCEPT !.pc = "verify"] /\ switch.pc = "meta"
  BY DEF PutMetadata, Goto, At
<1>7. StartUndo => switch' = [switch EXCEPT !.pc = "undo"] /\ switch.pc = "config"
  BY DEF StartUndo, Goto, At
<1>8. PassOver =>
        \/ switch' = [switch EXCEPT !.pc = "meta"] /\ switch.pc = "fallback"
        \/ switch' = [switch EXCEPT !.pc = "verify"] /\ switch.pc = "meta"
             /\ ~IsClaude(backend)
        \/ /\ switch' = [switch EXCEPT !.pc = IF switch.back THEN "undone" ELSE "applied"]
           /\ switch.pc = "verify"
  BY DEF PassOver, Goto, At
<1> QED
  BY <1>0, <1>1, <1>2, <1>3, <1>4, <1>5, <1>6, <1>7, <1>8, GotoIs

LEMMA ServedDisk ==
  ASSUME SwitchTypeOK, Served
  PROVE  disk' \in Disks
<1>1. disk \in Disks /\ Want.auth \in AnyCred /\ Want.meta \in MaybeAccount
  BY SwitchReads DEF SwitchTypeOK
<1>2. PutCredential => disk' \in Disks
  BY <1>1 DEF PutCredential, WriteAuth, Disks
<1>3. PutFallback => disk' \in Disks
  BY <1>1, CredsAre DEF PutFallback, ClearFallback, Disks
<1>4. PutMetadata => disk' \in Disks
  BY <1>1 DEF PutMetadata, WriteMeta, Disks
<1> QED
  BY <1>1, <1>2, <1>3, <1>4
  DEF Served, Refused, StartApply, StartRollback, PassOver, StartUndo

LEMMA ServingTyped ==
  ASSUME SwitchTypeOK, ServingStep
  PROVE  SwitchTypes'
<1>1. OthersStay /\ Served /\ left' \in [Occasions -> Nat]
  BY ServingIs
<1>2. switch' \in SwitchStates /\ ops' \subseteq Journals
  <2>1. CASE Refused
    BY <2>1, RefuseIs DEF Refused
  <2>2. CASE ~Refused
    <3>1. ops' = ops
      BY <1>1, <2>2 DEF Served, StartApply, StartRollback, PutCredential, PutFallback,
        PutMetadata, PassOver, StartUndo
    <3> QED
      BY <1>1, <2>2, <3>1, ServedMoves DEF Served, SwitchTypeOK
  <2> QED
    BY <2>1, <2>2
<1>3. disk' \in Disks
  BY <1>1, ServedDisk
<1> QED
  BY <1>1, <1>2, <1>3, TypesOf DEF OthersStay, SwitchTypes


EndingStep == Applied \/ WriteConfiguration \/ RolledBack \/ Commit \/ Finish
StartingStep ==
  Restart \/ (\E op \in switch.queue : RecoverOldest(op)) \/ Recovered \/ RetryRelease

\* What ends an operation, and where it leaves the switch.
LEMMA EndingIs ==
  ASSUME SwitchTypeOK, EndingStep
  PROVE  /\ UNCHANGED <<backend, disk, oauth, vault, nativeRev, removed, left>>
         /\ switch' \in SwitchStates /\ ops' \subseteq ops /\ ops \ ops' \subseteq {Op}
         /\ switch'.pc \notin {"idle", "recover"} =>
              /\ switch'.op = Op /\ switch'.back = switch.back /\ switch'.raw = switch.raw
              /\ switch'.queue = switch.queue /\ ops' = ops
         /\ \/ /\ At("applied") /\ UNCHANGED dbVars
               /\ switch'.pc = IF Op.to = "release" THEN "commit" ELSE "config"
            \/ /\ At("config") /\ UNCHANGED <<owner, applied, baseline, active, ops>>
               /\ selector' = "official"
               /\ switch'.pc = IF Op.to = "release" THEN "check" ELSE "commit"
            \/ /\ At("undone") /\ UNCHANGED <<applied, baseline, active, selector>>
               /\ owner' \in OwnerStates /\ switch' = Idle
            \/ /\ At("commit") /\ switch'.pc = "finish" /\ UNCHANGED <<selector, ops>>
               /\ owner' \in OwnerStates
               /\ IF Op.to = "release"
                    THEN applied' = NoApplied /\ baseline' = NoBaseline /\ active' = active
                    ELSE applied' = Op.state /\ active' = Op.to /\ baseline' = baseline
            \/ /\ At("finish") /\ UNCHANGED <<owner, applied, baseline, active, selector>>
               /\ ops' = Without(Op)
               /\ switch' = IF Recovering THEN NextPending(Op) ELSE Idle
<1>0. /\ switch \in SwitchStates /\ Op = switch.op
      /\ {"commit", "config", "check", "finish"} \subseteq Steps
  BY DEF SwitchTypeOK, Op, Steps
<1>1. CASE Applied
  <2> DEFINE pc == IF Op.to = "release" THEN "commit" ELSE "config"
  <2>1. switch' = [switch EXCEPT !.pc = pc] /\ pc \in Steps
    BY <1>0, <1>1 DEF Applied, Goto
  <2> HIDE DEF pc
  <2>2. switch' \in SwitchStates /\ switch'.pc = pc /\ switch'.op = Op
        /\ switch'.back = switch.back /\ switch'.raw = switch.raw
        /\ switch'.queue = switch.queue
    BY <1>0, <2>1, GotoIs
  <2> QED
    BY <1>1, <2>2 DEF Applied, storeVars, dbVars, pc
<1>2. CASE WriteConfiguration
  <2> DEFINE pc == IF Op.to = "release" THEN "check" ELSE "commit"
  <2>1. switch' = [switch EXCEPT !.pc = pc] /\ pc \in Steps
    BY <1>0, <1>2 DEF WriteConfiguration, Goto
  <2> HIDE DEF pc
  <2>2. switch' \in SwitchStates /\ switch'.pc = pc /\ switch'.op = Op
        /\ switch'.back = switch.back /\ switch'.raw = switch.raw
        /\ switch'.queue = switch.queue
    BY <1>0, <2>1, GotoIs
  <2> QED
    BY <1>2, <2>2 DEF WriteConfiguration, storeVars, pc
<1>3. CASE RolledBack
  <2>1. owner' \in OwnerStates
    BY <1>3, StoreReads DEF RolledBack, SwitchTypeOK, OwnerStates
  <2> QED
    BY <1>3, <2>1, ConstantsAreTyped, IdleIs DEF RolledBack, storeVars, Without
<1>4. CASE Commit
  <2>1. owner' \in OwnerStates
    BY <1>4, StoreReads, ConstantsAreTyped DEF Commit, SwitchTypeOK, OwnerStates
  <2>2. switch' \in SwitchStates /\ switch'.pc = "finish" /\ switch'.op = Op
        /\ switch'.back = switch.back /\ switch'.raw = switch.raw
        /\ switch'.queue = switch.queue
    BY <1>0, <1>4, GotoIs DEF Commit, Goto
  <2> QED
    BY <1>4, <2>1, <2>2 DEF Commit, storeVars
<1>5. CASE Finish
  <2>1. switch' \in SwitchStates /\ switch'.pc \in {"idle", "recover"}
    BY <1>5, ConstantsAreTyped, IdleIs, NextPendingIs DEF Finish
  <2> QED
    BY <1>5, <2>1 DEF Finish, storeVars, Without
<1> QED
  BY <1>1, <1>2, <1>3, <1>4, <1>5 DEF EndingStep

\* What begins one, or recovery.
LEMMA StartingIs ==
  ASSUME SwitchTypeOK, StartingStep
  PROVE  /\ UNCHANGED <<backend, disk, oauth, vault, nativeRev, removed, owner, applied,
                        baseline, active, selector>>
         /\ switch' \in SwitchStates /\ ops' \subseteq ops
         /\ left' \in [Occasions -> Nat] /\ switch'.back \in {FALSE, switch.back}
         /\ \/ /\ switch'.pc = "recover" /\ switch'.queue = ops /\ ops' = ops
               /\ switch'.back = FALSE /\ left'["restart"] # left["restart"]
            \/ /\ At("recover") /\ left' = left
               /\ \E op \in switch.queue :
                    /\ \/ /\ switch'.pc = "config" /\ op.to = "release" /\ switch'.op = op
                          /\ switch'.queue = switch.queue /\ ops' = ops
                          /\ switch'.back = switch.back
                       \/ /\ switch'.pc = "check" /\ switch'.op = op /\ MayRecover(op)
                          /\ switch'.queue = switch.queue /\ ops' = ops
                          /\ switch'.back = switch.back
                       \/ switch' = NextPending(op) /\ ops' = Without(op)
            \/ /\ At("recover") /\ ~Recovering /\ switch'.pc = "inspect" /\ ops' = ops
               /\ switch'.queue = switch.queue /\ switch'.back = switch.back /\ left' = left
            \/ /\ At("idle") /\ ops' = ops /\ left'["restart"] = left["restart"]
               /\ switch'.pc = "config" /\ switch'.queue = {} /\ switch'.back = FALSE
               /\ \E op \in ops : op.to = "release" /\ switch'.op = op
<1>0. /\ switch \in SwitchStates /\ Op = switch.op /\ ops \subseteq Journals
      /\ switch.queue \subseteq Journals /\ left \in [Occasions -> Nat]
      /\ {"config", "check", "recover", "inspect"} \subseteq Steps
  BY SwitchReads DEF SwitchTypeOK, Steps
<1>1. CASE Restart
  <2>1. left' \in [Occasions -> Nat] /\ left'["restart"] # left["restart"]
    BY <1>0, <1>1, SpendIs DEF Restart, Occasions
  <2>2. switch' \in SwitchStates /\ switch'.pc = "recover" /\ switch'.queue = ops
        /\ switch'.back = FALSE
    BY <1>0, <1>1, ConstantsAreTyped, IdleIs DEF Restart, SwitchStates
  <2> QED
    BY <1>1, <2>1, <2>2 DEF Restart, storeVars, dbVars
<1>2. ASSUME NEW op \in switch.queue, RecoverOldest(op)
      PROVE  /\ switch' \in SwitchStates /\ ops' \subseteq ops
             /\ \/ /\ switch'.pc = "config" /\ op.to = "release" /\ switch'.op = op
                   /\ switch'.queue = switch.queue /\ ops' = ops
                   /\ switch'.back = switch.back
                \/ /\ switch'.pc = "check" /\ switch'.op = op /\ MayRecover(op)
                   /\ switch'.queue = switch.queue /\ ops' = ops
                   /\ switch'.back = switch.back
                \/ /\ switch' = NextPending(op) /\ ops' = Without(op)
                   /\ switch'.back = FALSE
  <2>1. CASE switch' = [switch EXCEPT !.op = op, !.pc = "config"] /\ ops' = ops
               /\ op.to = "release"
    BY <1>0, <1>2, <2>1 DEF SwitchStates
  <2>2. CASE switch' = [switch EXCEPT !.op = op, !.pc = "check"] /\ ops' = ops
               /\ MayRecover(op)
    BY <1>0, <1>2, <2>2 DEF SwitchStates
  <2>3. CASE switch' = NextPending(op) /\ ops' = Without(op)
    BY <2>3, NextPendingIs DEF Without
  <2> QED
    BY <1>2, <2>1, <2>2, <2>3 DEF RecoverOldest
<1>3. ASSUME NEW op \in switch.queue, RecoverOldest(op)
      PROVE  At("recover") /\ left' = left
             /\ UNCHANGED <<backend, disk, oauth, vault, nativeRev, removed, owner, applied,
                        baseline, active, selector>>
  BY <1>3 DEF RecoverOldest, storeVars
<1>4. CASE Recovered
  <2>1. switch' = [switch EXCEPT !.pc = "inspect"]
    BY <1>4 DEF Recovered, Goto
  <2> QED
    BY <1>0, <1>4, <2>1, GotoIs DEF Recovered, storeVars, dbVars
<1>5. CASE RetryRelease
  <2>1. left' \in [Occasions -> Nat] /\ left'["restart"] = left["restart"]
    BY <1>0, <1>5, SpendIs DEF RetryRelease, Occasions
  <2>2. PICK op \in ops : op.to = "release"
          /\ switch' = [Idle EXCEPT !.pc = "config", !.to = "release", !.op = op,
                                 !.raw = op.prepared]
    BY <1>5 DEF RetryRelease
  <2>3. op \in Journals /\ op.prepared \in Raws
    BY <1>0, <2>2 DEF Journals
  <2>4. switch' \in SwitchStates /\ switch'.op = op /\ switch'.queue = {}
        /\ switch'.back = FALSE /\ switch'.pc = "config"
    BY <1>0, <2>2, <2>3, ConstantsAreTyped, IdleIs DEF SwitchStates, Targets
  <2> QED
    BY <1>5, <2>1, <2>2, <2>4 DEF RetryRelease, storeVars, dbVars
<1> QED
  BY <1>0, <1>1, <1>2, <1>3, <1>4, <1>5 DEF StartingStep

LEMMA RunsTyped ==
  ASSUME SwitchTypeOK, EndingStep \/ StartingStep
  PROVE  SwitchTypes'
<1>0. SwitchTypes /\ ops \subseteq Journals
  BY TypesOf DEF SwitchTypeOK
<1>1. CASE EndingStep
  <2>1. Op.state \in AppliedStates /\ Op.to \in Targets \ {"inspect"}
    BY DEF SwitchTypeOK, SwitchStates, Op, Journals
  <2>2. applied' \in AppliedStates /\ baseline' \in Baselines /\ owner' \in OwnerStates
        /\ active' \in Accounts \cup {"native", "api"} /\ selector' \in {"official", "api"}
    BY <1>0, <1>1, <2>1, EndingIs, ConstantsAreTyped DEF SwitchTypes, Targets, dbVars
  <2> QED
    BY <1>0, <1>1, <2>2, EndingIs DEF SwitchTypes
<1>2. CASE StartingStep
  <2>1. UNCHANGED <<backend, disk, oauth, vault, nativeRev, removed, owner, applied,
                    baseline, active, selector>>
        /\ switch' \in SwitchStates /\ ops' \subseteq ops /\ left' \in [Occasions -> Nat]
    BY <1>2, StartingIs
  <2> QED
    BY <1>0, <2>1 DEF SwitchTypes
<1> QED
  BY <1>1, <1>2


\* What went wrong is only ever added to.
LEMMA HistoryIs ==
  ASSUME SwitchTypeOK, HistoryStep
  PROVE  /\ history' \in Histories
         /\ ~history'.half => ~history.half /\ ~GivenUp
         /\ history.torn \subseteq history'.torn /\ history.handed \subseteq history'.handed
         /\ history.dropped \subseteq history'.dropped
<1>0. history \in Histories /\ history.half \in BOOLEAN /\ history.torn \subseteq MaybeAccount
      /\ history.handed \subseteq Sessions /\ history.dropped \subseteq Sessions
  BY DEF SwitchTypeOK, Histories
<1> DEFINE torn == CASE At("mark") /\ switch'.pc = "recover" -> {applied.acct}
                     [] At("imported") /\ switch'.pc = "recover" ->
                          {Identity(backend, Snapshot(switch.raw))}
                     [] OTHER -> {}
           handed == IF At("commit") /\ switch'.pc = "finish" /\ Op.state = NoApplied
                          /\ Op.after.auth # NoCred
                       THEN {Op.after.auth.sess} ELSE {}
           dropped == {c.sess : c \in TakenAway}
<1>1. history' = [half |-> history.half \/ GivenUp, torn |-> history.torn \cup torn,
                  handed |-> history.handed \cup handed,
                  dropped |-> history.dropped \cup dropped]
  BY DEF HistoryStep
<1>2. torn \subseteq MaybeAccount
  BY SwitchReads DEF SwitchTypeOK, AppliedStates
<1>3. handed \subseteq Sessions
  BY SwitchReads, CredsAre
<1>4. dropped \subseteq Sessions
  <2>1. TakenAway \subseteq Creds
    BY StoreReads, CredsAre DEF TakenAway
  <2> QED
    BY <2>1 DEF Creds
<1>5. (history.half \/ GivenUp) \in BOOLEAN
  BY <1>0
<1> HIDE DEF torn, handed, dropped
<1>6. /\ history'.half = (history.half \/ GivenUp) /\ history'.torn = history.torn \cup torn
      /\ history'.handed = history.handed \cup handed
      /\ history'.dropped = history.dropped \cup dropped
  BY <1>1
<1>7. history' \in Histories
  BY <1>0, <1>1, <1>2, <1>3, <1>4, <1>5 DEF Histories
<1> QED
  BY <1>6, <1>7

ClientStep ==
  Refresh \/ KeyringFlip \/ \E s \in Sessions, i \in BOOLEAN : NativeLogin(s, i)
VaultStep ==
  \/ \E s \in Sessions : ExplicitLogin(s)
  \/ \E a \in Accounts : RemoveAccount(a)
  \/ \E to \in Accounts \cup {"native", "api", "release"} : SwitchWithoutAccounts(to)
BeginStep ==
  (\E to \in Accounts \cup {"native", "api", "release"} : BeginSwitch(to)) \/ BeginInspection
CaptureStep == CaptureOutgoing \/ MarkOutgoing \/ CaptureNative \/ MarkNative

LEMMA StepsAre ==
  SwitchSteps => \/ ClientStep \/ VaultStep \/ BeginStep \/ CaptureStep \/ OpenJournal
                 \/ ServingStep \/ EndingStep \/ StartingStep
BY DEF SwitchSteps, ClientStep, VaultStep, BeginStep, CaptureStep, ServingStep, EndingStep,
  StartingStep

LEMMA TypesStep ==
  ASSUME SwitchTypeOK, CapturesFile, SwitchNext
  PROVE  SwitchTypeOK'
<1>1. SwitchTypes'
  BY StepsAre, ClientTyped, RestTyped, CapturesTyped, OpenTyped, ServingTyped, RunsTyped
  DEF SwitchNext, ClientStep, VaultStep, BeginStep, CaptureStep
<1>2. history' \in Histories
  BY HistoryIs DEF SwitchNext
<1> QED
  BY <1>1, <1>2 DEF SwitchTypes, SwitchTypeOK

-----------------------------------------------------------------------------
(* What the other steps do.                                                   *)

LEMMA ClientIs ==
  ASSUME SwitchTypeOK, ClientStep
  PROVE  UNCHANGED <<backend, switch>> /\ UNCHANGED dbVars
         /\ left'["restart"] = left["restart"]
<1>0. left \in [Occasions -> Nat] /\ {"fail", "login"} \subseteq Occasions \ {"any", "restart"}
  BY DEF SwitchTypeOK, Occasions
<1>1. CASE Refresh
  BY <1>1 DEF Refresh
<1>2. CASE KeyringFlip
  BY <1>0, <1>2, SpendIs DEF KeyringFlip
<1>3. ASSUME NEW s \in Sessions, NEW i \in BOOLEAN, NativeLogin(s, i)
      PROVE  /\ UNCHANGED <<backend, switch>> /\ UNCHANGED dbVars
             /\ left'["restart"] = left["restart"]
  BY <1>0, <1>3, SpendIs DEF NativeLogin
<1> QED
  BY <1>1, <1>2, <1>3 DEF ClientStep

LEMMA BeginIs ==
  ASSUME SwitchTypeOK, BeginStep
  PROVE  /\ switch.pc \in {"idle", "inspect"} /\ switch' \in SwitchStates
         /\ UNCHANGED <<backend, disk, oauth, vault, nativeRev, removed, applied, active,
                        selector, ops>>
         /\ baseline' \in {baseline, [baseline EXCEPT !.snap = Active]}
         /\ switch'.queue = {} /\ switch'.back = FALSE
         /\ switch'.pc \in {"outgoing", "native"} =>
              switch'.raw = Raw
         /\ switch'.pc \in {"outgoing", "native", "idle"}
         /\ switch'.pc = "outgoing" => SameLogin
<1>1. ASSUME NEW to \in Targets, Capture(to)
      PROVE  /\ switch'.pc = "outgoing" /\ switch' \in SwitchStates /\ switch'.raw = Raw
             /\ UNCHANGED <<backend, disk, oauth, vault, nativeRev, removed, applied, active,
                            selector, ops>>
             /\ baseline' \in {baseline, [baseline EXCEPT !.snap = Active]}
             /\ switch'.queue = {} /\ switch'.back = FALSE /\ SameLogin
  BY <1>1, CaptureIs DEF storeVars
<1>2. ASSUME NEW to \in Accounts \cup {"native", "api", "release"}, BeginSwitch(to)
      PROVE  to \in Targets /\ Capture(to) /\ At("idle")
  BY <1>2 DEF BeginSwitch, Targets
<1>3. CASE BeginInspection /\ Capture("inspect")
  BY <1>1, <1>3 DEF BeginInspection, Targets, At
<1>4. CASE BeginInspection /\ ~Capture("inspect")
  <2>1. UNCHANGED <<backend, disk, oauth, vault, nativeRev, removed, applied, baseline,
                    active, selector, ops>> /\ At("inspect")
    BY <1>4 DEF BeginInspection, storeVars
  <2>2. CASE switch' = [Idle EXCEPT !.pc = "native", !.to = "inspect", !.raw = Raw]
    BY <2>1, <2>2, StoreReads, ConstantsAreTyped, IdleIs
    DEF SwitchStates, Steps, Targets, At
  <2>3. CASE switch' = Idle
    BY <2>1, <2>3, ConstantsAreTyped, IdleIs DEF At
  <2> QED
    BY <1>4, <2>2, <2>3 DEF BeginInspection
<1> QED
  BY <1>1, <1>2, <1>3, <1>4 DEF BeginStep, At

LEMMA CapturesIs ==
  ASSUME SwitchTypeOK, CaptureStep
  PROVE  /\ UNCHANGED <<backend, disk, oauth, owner, baseline, active, selector, ops, left>>
         /\ switch' \in SwitchStates /\ switch'.op = switch.op /\ switch'.raw = switch.raw
         /\ switch'.back = switch.back /\ switch'.queue = switch.queue
         /\ switch'.to = switch.to
         /\ \/ /\ At("outgoing") /\ switch'.pc = "mark" /\ IsSaved(applied.acct)
               /\ Store(applied.acct, switch.raw.auth) /\ UNCHANGED <<nativeRev, applied>>
               /\ vault[applied.acct].rev = applied.rev
            \/ /\ At("outgoing") /\ switch'.pc = "native"
               /\ ~(/\ IsSaved(applied.acct) /\ vault[applied.acct].rev = applied.rev
                    /\ vault[applied.acct].cred # switch.raw.auth)
               /\ UNCHANGED <<vault, removed, nativeRev, applied>>
            \/ /\ At("mark") /\ switch'.pc = "native"
               /\ applied' = [applied EXCEPT !.rev = vault[applied.acct].rev]
               /\ UNCHANGED <<vault, removed, nativeRev>>
            \/ /\ At("native") /\ switch'.pc = "imported" /\ ImportsNative
               /\ Store(Identity(backend, Snapshot(switch.raw)), switch.raw.auth)
               /\ UNCHANGED <<nativeRev, applied>>
            \/ /\ At("native") /\ switch'.pc = "open" /\ ~ImportsNative
               /\ UNCHANGED <<vault, removed, nativeRev, applied>>
            \/ /\ At("imported") /\ switch'.pc = "open"
               /\ nativeRev' = [nativeRev EXCEPT ![Identity(backend, Snapshot(switch.raw))] =
                                  vault[Identity(backend, Snapshot(switch.raw))].rev]
               /\ UNCHANGED <<vault, removed, applied>>
<1>0. switch \in SwitchStates /\ {"mark", "native", "imported", "open"} \subseteq Steps
  BY DEF SwitchTypeOK, Steps
<1>1. ASSUME NEW pc \in {"mark", "native", "imported", "open"},
             switch' = [switch EXCEPT !.pc = pc]
      PROVE  /\ switch' \in SwitchStates /\ switch'.op = switch.op /\ switch'.raw = switch.raw
             /\ switch'.back = switch.back /\ switch'.queue = switch.queue
             /\ switch'.to = switch.to /\ switch'.pc = pc
  BY <1>0, <1>1, GotoIs
<1>2. CASE CaptureOutgoing
  BY <1>1, <1>2 DEF CaptureOutgoing, storeVars, Goto
<1>3. CASE MarkOutgoing
  BY <1>1, <1>3 DEF MarkOutgoing, storeVars, Goto
<1>4. CASE CaptureNative
  BY <1>1, <1>4 DEF CaptureNative, storeVars, Goto
<1>5. CASE MarkNative
  BY <1>1, <1>5 DEF MarkNative, storeVars, Goto
<1> QED
  BY <1>2, <1>3, <1>4, <1>5 DEF CaptureStep


LEMMA VaultStepIs ==
  ASSUME SwitchTypeOK, VaultStep
  PROVE  /\ At("idle") /\ UNCHANGED <<backend, disk, switch, ops, applied, baseline>>
         /\ \/ \E s \in Sessions : /\ s \notin oauth.begun
                                   /\ oauth' = [oauth EXCEPT !.begun = @ \cup {s}]
                                   /\ Store(AccountOf[s], [sess |-> s, gen |-> 0])
                                   /\ nativeRev' = nativeRev
            \/ \E a \in Accounts : /\ oauth' = oauth /\ IsSaved(a)
                                   /\ vault' = [vault EXCEPT ![a].cred = NoCred]
                                   /\ nativeRev' = [nativeRev EXCEPT ![a] = 0]
                                   /\ removed' = removed \cup {a}
            \/ UNCHANGED <<oauth, vault, nativeRev, removed>>
BY DEF VaultStep, ExplicitLogin, RemoveAccount, SwitchWithoutAccounts, storeVars

LEMMA PendingStep ==
  ASSUME SwitchTypeOK, ServedIsPending, SwitchSteps
  PROVE  ServedIsPending'
<1>0. /\ Op = switch.op /\ Op' = switch'.op
      /\ Recovering <=> switch.queue # {}
      /\ Recovering' <=> switch'.queue # {}
  BY DEF Op, Recovering
<1>1. CASE ClientStep \/ VaultStep
  BY <1>0, <1>1, ClientIs, VaultStepIs DEF ServedIsPending, dbVars, At, Serving, Writing
<1>2. CASE BeginStep
  BY <1>0, <1>2, BeginIs DEF ServedIsPending, Serving, Writing
<1>3. CASE CaptureStep
  BY <1>0, <1>3, CapturesIs DEF ServedIsPending, Serving, Writing, At
<1>4. CASE OpenJournal
  <2>1. ~Recovering /\ switch.back = FALSE /\ switch.queue = {}
    BY <1>0, <1>4, OpenJournalIs, SwitchReads DEF ServedIsPending, At, Serving, Writing
  <2>2. CASE switch' = Idle
    BY <1>0, <2>2, IdleIs DEF ServedIsPending, Serving, Writing
  <2>3. CASE Opened /\ switch.to # "inspect"
    BY <1>0, <2>1, <2>3, OpenedIs DEF ServedIsPending, Serving, Writing, Opened
  <2> QED
    BY <1>4, <2>2, <2>3, OpenJournalIs
<1>5. CASE ServingStep
  <2>1. Served
    BY <1>5, ServingIs
  <2>2. CASE Refused /\ Recovering
    <3>1. switch' = NextPending(Op) /\ ops \ ops' \subseteq {Op}
      BY <2>2, RefuseIs DEF Refused
    <3>2. switch'.pc = "recover" /\ switch'.queue = switch.queue \ {Op} /\ switch'.back = FALSE
      BY <3>1, NextPendingIs
    <3> QED
      BY <1>0, <3>1, <3>2 DEF ServedIsPending, Serving, Writing
  <2>3. CASE Refused /\ ~Recovering
    <3>1. switch' = Idle
      BY <2>3, RefuseIs DEF Refused
    <3> QED
      BY <1>0, <3>1, IdleIs DEF ServedIsPending, Serving, Writing
  <2>4. CASE StartApply \/ StartUndo
    BY <1>0, <2>4, ServedMoves DEF ServedIsPending, Serving, Writing, StartApply, StartUndo, At
  <2>5. CASE StartRollback
    BY <1>0, <2>5, ServedMoves DEF ServedIsPending, Serving, Writing, StartRollback, At
  <2>6. CASE PutCredential \/ PutFallback \/ PutMetadata \/ PassOver
    <3>1. ops' = ops
      BY <2>6 DEF PutCredential, PutFallback, PutMetadata, PassOver
    <3> QED
      BY <1>0, <2>6, <3>1, ServedMoves DEF ServedIsPending, Serving, Writing
  <2> QED
    BY <2>1, <2>2, <2>3, <2>4, <2>5, <2>6 DEF Served
<1>6. CASE EndingStep
  <2>1. CASE switch'.pc \notin {"idle", "recover"}
    <3>1. /\ switch.pc \in {"applied", "config", "commit"}
          /\ switch'.pc \in {"config", "commit", "check", "finish"}
      BY <1>6, <2>1, EndingIs, IdleIs, NextPendingIs DEF At
    <3>2. /\ switch'.op = Op /\ switch'.back = switch.back /\ ops' = ops
          /\ switch'.queue = switch.queue
      BY <1>6, <2>1, EndingIs
    <3> QED
      BY <1>0, <3>1, <3>2 DEF ServedIsPending, Serving, Writing
  <2>2. CASE switch' = Idle
    BY <1>0, <2>2, IdleIs DEF ServedIsPending, Serving, Writing
  <2>3. CASE switch' = NextPending(Op) /\ ops' = Without(Op)
    BY <1>0, <2>3, NextPendingIs DEF ServedIsPending, Serving, Writing, Without
  <2> QED
    BY <1>6, <2>1, <2>2, <2>3, EndingIs, IdleIs, NextPendingIs
<1>7. CASE StartingStep
  <2>1. ASSUME NEW op \in switch.queue, switch' = NextPending(op), ops' = Without(op)
        PROVE  ServedIsPending'
    BY <1>0, <2>1, NextPendingIs DEF ServedIsPending, Serving, Writing, Without
  <2> QED
    BY <1>0, <1>7, <2>1, StartingIs DEF ServedIsPending, Serving, Writing, At
<1> QED
  BY <1>1, <1>2, <1>3, <1>4, <1>5, <1>6, <1>7, StepsAre


\* Where a capture may be, and where a row may come from.
LEMMA PlacesAre ==
  ASSUME SwitchTypeOK, SwitchSteps
  PROVE  /\ \/ ClientStep \/ VaultStep \/ BeginStep \/ CaptureStep
            \/ switch'.pc \notin Capturing
         /\ \/ ops' \subseteq ops
            \/ OpenJournal /\ Opened /\ switch.to # "inspect"
         /\ backend' = backend
<1>1. CASE ClientStep \/ VaultStep
  BY <1>1, ClientIs, VaultStepIs DEF dbVars
<1>2. CASE BeginStep \/ CaptureStep
  BY <1>2, BeginIs, CapturesIs
<1>3. CASE OpenJournal
  BY <1>3, OpenJournalIs, OpenedIs, IdleIs DEF Capturing
<1>4. CASE ServingStep
  <2>1. Served /\ backend' = backend
    BY <1>4, ServingIs DEF OthersStay
  <2>2. CASE Refused
    BY <2>1, <2>2, RefuseIs, NextPendingIs, IdleIs DEF Refused, Capturing
  <2>3. CASE ~Refused
    <3>1. ops' = ops
      BY <2>1, <2>3 DEF Served, StartApply, StartRollback, PutCredential, PutFallback,
        PutMetadata, PassOver, StartUndo
    <3> QED
      BY <2>1, <2>3, <3>1, ServedMoves DEF Served, Capturing
  <2> QED
    BY <2>2, <2>3
<1>5. CASE EndingStep
  <2>1. switch'.pc \notin Capturing
    BY <1>5, EndingIs, NextPendingIs, IdleIs DEF Capturing
  <2> QED
    BY <1>5, <2>1, EndingIs
<1>6. CASE StartingStep
  <2>1. switch'.pc \notin Capturing
    BY <1>6, StartingIs, NextPendingIs DEF Capturing
  <2> QED
    BY <1>6, <2>1, StartingIs
<1> QED
  BY <1>1, <1>2, <1>3, <1>4, <1>5, <1>6, StepsAre

LEMMA CapturesFileStep ==
  ASSUME SwitchTypeOK, CapturesFile, SwitchSteps
  PROVE  CapturesFile'
<1> DEFINE who == Identity(backend, Snapshot(switch.raw))
<1>0. switch.raw \in Raws /\ switch.raw.auth \in AnyCred /\ who \in MaybeAccount
      /\ (who # NoAccount => switch.raw.auth # NoCred)
  BY SwitchReads, IdentityIs
<1>1. CASE ClientStep \/ VaultStep
  <2>1. UNCHANGED <<backend, switch, applied>> /\ (UNCHANGED vault \/ At("idle"))
    BY <1>1, ClientIs, VaultStepIs DEF dbVars
  <2> QED
    BY <2>1 DEF CapturesFile, At, IsSaved
<1>2. CASE BeginStep
  <2>1. CASE switch'.pc = "outgoing"
    <3>1. UNCHANGED <<backend, disk, applied>> /\ switch'.raw = Raw /\ SameLogin
      BY <1>2, <2>1, BeginIs
    <3> QED
      BY <2>1, <3>1 DEF CapturesFile, At, SameLogin, Active
  <2>2. CASE switch'.pc \in {"native", "idle"}
    BY <2>2 DEF CapturesFile, At
  <2> QED
    BY <1>2, <2>1, <2>2, BeginIs
<1>3. CASE CaptureStep
  <2>1. CASE switch'.pc \in {"native", "open"}
    BY <2>1 DEF CapturesFile, At
  <2>2. CASE switch'.pc = "mark"
    <3>1. At("outgoing") /\ IsSaved(applied.acct) /\ Store(applied.acct, switch.raw.auth)
          /\ applied' = applied
      BY <1>3, <2>2, CapturesIs
    <3>2. applied.acct \in Accounts /\ applied # NoApplied
      BY <3>1, AccountsAssumption DEF IsSaved, NoApplied
    <3>3. switch.raw.auth # NoCred
      BY <1>0, <3>1, <3>2, AccountsAssumption DEF CapturesFile
    <3>4. vault'[applied.acct].cred = switch.raw.auth
      BY <1>0, <3>1, <3>2, StoreIs
    <3> QED
      BY <2>2, <3>1, <3>2, <3>3, <3>4 DEF CapturesFile, At, IsSaved
  <2>3. CASE switch'.pc = "imported"
    <3>1. At("native") /\ ImportsNative /\ Store(who, switch.raw.auth)
          /\ switch'.raw = switch.raw /\ backend' = backend
      BY <1>3, <2>3, CapturesIs
    <3>2. who \in Accounts /\ switch.raw.auth # NoCred
      BY <1>0, <3>1 DEF ImportsNative, MaybeAccount
    <3>3. vault'[who].cred = switch.raw.auth
      BY <1>0, <3>1, <3>2, StoreIs
    <3> QED
      BY <2>3, <3>1, <3>2, <3>3 DEF CapturesFile, At, IsSaved
  <2> QED
    BY <1>3, <2>1, <2>2, <2>3, CapturesIs
<1>4. CASE switch'.pc \notin Capturing
  BY <1>4 DEF CapturesFile, Capturing, At
<1> QED
  BY <1>1, <1>2, <1>3, <1>4, PlacesAre

LEMMA RawFits == SwitchTypeOK => FitsLayout(Raw.source)
BY StoreReads DEF FitsLayout, SourceOf, FileOnly, NeedsKeyring

LEMMA FitsStep ==
  ASSUME SwitchTypeOK, ServedIsPending, SourcesFit, SwitchSteps
  PROVE  SourcesFit'
<1>0. FitsLayout(Raw.source) /\ backend' = backend
  BY RawFits, PlacesAre
<1>1. \A op \in ops' : FitsLayout(op.prepared.source)
  <2>1. CASE Opened
    <3>1. NewOp.prepared = switch.raw /\ ops' = ops \cup {NewOp}
      BY <2>1, NewOpIs DEF Opened
    <3>2. OpenJournal => At("open")
      BY OpenJournalIs
    <3> QED
      BY <2>1, <3>1, <3>2, PlacesAre DEF SourcesFit, Capturing, At
  <2> QED
    BY <2>1, PlacesAre DEF SourcesFit
<1>2. switch'.pc \in Capturing \cup Writing => FitsLayout(switch'.raw.source)
  <2>1. CASE ClientStep \/ VaultStep
    BY <2>1, ClientIs, VaultStepIs DEF SourcesFit, At
  <2>2. CASE BeginStep
    BY <1>0, <2>2, BeginIs DEF Capturing, Writing
  <2>3. CASE CaptureStep
    BY <2>3, CapturesIs DEF SourcesFit, Capturing, At
  <2>4. CASE OpenJournal
    BY <2>4, OpenJournalIs, OpenedIs, IdleIs DEF Capturing, Writing
  <2>5. CASE ServingStep
    <3>1. CASE Refused
      BY <3>1, RefuseIs, NextPendingIs, IdleIs DEF Refused, Capturing, Writing
    <3>2. CASE StartApply \/ StartRollback
      BY <1>0, <3>2, ServedMoves
    <3>3. CASE PutCredential \/ PutFallback \/ PutMetadata \/ PassOver \/ StartUndo
      BY <3>3, ServedMoves DEF SourcesFit, Capturing, Writing
    <3> QED
      BY <2>5, <3>1, <3>2, <3>3, ServingIs DEF Served
  <2>6. CASE EndingStep
    BY <2>6, EndingIs, NextPendingIs, IdleIs DEF Capturing, Writing
  <2>7. CASE StartingStep
    BY <2>7, StartingIs, NextPendingIs DEF Capturing, Writing
  <2> QED
    BY <2>1, <2>2, <2>3, <2>4, <2>5, <2>6, <2>7, StepsAre
<1> QED
  BY <1>0, <1>1, <1>2 DEF SourcesFit, FitsLayout


\* What becomes of the vault.
Saves(a, c) ==
  /\ Store(a, c) /\ c # NoCred
  /\ \/ switch.pc \in Capturing /\ c = switch.raw.auth /\ oauth' = oauth
          /\ a = Identity(backend, Snapshot(switch.raw))
     \/ \E s \in Sessions : /\ c = [sess |-> s, gen |-> 0] /\ a = AccountOf[s]
                            /\ oauth' = [oauth EXCEPT !.begun = @ \cup {s}]
Forgets(a) ==
  /\ vault' = [vault EXCEPT ![a].cred = NoCred]
  /\ removed' = removed \cup {a} /\ oauth' = oauth

LEMMA VaultMoves ==
  ASSUME SwitchTypeOK, CapturesFile, SwitchSteps
  PROVE  \/ vault' = vault /\ removed' = removed
         \/ ops' = ops /\ \E a \in Accounts : Forgets(a) \/ \E c \in AnyCred : Saves(a, c)
<1> DEFINE who == Identity(backend, Snapshot(switch.raw))
<1>0. switch.raw.auth \in AnyCred /\ who \in MaybeAccount
      /\ (who # NoAccount => switch.raw.auth # NoCred)
  BY SwitchReads, IdentityIs
<1>1. CASE VaultStep
  <2>1. ops' = ops
    BY <1>1, VaultStepIs
  <2>2. ASSUME NEW s \in Sessions, Store(AccountOf[s], [sess |-> s, gen |-> 0]),
               oauth' = [oauth EXCEPT !.begun = @ \cup {s}]
        PROVE  \E a \in Accounts : \E c \in AnyCred : Saves(a, c)
    <3>1. /\ [sess |-> s, gen |-> 0] \in AnyCred /\ AccountOf[s] \in Accounts
          /\ [sess |-> s, gen |-> 0] # NoCred
      BY GenAssumption, CredsAre DEF Accounts
    <3> QED
      BY <2>2, <3>1 DEF Saves
  <2>3. CASE UNCHANGED <<oauth, vault, nativeRev, removed>>
    BY <2>3
  <2> QED
    BY <1>1, <2>1, <2>2, <2>3, VaultStepIs DEF Forgets
<1>2. CASE CaptureStep
  <2>1. CASE At("outgoing") /\ IsSaved(applied.acct) /\ Store(applied.acct, switch.raw.auth)
    <3>1. applied.acct \in Accounts /\ applied # NoApplied
      BY <2>1, AccountsAssumption DEF IsSaved, NoApplied
    <3>2. applied.acct = who /\ who # NoAccount
      BY <2>1, <3>1, AccountsAssumption DEF CapturesFile
    <3> QED
      BY <1>0, <1>2, <2>1, <3>1, <3>2, CapturesIs DEF Saves, Capturing, At
  <2>2. CASE At("native") /\ ImportsNative /\ Store(who, switch.raw.auth)
    <3>1. who \in Accounts /\ who # NoAccount
      BY <1>0, <2>2 DEF ImportsNative, MaybeAccount
    <3> QED
      BY <1>0, <1>2, <2>2, <3>1, CapturesIs DEF Saves, Capturing, At
  <2>3. CASE UNCHANGED <<vault, removed>>
    BY <2>3
  <2> QED
    BY <1>2, <2>1, <2>2, <2>3, CapturesIs
<1>3. CASE ~VaultStep /\ ~CaptureStep
  BY <1>3, StepsAre, ClientIs, BeginIs, OpenJournalIs, ServingIs, EndingIs, StartingIs
  DEF dbVars, OthersStay
<1> QED
  BY <1>1, <1>2, <1>3

LEMMA ForgetsIs ==
  ASSUME SwitchTypeOK, NEW a \in Accounts, Forgets(a)
  PROVE  /\ vault'[a].cred = NoCred /\ vault'[a].rev = vault[a].rev
         /\ \A b \in Accounts \ {a} : vault'[b] = vault[b]
         /\ removed' = removed \cup {a}
<1>1. vault' = [vault EXCEPT ![a].cred = NoCred]
      /\ vault \in [Accounts -> [cred : AnyCred, rev : Nat]]
  BY DEF Forgets, SwitchTypeOK
<1>2. vault'[a] = [vault[a] EXCEPT !.cred = NoCred] /\ \A b \in Accounts \ {a} : vault'[b] = vault[b]
  BY <1>1
<1>3. vault[a] \in [cred : AnyCred, rev : Nat]
  BY <1>1
<1> QED
  BY <1>2, <1>3 DEF Forgets

LEMMA SavesIs ==
  ASSUME SwitchTypeOK, NEW a \in Accounts, NEW c \in AnyCred, Saves(a, c)
  PROVE  /\ vault'[a].cred = c /\ vault'[a].rev = vault[a].rev + 1
         /\ \A b \in Accounts \ {a} : vault'[b] = vault[b]
         /\ removed' = removed \ {a} /\ c # NoCred
BY StoreIs DEF Saves

LEMMA RemovedStep ==
  ASSUME SwitchTypeOK, CapturesFile, SavedIsNotRemoved, SwitchSteps
  PROVE  SavedIsNotRemoved'
<1>1. CASE vault' = vault /\ removed' = removed
  BY <1>1 DEF SavedIsNotRemoved, IsSaved
<1>2. ASSUME NEW a \in Accounts, Forgets(a) PROVE SavedIsNotRemoved'
  BY <1>2, ForgetsIs DEF SavedIsNotRemoved, IsSaved, SwitchTypeOK
<1>3. ASSUME NEW a \in Accounts, NEW c \in AnyCred, Saves(a, c) PROVE SavedIsNotRemoved'
  BY <1>3, SavesIs DEF SavedIsNotRemoved, IsSaved, SwitchTypeOK
<1> QED
  BY <1>1, <1>2, <1>3, VaultMoves

LEMMA AgreeStep ==
  ASSUME SwitchTypeOK, CapturesFile, StatesAgree, SwitchSteps
  PROVE  StatesAgree'
<1> DEFINE Agrees(op) ==
      IF op.to \in Accounts
        THEN /\ op.state.acct = op.to /\ op.state.rev <= vault[op.to].rev
             /\ StillCurrent(op) => vault[op.to].cred = op.after.auth
        ELSE op.state = NoApplied
<1>0. \A op \in ops : op \in Journals /\ op.state \in AppliedStates /\ op.state.rev \in Nat
  BY DEF SwitchTypeOK, Journals, AppliedStates
<1>1. \A op \in ops : Agrees(op)'
  <2> SUFFICES ASSUME NEW op \in ops PROVE Agrees(op)'
    OBVIOUS
  <2>0. Agrees(op)
    BY DEF StatesAgree
  <2>1. CASE op.to \notin Accounts
    BY <2>0, <2>1
  <2>2. CASE op.to \in Accounts
    <3>0. vault[op.to].rev \in Nat /\ op.state.rev \in Nat /\ op.state # NoApplied
      BY <1>0, <2>0, <2>2, VaultReads, AccountsAssumption DEF NoApplied
    <3>1. CASE vault' = vault
      BY <2>0, <3>1 DEF StillCurrent, IsSaved
    <3>2. ASSUME NEW a \in Accounts, Forgets(a) PROVE Agrees(op)'
      <4>1. CASE a = op.to
        BY <2>0, <2>2, <3>0, <3>2, <4>1, ForgetsIs DEF StillCurrent, IsSaved
      <4>2. CASE a # op.to
        BY <2>0, <2>2, <3>2, <4>2, ForgetsIs DEF StillCurrent, IsSaved
      <4> QED
        BY <4>1, <4>2
    <3>3. ASSUME NEW a \in Accounts, NEW c \in AnyCred, Saves(a, c) PROVE Agrees(op)'
      <4>1. CASE a = op.to
        <5>1. vault'[op.to].rev = vault[op.to].rev + 1
          BY <3>3, <4>1, SavesIs
        <5>2. op.state.rev < vault'[op.to].rev
          BY <2>0, <2>2, <3>0, <5>1
        <5> QED
          BY <2>0, <2>2, <3>0, <5>1, <5>2 DEF StillCurrent
      <4>2. CASE a # op.to
        BY <2>0, <2>2, <3>3, <4>2, SavesIs DEF StillCurrent, IsSaved
      <4> QED
        BY <4>1, <4>2
    <3> QED
      BY <3>1, <3>2, <3>3, VaultMoves
  <2> QED
    BY <2>1, <2>2
<1>2. ASSUME NEW new, new = NewOp, OpenJournal, switch.to # "inspect" PROVE Agrees(new)'
  <2>0. vault' = vault
    BY <1>2, OpenJournalIs
  <2>1. CASE switch.to \in Accounts
    <3>1. new.to = switch.to /\ new.after = SnapshotOf(switch.to)
          /\ new.state = [acct |-> switch.to, rev |-> vault[switch.to].rev]
      BY <1>2, <2>1, NewOpIs, WantedIs
    <3>2. new.after.auth = vault[switch.to].cred /\ vault[switch.to].rev \in Nat
      BY <2>1, <3>1, VaultReads
    <3>3. new.state.acct = switch.to /\ new.state.rev = vault[switch.to].rev
      BY <3>1
    <3> QED
      BY <2>0, <2>1, <3>1, <3>2, <3>3
  <2>2. CASE switch.to \notin Accounts
    BY <1>2, <2>2, NewOpIs
  <2> QED
    BY <2>1, <2>2
<1>3. \A op \in ops' : Agrees(op)'
  <2> HIDE DEF Agrees
  <2>1. PICK new : new = NewOp
    OBVIOUS
  <2> QED
    BY <1>1, <1>2, <2>1, PlacesAre DEF Opened
<1> QED
  BY <1>3 DEF StatesAgree

LEMMA AppliedStep ==
  ASSUME SwitchTypeOK, ServedIsPending, CapturesFile, StatesAgree, MarksAreApplied,
         SwitchSteps
  PROVE  MarksAreApplied'
<1>1. \A op \in ops : op.state = NoApplied \/ op.state.acct \in Accounts
  BY DEF StatesAgree
<1>2. CASE CaptureStep
  <2>1. CASE applied' = applied
    BY <2>1 DEF MarksAreApplied
  <2>2. CASE At("mark") /\ applied' = [applied EXCEPT !.rev = vault[applied.acct].rev]
    BY <2>2 DEF MarksAreApplied, CapturesFile, IsSaved, SwitchTypeOK, AppliedStates
  <2> QED
    BY <1>2, <2>1, <2>2, CapturesIs
<1>3. CASE EndingStep
  BY <1>1, <1>3, EndingIs DEF ServedIsPending, MarksAreApplied, At, Serving, dbVars
<1>4. CASE ~CaptureStep /\ ~EndingStep
  BY <1>4, StepsAre, ClientIs, VaultStepIs, BeginIs, OpenJournalIs, ServingIs, StartingIs
  DEF dbVars, OthersStay, MarksAreApplied
<1> QED
  BY <1>2, <1>3, <1>4


\* What the client does to the server and to its store.
LEMMA RefreshIs ==
  ASSUME SwitchTypeOK, Refresh
  PROVE  \E c, next \in Creds :
           /\ c = Active.auth /\ c.gen = oauth.newest[c.sess] /\ c # next
           /\ next.sess = c.sess /\ next.gen = c.gen + 1
           /\ oauth'.begun = oauth.begun /\ oauth'.newest[c.sess] = next.gen
           /\ \A s \in Sessions \ {c.sess} : oauth'.newest[s] = oauth.newest[s]
           /\ disk'.meta = disk.meta /\ disk'.reachable = disk.reachable
           /\ disk'.file = IF Raw.source = "file" THEN next ELSE disk.file
           /\ disk'.secure = IF Raw.source = "file" THEN disk.secure ELSE next
           /\ ~Guarded
<1>1. PICK c \in Creds : c = Active.auth /\ c.gen = oauth.newest[c.sess] /\ c.gen < MaxGen
  BY StoreReads DEF Refresh, AnyCred
<1> DEFINE next == [c EXCEPT !.gen = @ + 1]
<1>2. c.sess \in Sessions /\ c.gen \in Nat /\ next \in Creds /\ next.sess = c.sess
      /\ next.gen = c.gen + 1
  BY <1>1, GenAssumption DEF Creds
<1> HIDE DEF next
<1>3. c # next
  <2>1. next.gen # c.gen
    BY <1>2
  <2> QED
    BY <2>1
<1>4. oauth' = [oauth EXCEPT !.newest[c.sess] = @ + 1]
      /\ oauth \in [begun : SUBSET Sessions, newest : [Sessions -> 0 .. MaxGen]]
  BY <1>1 DEF Refresh, SwitchTypeOK
<1>5. oauth'.begun = oauth.begun /\ oauth'.newest[c.sess] = next.gen
      /\ \A s \in Sessions \ {c.sess} : oauth'.newest[s] = oauth.newest[s]
  BY <1>1, <1>2, <1>4
<1>6. disk \in Disks /\ disk' = IF Raw.source = "file" THEN [disk EXCEPT !.file = next]
                                ELSE [disk EXCEPT !.secure = next]
  BY <1>1 DEF Refresh, SwitchTypeOK, next
<1>7. /\ disk'.meta = disk.meta /\ disk'.reachable = disk.reachable
      /\ disk'.file = IF Raw.source = "file" THEN next ELSE disk.file
      /\ disk'.secure = IF Raw.source = "file" THEN disk.secure ELSE next
  BY <1>6 DEF Disks
<1>8. ~Guarded
  BY DEF Refresh
<1> QED
  BY <1>1, <1>2, <1>3, <1>5, <1>7, <1>8

LEMMA LoginIs ==
  ASSUME SwitchTypeOK, NEW s \in Sessions, NEW inactive \in BOOLEAN, NativeLogin(s, inactive)
  PROVE  \E c \in Creds :
           /\ c.sess = s /\ c.gen = 0 /\ s \notin oauth.begun /\ ~Guarded
           /\ AccountIn(c) = AccountOf[s]
           /\ oauth' = [oauth EXCEPT !.begun = @ \cup {s}] /\ disk'.reachable = disk.reachable
           /\ disk'.file \in {disk.file, c, NoCred} /\ disk'.secure \in {disk.secure, c}
           /\ IsClaude(backend) => disk'.meta = AccountOf[s] /\ Raw'.auth = c
           /\ ~IsClaude(backend) => disk'.meta = disk.meta
<1> DEFINE c == [sess |-> s, gen |-> 0]
<1>1. c \in Creds /\ c.sess = s /\ c.gen = 0 /\ AccountIn(c) = AccountOf[s]
  BY GenAssumption, CredsAre
<1> DEFINE there == inactive \/ FileOnly(backend) \/ (backend = "codex_auto" /\ ~disk.reachable)
<1>2. /\ s \notin oauth.begun /\ ~Guarded /\ backend' = backend
      /\ oauth' = [oauth EXCEPT !.begun = @ \cup {s}]
      /\ disk' = IF there
             THEN [disk EXCEPT !.file = c,
                               !.meta = IF IsClaude(backend) THEN AccountOf[s] ELSE @]
             ELSE [disk EXCEPT !.secure = c,
                               !.file = IF IsClaude(backend) THEN @ ELSE NoCred,
                               !.meta = IF IsClaude(backend) THEN AccountOf[s] ELSE @]
  BY DEF NativeLogin
<1>3. inactive => ~IsClaude(backend)
  BY DEF NativeLogin, IsClaude
<1>4. disk \in Disks
  BY DEF SwitchTypeOK
<1> HIDE DEF c
<1>5. /\ disk'.reachable = disk.reachable
      /\ disk'.file \in {disk.file, c, NoCred} /\ disk'.secure \in {disk.secure, c}
      /\ disk'.meta = IF IsClaude(backend) THEN AccountOf[s] ELSE disk.meta
      /\ there => disk'.file = c
      /\ ~there => disk'.secure = c
  BY <1>2, <1>4 DEF Disks
<1>6. IsClaude(backend) => Raw'.auth = c
  <2>1. disk' \in Disks
    BY <1>1, <1>4, <1>2, CredsAre DEF Disks, AnyCred, MaybeAccount, Accounts
  <2>2. Raw'.auth = IF SourceOf(backend, disk') = "file" THEN disk'.file ELSE disk'.secure
    BY <1>2, <2>1, RawsOfDisks DEF Raw
  <2> QED
    BY <1>3, <1>5, <2>2 DEF IsClaude, SourceOf, FileOnly
<1> QED
  BY <1>1, <1>2, <1>5, <1>6

\* Nothing but the client and a login moves the server.
LEMMA OauthIs ==
  ASSUME SwitchTypeOK, CapturesFile, SwitchSteps
  PROVE  \/ oauth' = oauth \/ Refresh
         \/ \E s \in Sessions \ oauth.begun : oauth' = [oauth EXCEPT !.begun = @ \cup {s}]
<1>1. CASE ClientStep
  BY <1>1 DEF ClientStep, KeyringFlip, NativeLogin
<1>2. CASE VaultStep
  BY <1>2, VaultStepIs
<1>3. CASE ~ClientStep /\ ~VaultStep
  BY <1>3, StepsAre, BeginIs, CapturesIs, OpenJournalIs, ServingIs, EndingIs, StartingIs
  DEF storeVars, OthersStay
<1> QED
  BY <1>1, <1>2, <1>3

LEMMA IssuedStays ==
  ASSUME SwitchTypeOK, CapturesFile, SwitchSteps, NEW c \in AnyCred, Issued(c)
  PROVE  Issued(c)'
<1>1. CASE oauth' = oauth
  BY <1>1 DEF Issued
<1>2. CASE Refresh
  <2>1. PICK d, next \in Creds :
          /\ d.gen = oauth.newest[d.sess] /\ next.gen = d.gen + 1
          /\ oauth'.begun = oauth.begun /\ oauth'.newest[d.sess] = next.gen
          /\ \A s \in Sessions \ {d.sess} : oauth'.newest[s] = oauth.newest[s]
    BY <1>2, RefreshIs
  <2>2. d.gen \in Nat
    BY <2>1, GenAssumption DEF Creds
  <2>3. c # NoCred => c.gen \in Nat /\ c.sess \in Sessions
    BY GenAssumption DEF AnyCred, Creds
  <2> QED
    BY <2>1, <2>2, <2>3 DEF Issued
<1>3. ASSUME NEW s \in Sessions \ oauth.begun, oauth' = [oauth EXCEPT !.begun = @ \cup {s}]
      PROVE  Issued(c)'
  BY <1>3 DEF Issued, SwitchTypeOK
<1> QED
  BY <1>1, <1>2, <1>3, OauthIs

LEMMA FreshStays ==
  ASSUME SwitchTypeOK, CapturesFile, OnlyIssued, SwitchSteps
  PROVE  \A s \in Sessions \ oauth'.begun : oauth'.newest[s] = 0
<1>1. CASE Refresh
  <2>1. PICK d, next \in Creds :
          /\ d = Active.auth /\ oauth'.begun = oauth.begun
          /\ \A s \in Sessions \ {d.sess} : oauth'.newest[s] = oauth.newest[s]
    BY <1>1, RefreshIs
  <2>2. d.sess \in oauth.begun
    BY <2>1, StoreReads, CredAssumption DEF OnlyIssued, Issued
  <2> QED
    BY <2>1, <2>2 DEF OnlyIssued
<1>2. ASSUME NEW s \in Sessions \ oauth.begun, oauth' = [oauth EXCEPT !.begun = @ \cup {s}]
      PROVE  \A t \in Sessions \ oauth'.begun : oauth'.newest[t] = 0
  BY <1>2 DEF OnlyIssued, SwitchTypeOK
<1> QED
  BY <1>1, <1>2, OauthIs DEF OnlyIssued

\* A login is issued as it is made.
LEMMA LoginIssued ==
  ASSUME SwitchTypeOK, OnlyIssued, NEW s \in Sessions \ oauth.begun,
         oauth' = [oauth EXCEPT !.begun = @ \cup {s}], NEW c \in Creds, c.sess = s, c.gen = 0
  PROVE  Issued(c)'
<1>1. oauth'.begun = oauth.begun \cup {s} /\ oauth'.newest = oauth.newest
  BY DEF SwitchTypeOK
<1> QED
  BY <1>1 DEF Issued, OnlyIssued


\* The store changes only in the client's hands and in a write.
LEMMA DiskMoves ==
  ASSUME SwitchTypeOK, SwitchSteps
  PROVE  \/ UNCHANGED disk
         \/ ClientStep
         \/ ServingStep /\ (PutCredential \/ PutFallback \/ PutMetadata)
<1>1. CASE ServingStep
  <2>1. UNCHANGED disk \/ PutCredential \/ PutFallback \/ PutMetadata
    BY <1>1, ServingIs
    DEF Served, Refused, StartApply, StartRollback, PassOver, StartUndo
  <2> QED
    BY <1>1, <2>1
<1>2. CASE ~ServingStep /\ ~ClientStep
  <2>1. UNCHANGED disk
    BY <1>2, StepsAre, VaultStepIs, BeginIs, CapturesIs, OpenJournalIs, EndingIs, StartingIs
    DEF storeVars
  <2> QED
    BY <1>2, <2>1
<1> QED
  BY <1>1, <1>2

LEMMA PutsAre ==
  ASSUME SwitchTypeOK
  PROVE  /\ PutCredential =>
              /\ disk'.meta = disk.meta /\ disk'.reachable = disk.reachable
              /\ disk'.file = IF Observed.source = "file" THEN Want.auth ELSE disk.file
              /\ disk'.secure = IF Observed.source = "file" THEN disk.secure ELSE Want.auth
              /\ Observed.source = "file" => disk.file = Observed.auth
              /\ Observed.source # "file" => disk.secure = Observed.auth
              /\ Raw = switch.raw /\ ops' = ops
         /\ PutFallback => /\ disk' = [disk EXCEPT !.file = NoCred] /\ ~IsClaude(backend)
                           /\ disk'.secure = disk.secure /\ disk'.file = NoCred
                           /\ disk'.meta = disk.meta /\ ops' = ops
                           /\ disk.file = Observed.fallback
         /\ PutMetadata => /\ disk'.secure = disk.secure /\ disk'.file = disk.file
                           /\ disk'.reachable = disk.reachable /\ disk'.meta = Want.meta
                           /\ IsClaude(backend) /\ ops' = ops
<1>0. disk \in Disks
  BY DEF SwitchTypeOK
<1>1. PutCredential => /\ disk' = WriteAuth(disk, Observed, Want)
                       /\ AuthMatches(disk, Observed) /\ Raw = switch.raw /\ ops' = ops
  BY DEF PutCredential
<1>2. PutFallback => /\ disk' = [disk EXCEPT !.file = NoCred] /\ ~IsClaude(backend)
                     /\ disk.file = Observed.fallback /\ ops' = ops
  BY DEF PutFallback, ClearFallback, ClearsFallback, FallbackMatches
<1>3. PutMetadata => /\ disk' = [disk EXCEPT !.meta = Want.meta] /\ IsClaude(backend)
                     /\ ops' = ops
  BY DEF PutMetadata, WriteMeta
<1>4. PutCredential =>
        /\ disk'.meta = disk.meta /\ disk'.reachable = disk.reachable
        /\ disk'.file = IF Observed.source = "file" THEN Want.auth ELSE disk.file
        /\ disk'.secure = IF Observed.source = "file" THEN disk.secure ELSE Want.auth
        /\ Observed.source = "file" => disk.file = Observed.auth
        /\ Observed.source # "file" => disk.secure = Observed.auth
        /\ Raw = switch.raw /\ ops' = ops
  BY <1>0, <1>1 DEF WriteAuth, AuthMatches, Disks
<1>5. PutFallback => /\ disk'.secure = disk.secure /\ disk'.file = NoCred
                     /\ disk'.meta = disk.meta
  BY <1>0, <1>2 DEF Disks
<1>6. PutMetadata => /\ disk'.secure = disk.secure /\ disk'.file = disk.file
                     /\ disk'.reachable = disk.reachable /\ disk'.meta = Want.meta
  BY <1>0, <1>3 DEF Disks
<1> QED
  BY <1>2, <1>3, <1>4, <1>5, <1>6

LEMMA IssuedStep ==
  ASSUME SwitchTypeOK, ServedIsPending, CapturesFile, OnlyIssued, SwitchSteps
  PROVE  OnlyIssued'
<1>1. \A s \in Sessions \ oauth'.begun : oauth'.newest[s] = 0
  BY FreshStays
<1>2. \A c \in AnyCred : Issued(c) => Issued(c)'
  BY IssuedStays
<1>3. Issued(NoCred)'
  BY DEF Issued
<1>4. /\ disk.file \in AnyCred /\ disk.secure \in AnyCred /\ Raw.auth \in {disk.file, disk.secure}
      /\ switch.raw.auth \in AnyCred /\ NoCred \in AnyCred
  BY StoreReads, SwitchReads, CredsAre
<1>5. Issued(disk.file) /\ Issued(disk.secure)
  BY DEF OnlyIssued
<1>6. (Issued(disk.file) /\ Issued(disk.secure))'
  <2>1. CASE UNCHANGED disk
    <3> USE DEF Issued
    <3> QED
      BY <1>2, <1>4, <1>5, <2>1
  <2>2. CASE Refresh
    <3>1. PICK c, next \in Creds :
            /\ c = Active.auth /\ c.gen = oauth.newest[c.sess]
            /\ next.sess = c.sess /\ next.gen = c.gen + 1
            /\ oauth'.begun = oauth.begun /\ oauth'.newest[c.sess] = next.gen
            /\ disk'.file \in {next, disk.file} /\ disk'.secure \in {disk.secure, next}
      BY <2>2, RefreshIs
    <3>2. c.sess \in oauth.begun
      BY <1>4, <1>5, <3>1, StoreReads, CredAssumption DEF Issued
    <3>3. next.gen \in Nat
      BY GenAssumption DEF Creds
    <3>4. Issued(next)'
      BY <3>1, <3>2, <3>3 DEF Issued
    <3> HIDE DEF Issued
    <3>5. disk'.file = next \/ disk'.file = disk.file
      BY <3>1
    <3> QED
      BY <1>2, <1>4, <1>5, <3>1, <3>4 DEF Issued
  <2>3. CASE KeyringFlip
    <3>1. disk'.file = disk.file /\ disk'.secure = disk.secure
      BY <2>3 DEF KeyringFlip, SwitchTypeOK, Disks
    <3> QED
      BY <1>2, <1>4, <1>5, <3>1 DEF Issued
  <2>4. ASSUME NEW s \in Sessions, NEW i \in BOOLEAN, NativeLogin(s, i)
        PROVE  (Issued(disk.file) /\ Issued(disk.secure))'
    <3>1. PICK c \in Creds :
            /\ c.sess = s /\ c.gen = 0 /\ s \notin oauth.begun
            /\ oauth' = [oauth EXCEPT !.begun = @ \cup {s}]
            /\ disk'.file \in {disk.file, c, NoCred} /\ disk'.secure \in {disk.secure, c}
      BY <2>4, LoginIs
    <3>2. Issued(c)'
      BY <3>1, LoginIssued
    <3> QED
      BY <1>2, <1>3, <1>4, <1>5, <3>1, <3>2 DEF Issued
  <2>5. CASE ServingStep /\ (PutCredential \/ PutFallback \/ PutMetadata)
    <3>1. Issued(Want.auth) /\ Want.auth \in AnyCred
      <4>1. Op \in ops
        BY <2>5 DEF PutCredential, PutFallback, PutMetadata, At, ServedIsPending, Serving,
          Writing
      <4> QED
        BY <4>1, SwitchReads DEF OnlyIssued, SnapshotsIssued, Want
    <3>2. disk'.file \in {disk.file, Want.auth, NoCred} /\ disk'.secure \in {disk.secure, Want.auth}
      BY <2>5, PutsAre
    <3>3. PICK w \in AnyCred : w = Want.auth
      BY <3>1
    <3> QED
      BY <1>2, <1>3, <1>4, <1>5, <3>1, <3>2, <3>3 DEF Issued
  <2> QED
    BY <2>1, <2>2, <2>3, <2>4, <2>5, DiskMoves DEF ClientStep
<1>7. Issued(baseline.snap.auth)'
  <2>1. baseline.snap.auth \in AnyCred /\ Issued(baseline.snap.auth) /\ baseline \in Baselines
        /\ Issued(Active.auth) /\ Active \in AnySnapshot /\ Active.auth \in AnyCred
    BY <1>4, <1>5, StoreReads DEF OnlyIssued, SwitchTypeOK, Baselines, AnySnapshot
  <2>2. CASE baseline' = baseline
    BY <1>2, <2>1, <2>2 DEF Issued
  <2>3. CASE BeginStep
    <3>1. baseline'.snap \in {baseline.snap, Active}
      BY <2>1, <2>3, BeginIs DEF Baselines
    <3>2. baseline'.snap.auth \in {baseline.snap.auth, Active.auth}
      BY <3>1
    <3>3. PICK c \in AnyCred : c = Active.auth /\ Issued(c)
      BY <2>1
    <3> QED
      BY <1>2, <2>1, <3>2, <3>3 DEF Issued
  <2>4. CASE OpenJournal /\ baseline' # baseline
    <3>1. baseline'.snap = KeptLogin /\ At("open")
      BY <2>4, OpenJournalIs
    <3>2. Issued(KeptLogin.auth) /\ KeptLogin.auth \in AnyCred
      BY <2>1, <3>1, SwitchReads DEF KeptLogin, OnlyIssued, Capturing, At
    <3>3. PICK c \in AnyCred : c = KeptLogin.auth /\ Issued(c)
      BY <3>2
    <3> QED
      BY <1>2, <3>1, <3>3 DEF Issued
  <2>5. CASE baseline' = NoBaseline
    BY <1>3, <2>5 DEF NoBaseline, NoSnapshot, Issued
  <2>6. \/ baseline' = baseline \/ baseline' = NoBaseline
        \/ BeginStep \/ OpenJournal
    BY StepsAre, ClientIs, VaultStepIs, CapturesIs, ServingIs, EndingIs, StartingIs
    DEF dbVars, OthersStay
  <2> QED
    BY <2>2, <2>3, <2>4, <2>5, <2>6
<1>8. \A a \in Accounts : Issued(vault[a].cred)'
  <2>0. \A a \in Accounts : Issued(vault[a].cred) /\ vault[a].cred \in AnyCred
    BY VaultReads DEF OnlyIssued
  <2>1. CASE vault' = vault
    BY <1>2, <2>0, <2>1 DEF Issued
  <2>2. ASSUME NEW a \in Accounts, Forgets(a) PROVE \A b \in Accounts : Issued(vault[b].cred)'
    BY <1>2, <1>3, <2>0, <2>2, ForgetsIs DEF Issued
  <2>3. ASSUME NEW a \in Accounts, NEW c \in AnyCred, Saves(a, c)
        PROVE  \A b \in Accounts : Issued(vault[b].cred)'
    <3>1. Issued(c)'
      <4>1. CASE switch.pc \in Capturing /\ c = switch.raw.auth
        BY <1>2, <4>1 DEF OnlyIssued
      <4>2. CASE \E s \in Sessions : /\ c = [sess |-> s, gen |-> 0]
                                     /\ oauth' = [oauth EXCEPT !.begun = @ \cup {s}]
        <5>1. PICK s \in Sessions : /\ c = [sess |-> s, gen |-> 0]
                                    /\ oauth' = [oauth EXCEPT !.begun = @ \cup {s}]
          BY <4>2
        <5>2. oauth'.begun = oauth.begun \cup {s} /\ oauth'.newest = oauth.newest
              /\ oauth'.newest[s] \in Nat
          BY <5>1, GenAssumption DEF SwitchTypeOK
        <5> QED
          BY <5>1, <5>2 DEF Issued
      <4> QED
        BY <2>3, <4>1, <4>2 DEF Saves
    <3> QED
      BY <1>2, <2>0, <2>3, <3>1, SavesIs DEF Issued
  <2> QED
    BY <2>1, <2>2, <2>3, VaultMoves
<1>9. \A op \in ops' : SnapshotsIssued(op)'
  <2>0. \A op \in ops : op.before.auth \in AnyCred /\ op.after.auth \in AnyCred
    BY DEF SwitchTypeOK, Journals, AnySnapshot
  <2>1. \A op \in ops : SnapshotsIssued(op)'
    BY <1>2, <2>0 DEF OnlyIssued, SnapshotsIssued
  <2>2. ASSUME NEW new, new = NewOp, OpenJournal, switch.to # "inspect"
        PROVE  SnapshotsIssued(new)'
    <3>1. new.before.auth = switch.raw.auth /\ At("open") /\ new.after = Wanted(switch.to, KeptLogin)
          /\ KeptLogin \in AnySnapshot
      BY <2>2, NewOpIs, OpenJournalIs
    <3>2. Issued(switch.raw.auth)
      BY <3>1 DEF OnlyIssued, Capturing, At
    <3>3. Issued(KeptLogin.auth)
      BY <3>2, SwitchReads DEF KeptLogin, OnlyIssued
    <3>4. new.after = KeptLogin \/ \E a \in Accounts : new.after = SnapshotOf(a)
      BY <3>1, WantedIs
    <3>5. Issued(new.after.auth) /\ new.after.auth \in AnyCred
      BY <3>1, <3>3, <3>4, VaultReads DEF AnySnapshot, OnlyIssued
    <3> QED
      BY <1>2, <1>4, <3>1, <3>2, <3>5 DEF SnapshotsIssued
  <2>3. PICK new : new = NewOp
    OBVIOUS
  <2> QED
    BY <2>1, <2>2, <2>3, PlacesAre DEF Opened
<1>10. (switch.pc \in Capturing => Issued(switch.raw.auth))'
  <2>1. CASE switch' = switch
    BY <1>2, <1>4, <2>1 DEF OnlyIssued, Issued
  <2>2. CASE BeginStep
    <3>1. switch'.pc \in Capturing => switch'.raw.auth = Raw.auth
      BY <2>2, BeginIs DEF Capturing
    <3>2. Raw.auth \in AnyCred /\ Issued(Raw.auth)
      BY <1>4, <1>5
    <3>3. PICK c \in AnyCred : c = Raw.auth /\ Issued(c)
      BY <3>2
    <3> QED
      BY <1>2, <3>1, <3>3 DEF Issued
  <2>3. CASE CaptureStep
    <3>1. switch.pc \in Capturing /\ switch'.raw = switch.raw
      BY <2>3, CapturesIs DEF Capturing, At
    <3> QED
      BY <1>2, <1>4, <3>1 DEF OnlyIssued, Issued
  <2>4. CASE switch'.pc \notin Capturing
    BY <2>4
  <2>5. ClientStep \/ VaultStep => switch' = switch
    BY ClientIs, VaultStepIs
  <2> QED
    BY <2>1, <2>2, <2>3, <2>4, <2>5, PlacesAre
<1> QED
  BY <1>1, <1>6, <1>7, <1>8, <1>9, <1>10 DEF OnlyIssued


LEMMA RawFallback ==
  SwitchTypeOK => /\ Raw.fallback = IF backend \in {"codex_keyring", "codex_auto"}
                                    THEN disk.file ELSE NoCred
                  /\ Raw.fallback \in AnyCred /\ Raw.reachable \in BOOLEAN
BY CredsAre DEF Raw, RawState, SwitchTypeOK, Disks

LEMMA ObservedIs ==
  ASSUME SwitchTypeOK
  PROVE  /\ switch.back = FALSE => Observed = switch.raw
         /\ switch.back = TRUE =>
              /\ Observed.source = Op.prepared.source
              /\ Observed.fallback = switch.raw.fallback
              /\ Op.prepared.source = switch.raw.source => Observed = switch.raw
              /\ Op.prepared.source # switch.raw.source => Observed.auth = NoCred
<1>1. switch.raw \in Raws
  BY SwitchReads
<1> QED
  BY <1>1 DEF Observed, ForSource, Raws

\* What a check lets through was recorded, and the metadata is one of the two.
LEMMA ApplyStarts ==
  ASSUME SwitchTypeOK, ApplyMayResume(backend, Raw, Op.before, Op.after, Op.prepared)
  PROVE  /\ Recorded(Raw.auth) /\ Raw.meta \in {Op.before.meta, Op.after.meta}
         /\ ClearsFallback(backend, Raw) => Recorded(Raw.fallback)
<1>1. CASE /\ KnownAuth(Raw, Op.before, Op.after) /\ KnownMeta(Raw, Op.before, Op.after)
           /\ Op.prepared = Projected(Raw.source, Raw.reachable, Op.before,
                             OriginalFallback(backend, Raw.source, Op.before, Raw))
  <2>1. Raw.source # "file" => Op.prepared.fallback = Raw.fallback
    BY <1>1 DEF Projected, OriginalFallback
  <2> QED
    BY <1>1, <2>1 DEF KnownAuth, KnownMeta, ClearsFallback, Recorded
<1>2. CASE /\ KnownMeta(Raw, Op.before, Op.after) /\ Raw.source = "file"
           /\ Op.after.auth = NoCred /\ backend = "codex_auto"
           /\ Op.prepared = Projected("keyring", Raw.reachable, Op.before, Raw.fallback)
  <2>1. Op.prepared.fallback = Raw.fallback
    BY <1>2 DEF Projected
  <2>2. Raw.auth = Raw.fallback
    BY <1>2, StoreReads, RawFallback
  <2> QED
    BY <1>2, <2>1, <2>2 DEF KnownMeta, ClearsFallback, Recorded
<1> QED
  BY <1>1, <1>2 DEF ApplyMayResume

LEMMA RollbackStarts ==
  ASSUME SwitchTypeOK,
         RollbackMayStart(backend, Raw, Op.before, Op.after, Op.prepared, Op.prepared.source)
  PROVE  /\ Op.prepared.source = Raw.source => Raw.auth \in {Op.before.auth, Op.after.auth}
         /\ Raw.meta \in {Op.before.meta, Op.after.meta}
         /\ Op.prepared.source # "file" => Recorded(Raw.fallback)
<1> DEFINE source == Op.prepared.source
           deleted == SecureDeleted(backend, Raw, Op.after, source)
           matches == Op.prepared = Projected(source, Raw.reachable, Op.before,
                                      OriginalFallback(backend, source, Op.before, Raw))
           known == KnownAuth(Raw, Op.before, Op.after)
<1>1. /\ source = Raw.source \/ deleted
      /\ KnownMeta(Raw, Op.before, Op.after)
      /\ known \/ (deleted /\ matches)
      /\ matches \/ (known /\ source # "file" /\ Raw.fallback = NoCred)
  BY DEF RollbackMayStart
<1>2. deleted => source # Raw.source
  BY DEF SecureDeleted
<1>3. matches /\ source # "file" => Op.prepared.fallback = Raw.fallback
  BY DEF Projected, OriginalFallback
<1> HIDE DEF matches, deleted
<1> QED
  BY <1>1, <1>2, <1>3 DEF KnownAuth, KnownMeta, Recorded

LEMMA RecordedStep ==
  ASSUME SwitchTypeOK, ServedIsPending, WritesFromRecorded, SwitchSteps
  PROVE  WritesFromRecorded'
<1>0. Op = switch.op /\ Op' = switch'.op /\ backend' = backend
  BY PlacesAre DEF Op
<1>1. CASE ClientStep \/ VaultStep
  <2>1. switch' = switch
    BY <1>1, ClientIs, VaultStepIs
  <2> QED
    BY <1>0, <2>1 DEF WritesFromRecorded, Recorded, Observed, At
<1>2. CASE switch'.pc \notin {"auth", "fallback"}
  BY <1>2 DEF WritesFromRecorded, At
<1>3. CASE ServingStep
  <2>1. CASE StartApply
    <3>1. /\ switch'.op = Op /\ switch'.raw = Raw /\ switch.pc = "check"
          /\ switch'.back = switch.back
          /\ switch'.pc = IF ApplyCompleted(Raw, Op.after) THEN "applied" ELSE "auth"
      BY <2>1, ServedMoves DEF StartApply, At
    <3>2. switch'.back = FALSE
      BY <3>1, SwitchReads DEF ServedIsPending, Writing
    <3>3. Observed' = Raw
      BY <3>1, <3>2 DEF Observed, ForSource
    <3>4. switch'.pc # "applied" =>
            Recorded(Raw.auth) /\ (ClearsFallback(backend, Raw) => Recorded(Raw.fallback))
      BY <2>1, <3>1, ApplyStarts DEF StartApply
    <3> QED
      BY <1>0, <1>2, <3>1, <3>3, <3>4 DEF WritesFromRecorded, Recorded, At
  <2>2. CASE StartRollback
    <3>1. /\ switch'.op = Op /\ switch'.raw = Raw /\ switch'.back = TRUE
          /\ switch'.pc = IF RollbackDone(Raw, Op.before, Op.prepared.source)
                          THEN "undone" ELSE "auth"
      BY <2>2, ServedMoves
    <3>2. Observed' = ForSource(Raw, Op.prepared.source) /\ Raw \in Raws
      BY <1>0, <3>1, StoreReads DEF Observed
    <3>3. /\ Observed'.source = Op.prepared.source /\ Observed'.fallback = Raw.fallback
          /\ Observed'.auth = IF Op.prepared.source = Raw.source THEN Raw.auth ELSE NoCred
      BY <3>2 DEF ForSource, Raws
    <3>4. /\ Op.prepared.source = Raw.source => Raw.auth \in {Op.before.auth, Op.after.auth}
          /\ Op.prepared.source # "file" => Recorded(Raw.fallback)
      BY <2>2, RollbackStarts DEF StartRollback
    <3> QED
      BY <1>0, <3>1, <3>3, <3>4 DEF WritesFromRecorded, Recorded, ClearsFallback, At
  <2>3. CASE PutCredential
    <3>1. switch'.op = Op /\ switch'.raw = switch.raw /\ switch'.back = switch.back
          /\ switch.pc = "auth"
      BY <2>3, ServedMoves
    <3>2. Observed' = Observed
      BY <1>0, <3>1 DEF Observed
    <3> QED
      BY <1>0, <3>1, <3>2 DEF WritesFromRecorded, Recorded, At
  <2>4. CASE switch'.pc \in {"auth", "fallback"} /\ ~StartApply /\ ~StartRollback /\ ~PutCredential
    BY <1>3, <2>4, ServingIs, ServedMoves, RefuseIs, NextPendingIs, IdleIs DEF Served, Refused
  <2> QED
    BY <1>2, <2>1, <2>2, <2>3, <2>4
<1>4. CASE BeginStep \/ CaptureStep \/ OpenJournal \/ EndingStep \/ StartingStep
  <2>1. switch'.pc \notin {"auth", "fallback"}
    BY <1>4, BeginIs, CapturesIs, OpenJournalIs, OpenedIs, EndingIs, StartingIs, NextPendingIs,
      IdleIs
  <2> QED
    BY <1>2, <2>1
<1> QED
  BY <1>1, <1>3, <1>4, StepsAre


\* A proper snapshot is filed under the account whose tokens it holds.
LEMMA FiledUnder ==
  ASSUME NEW b, NEW snap \in AnySnapshot, b = backend, Proper(snap),
         Identity(b, snap) # NoAccount
  PROVE  AccountIn(snap.auth) = Identity(b, snap)
BY DEF Proper, OneLogin, Identity

LEMMA OwnLoginsStep ==
  ASSUME SwitchTypeOK, CapturesFile, WholeParts, SwitchSteps
  PROVE  VaultHoldsOwnLogins'
<1>0. \A a \in Accounts : vault[a].cred # NoCred => AccountIn(vault[a].cred) = a
  BY DEF WholeParts, VaultHoldsOwnLogins, IsSaved
<1>1. CASE vault' = vault
  BY <1>0, <1>1 DEF VaultHoldsOwnLogins, IsSaved
<1>2. ASSUME NEW a \in Accounts, Forgets(a) PROVE VaultHoldsOwnLogins'
  BY <1>0, <1>2, ForgetsIs DEF VaultHoldsOwnLogins, IsSaved
<1>3. ASSUME NEW a \in Accounts, NEW c \in AnyCred, Saves(a, c) PROVE VaultHoldsOwnLogins'
  <2>1. AccountIn(c) = a
    <3>1. CASE /\ switch.pc \in Capturing /\ c = switch.raw.auth
               /\ a = Identity(backend, Snapshot(switch.raw))
      BY <3>1, FiledUnder, SwitchReads, AccountsAssumption DEF WholeParts
    <3>2. CASE \E s \in Sessions : c = [sess |-> s, gen |-> 0] /\ a = AccountOf[s]
      BY <3>2, CredsAre, GenAssumption
    <3> QED
      BY <1>3, <3>1, <3>2 DEF Saves
  <2> QED
    BY <1>0, <1>3, <2>1, SavesIs DEF VaultHoldsOwnLogins, IsSaved
<1> QED
  BY <1>1, <1>2, <1>3, VaultMoves

LEMMA RestingIsWhole == WholeParts /\ ~Mixed => Proper(Active)
BY DEF Mixed, Proper

LEMMA CapturedIsWhole ==
  ASSUME SwitchTypeOK, WholeParts, SwitchSteps
  PROVE  (switch.pc \in Capturing => Proper(Snapshot(switch.raw)))'
<1>0. backend' = backend
  BY PlacesAre
<1>1. CASE ClientStep \/ VaultStep
  BY <1>0, <1>1, ClientIs, VaultStepIs DEF WholeParts, Proper
<1>2. CASE BeginStep
  <2>1. Proper(Active)
    BY <1>2, BeginIs, RestingIsWhole DEF WholeParts, MixedIsUnderway
  <2>2. switch'.pc \in Capturing => switch'.raw = Raw
    BY <1>2, BeginIs DEF Capturing
  <2> QED
    BY <1>0, <2>1, <2>2 DEF Active, Proper
<1>3. CASE CaptureStep
  <2>1. switch.pc \in Capturing /\ switch'.raw = switch.raw
    BY <1>3, CapturesIs DEF Capturing, At
  <2> QED
    BY <1>0, <2>1 DEF WholeParts, Proper
<1>4. CASE switch'.pc \notin Capturing
  BY <1>4
<1> QED
  BY <1>1, <1>2, <1>3, <1>4, PlacesAre

\* The row that is opened, and the baseline it keeps.
LEMMA OpenedIsWhole ==
  ASSUME SwitchTypeOK, WholeParts, At("open")
  PROVE  Proper(KeptLogin) /\ Proper(NewOp.before) /\ Proper(NewOp.after)
<1>1. Proper(Snapshot(switch.raw)) /\ Proper(baseline.snap)
  BY DEF WholeParts, Capturing, At
<1>2. Proper(KeptLogin) /\ KeptLogin \in AnySnapshot
  BY <1>1, NewOpIs DEF KeptLogin
<1>3. \A a \in Accounts : Proper(SnapshotOf(a))
  <2> SUFFICES ASSUME NEW a \in Accounts, IsClaude(backend), vault[a].cred # NoCred
               PROVE  a = AccountIn(vault[a].cred)
    BY VaultReads DEF Proper, OneLogin
  <2> QED
    BY DEF WholeParts, VaultHoldsOwnLogins, IsSaved
<1>4. Proper(Wanted(switch.to, KeptLogin))
  BY <1>2, <1>3, WantedIs
<1> QED
  BY <1>1, <1>2, <1>4, NewOpIs

LEMMA KeptIsWhole ==
  ASSUME SwitchTypeOK, WholeParts, SwitchSteps
  PROVE  /\ Proper(baseline.snap)'
         /\ (\A op \in ops : Proper(op.before) /\ Proper(op.after))'
<1>0. backend' = backend
  BY PlacesAre
<1>1. \A snap : Proper(snap) => Proper(snap)'
  BY <1>0 DEF Proper
<1>2. Proper(baseline.snap)'
  <2>1. CASE baseline' = baseline
    BY <1>0, <2>1 DEF WholeParts, Proper
  <2>2. CASE BeginStep
    <3>1. Proper(Active) /\ Proper(baseline.snap)
      BY <2>2, BeginIs, RestingIsWhole DEF WholeParts, MixedIsUnderway
    <3>2. baseline'.snap \in {baseline.snap, Active}
      BY <2>2, BeginIs DEF SwitchTypeOK, Baselines
    <3> QED
      BY <1>0, <3>1, <3>2 DEF Proper
  <2>3. CASE OpenJournal /\ baseline' # baseline
    <3>1. baseline'.snap = KeptLogin /\ At("open")
      BY <2>3, OpenJournalIs
    <3> QED
      BY <1>0, <3>1, OpenedIsWhole DEF Proper
  <2>4. CASE baseline' = NoBaseline
    BY <2>4 DEF NoBaseline, NoSnapshot, Proper, OneLogin
  <2>5. \/ baseline' = baseline \/ baseline' = NoBaseline
        \/ BeginStep \/ OpenJournal
    BY StepsAre, ClientIs, VaultStepIs, CapturesIs, ServingIs, EndingIs, StartingIs
    DEF dbVars, OthersStay
  <2> QED
    BY <2>1, <2>2, <2>3, <2>4, <2>5
<1>3. \A op \in ops' : Proper(op.before) /\ Proper(op.after)
  BY PlacesAre, OpenJournalIs, OpenedIsWhole DEF WholeParts, Opened
<1> QED
  BY <1>0, <1>2, <1>3 DEF Proper


LEMMA UnderwayIs ==
  ASSUME ServedIsPending
  PROVE  /\ Underway \subseteq ops
         /\ ~Recovering => Underway \subseteq {Op}
         /\ At("recover") => Underway = switch.queue
         /\ switch.pc \in Serving \ {"undone", "finish"} => Op \in Underway
         /\ Recovering /\ ~At("finish") => Underway = switch.queue
BY DEF Underway, ServedIsPending, Recovering, At, Serving, Writing

LEMMA StoreStays ==
  ASSUME UNCHANGED <<backend, disk>>
  PROVE  /\ Raw' = Raw /\ Active' = Active /\ (Mixed' <=> Mixed)
         /\ \A op : HalfWay(op)' <=> HalfWay(op)
         /\ \A op : Written(op)' <=> Written(op)
BY DEF Raw, Active, Mixed, OneLogin, HalfWay, Written, PutLogin, Place

\* Where Claude's login is, before a step and after it.
LEMMA ClaudeStore ==
  ASSUME SwitchTypeOK, IsClaude(backend)
  PROVE  /\ Active.meta = disk.meta
         /\ \A source \in {"file", "keyring"} : FitsLayout(source) =>
              /\ Active.auth = IF source = "file" THEN disk.file ELSE disk.secure
              /\ source = Raw.source
<1>1. backend \in {"claude_file", "claude_keychain"}
  BY DEF IsClaude
<1> QED
  BY <1>1, StoreReads DEF FitsLayout, FileOnly, NeedsKeyring, SourceOf

LEMMA ClientMixes ==
  ASSUME SwitchTypeOK, SwitchTypeOK', ServedIsPending, WholeParts, ClientStep
  PROVE  MixedIsUnderway' /\ ClaudeIsWritten'
<1>0. /\ switch' = switch /\ backend' = backend
      /\ MixedIsUnderway /\ ClaudeIsWritten
      /\ Op' = Op /\ Want' = Want /\ Underway' = Underway
  BY ClientIs DEF WholeParts, Op, Want, Underway, Recovering, At
<1>1. CASE ~IsClaude(backend)
  BY <1>0, <1>1 DEF MixedIsUnderway, ClaudeIsWritten, Mixed
<1>2. CASE IsClaude(backend) /\ ~KeyringFlip
  <2>1. ~Guarded
    BY <1>2 DEF ClientStep, Refresh, NativeLogin
  <2>2. switch.pc \notin {"auth", "fallback", "meta", "verify"}
    BY <1>2, <2>1 DEF Guarded
  <2>3. ClaudeIsWritten'
    BY <1>0, <2>2 DEF ClaudeIsWritten, At
  <2>4. CASE Refresh
    <3>1. PICK c, next \in Creds :
            /\ c = Active.auth /\ next.sess = c.sess
            /\ disk'.meta = disk.meta /\ disk'.reachable = disk.reachable
            /\ disk'.file = IF Raw.source = "file" THEN next ELSE disk.file
            /\ disk'.secure = IF Raw.source = "file" THEN disk.secure ELSE next
      BY <2>4, RefreshIs
    <3>2. c # NoCred /\ next # NoCred /\ AccountIn(next) = AccountIn(c)
      BY <3>1, CredAssumption DEF AccountIn
    <3>3. /\ c = IF Raw.source = "file" THEN disk.file ELSE disk.secure
          /\ Raw.source \in {"file", "keyring"} /\ FitsLayout(Raw.source)
      BY <3>1, StoreReads, RawFits DEF Raws
    <3>4. Active.meta = disk.meta
      BY <1>2, ClaudeStore
    <3>5. Active'.meta = disk'.meta /\ Active'.auth = next
      <4>1. /\ RawState(backend, disk').source = SourceOf(backend, disk')
            /\ RawState(backend, disk').auth = IF SourceOf(backend, disk') = "file"
                                               THEN disk'.file ELSE disk'.secure
            /\ RawState(backend, disk').meta = disk'.meta /\ RawState(backend, disk') \in Raws
        BY <1>0, <1>2, RawsOfDisks DEF SwitchTypeOK
      <4>2. SourceOf(backend, disk') = Raw.source
        BY <1>2, StoreReads DEF SourceOf, IsClaude, FileOnly
      <4> QED
        BY <1>0, <3>1, <4>1, <4>2, SnapshotsOfRaws DEF Active, Raw
    <3>6. Mixed' => Mixed
      BY <1>0, <3>1, <3>2, <3>4, <3>5 DEF Mixed, OneLogin
    <3>7. \A op : HalfWay(op) => HalfWay(op)'
      <4> TAKE op
      <4>1. \A d : SameSession(Place(op.prepared.source), d) =>
                   SameSession(Place(op.prepared.source), d)'
        BY <3>1, <3>2, <3>3 DEF SameSession, Place
      <4> QED
        BY <1>0, <3>1, <4>1 DEF HalfWay, Written, PutLogin
    <3> QED
      BY <1>0, <2>3, <3>6, <3>7 DEF MixedIsUnderway, At
  <2>5. ASSUME NEW s \in Sessions, NEW i \in BOOLEAN, NativeLogin(s, i) PROVE ~Mixed'
    <3>1. PICK c \in Creds : AccountIn(c) = AccountOf[s] /\ disk'.meta = AccountOf[s] /\ Raw'.auth = c
      BY <1>2, <2>5, LoginIs
    <3>2. Raw'.meta = disk'.meta /\ Raw' \in Raws
      BY <1>0, <1>2, RawsOfDisks DEF SwitchTypeOK, Raw
    <3>3. Active'.auth = c /\ Active'.meta = AccountOf[s]
      BY <1>0, <3>1, <3>2, SnapshotsOfRaws DEF Active
    <3> QED
      BY <3>1, <3>3 DEF Mixed, OneLogin
  <2> QED
    BY <1>2, <2>3, <2>4, <2>5 DEF ClientStep, MixedIsUnderway
<1>3. CASE IsClaude(backend) /\ KeyringFlip
  BY <1>3 DEF KeyringFlip, IsClaude
<1> QED
  BY <1>1, <1>2, <1>3


\* Steps that leave the store alone.
LEMMA QuietMixes ==
  ASSUME SwitchTypeOK, ServedIsPending, WholeParts, ~GivenUp,
         VaultStep \/ BeginStep \/ CaptureStep \/ OpenJournal \/ EndingStep \/ StartingStep
  PROVE  MixedIsUnderway' /\ ClaudeIsWritten'
<1>0. /\ MixedIsUnderway /\ Op' = switch'.op
      /\ switch.pc \notin {"recover", "check", "config", "auth", "fallback", "meta"} => ~Mixed
  BY DEF WholeParts, MixedIsUnderway, Op
<1>1. UNCHANGED <<backend, disk>>
  BY VaultStepIs, BeginIs, CapturesIs, OpenJournalIs, EndingIs, StartingIs DEF storeVars
<1>2. (Mixed' <=> Mixed) /\ \A op : HalfWay(op)' <=> HalfWay(op)
  BY <1>1, StoreStays
<1>3. ClaudeIsWritten'
  <2>1. switch'.pc \notin Writing
    BY VaultStepIs, BeginIs, CapturesIs, OpenJournalIs, OpenedIs, EndingIs, StartingIs, IdleIs,
      NextPendingIs DEF Writing, At
  <2> QED
    BY <2>1 DEF ClaudeIsWritten, Writing, At
<1>4. CASE VaultStep \/ BeginStep \/ CaptureStep \/ OpenJournal
  <2>1. switch.pc \in Capturing \cup {"idle", "inspect"}
    BY <1>4, VaultStepIs, BeginIs, CapturesIs, OpenJournalIs DEF Capturing, At
  <2> QED
    BY <1>0, <1>2, <1>3, <2>1 DEF MixedIsUnderway, Capturing
<1>5. CASE EndingStep
  <2>1. CASE ~At("config")
    <3>1. switch.pc \in {"applied", "undone", "commit", "finish"}
      BY <1>5, <2>1, EndingIs DEF At
    <3> QED
      BY <1>0, <1>2, <1>3, <3>1 DEF MixedIsUnderway
  <2>2. CASE At("config") /\ Mixed
    <3>1. PICK op \in Underway : HalfWay(op) /\ Op.to = "release"
      BY <1>0, <2>2 DEF MixedIsUnderway
    <3>2. switch'.pc = "check" /\ switch'.op = Op /\ switch'.queue = switch.queue
      BY <1>5, <2>2, <3>1, EndingIs DEF At
    <3>3. op \in Underway'
      BY <1>0, <2>2, <3>1, <3>2 DEF Underway, Recovering, At, Serving
    <3> QED
      BY <1>2, <1>3, <3>1, <3>2, <3>3 DEF MixedIsUnderway, At
  <2> QED
    BY <1>2, <1>3, <2>1, <2>2 DEF MixedIsUnderway
<1>6. CASE StartingStep /\ Mixed
  <2>0. PICK op \in Underway : HalfWay(op) /\ op \in ops
    BY <1>0, <1>6, UnderwayIs DEF MixedIsUnderway
  <2>1. CASE switch'.pc = "recover" /\ switch'.queue = ops
    <3>1. op \in Underway'
      BY <2>0, <2>1 DEF Underway, Recovering, At
    <3> QED
      BY <1>2, <1>3, <2>0, <2>1, <3>1 DEF MixedIsUnderway, At
  <2>2. CASE At("recover") /\ switch'.pc \in {"config", "check"}
    <3>1. switch'.queue = switch.queue /\ (switch'.pc = "config" => switch'.op.to = "release")
      BY <1>6, <2>2, StartingIs, NextPendingIs DEF At
    <3>2. op \in switch.queue
      BY <2>0, <2>2, UnderwayIs
    <3>3. op \in Underway'
      BY <2>2, <3>1, <3>2 DEF Underway, Recovering, At
    <3> QED
      BY <1>0, <1>2, <1>3, <2>0, <2>2, <3>1, <3>3 DEF MixedIsUnderway, At
  <2>3. ASSUME At("recover"), left' = left,
               NEW next \in switch.queue, switch' = NextPending(next)
        PROVE  MixedIsUnderway'
    <3>1. switch'.pc = "recover" /\ switch'.queue = switch.queue \ {next}
      BY <2>3, NextPendingIs
    <3>2. ~Written(next)
      BY <2>3, <3>1 DEF GivenUp, At
    <3>3. op \in switch.queue \ {next}
      BY <2>0, <2>3, <3>2, UnderwayIs DEF HalfWay
    <3>4. op \in Underway'
      BY <3>1, <3>3 DEF Underway, Recovering, At
    <3> QED
      BY <1>2, <2>0, <3>1, <3>4 DEF MixedIsUnderway, At
  <2>4. ~(At("recover") /\ ~Recovering) /\ ~At("idle")
    BY <1>0, <1>6, <2>0, UnderwayIs DEF Recovering, At
  <2> QED
    BY <1>3, <1>6, <2>1, <2>2, <2>3, <2>4, StartingIs
<1> QED
  BY <1>2, <1>3, <1>4, <1>5, <1>6 DEF MixedIsUnderway


LEMMA ClaudeAfter ==
  ASSUME SwitchTypeOK, IsClaude(backend), backend' = backend, disk' \in Disks
  PROVE  /\ Active'.meta = disk'.meta /\ Active' \in AnySnapshot
         /\ Active'.auth = IF Raw.source = "file" THEN disk'.file ELSE disk'.secure
<1>1. /\ RawState(backend, disk').source = SourceOf(backend, disk')
      /\ RawState(backend, disk').auth = IF SourceOf(backend, disk') = "file"
                                         THEN disk'.file ELSE disk'.secure
      /\ RawState(backend, disk').meta = disk'.meta /\ RawState(backend, disk') \in Raws
  BY RawsOfDisks
<1>2. SourceOf(backend, disk') = Raw.source
  BY StoreReads DEF SourceOf, IsClaude, FileOnly
<1> QED
  BY <1>1, <1>2, SnapshotsOfRaws DEF Active, Raw

\* Where a write of Claude's goes is where the login is.
LEMMA ClaudeWritesThere ==
  ASSUME SwitchTypeOK, ServedIsPending, SourcesFit, IsClaude(backend), At("auth")
  PROVE  Observed.source = Raw.source /\ Op.prepared.source = Raw.source
<1>1. Op \in ops /\ switch.raw \in Raws /\ Op.prepared \in Raws
  BY SwitchReads DEF ServedIsPending, Serving, Writing, At
<1>2. FitsLayout(switch.raw.source) /\ FitsLayout(Op.prepared.source)
  BY <1>1 DEF SourcesFit, Writing, At
<1>3. switch.raw.source \in {"file", "keyring"} /\ Op.prepared.source \in {"file", "keyring"}
  BY <1>1 DEF Raws
<1>4. switch.raw.source = Raw.source /\ Op.prepared.source = Raw.source
  BY <1>2, <1>3, ClaudeStore
<1> QED
  BY <1>4, ObservedIs, SwitchReads

LEMMA PutMixes ==
  ASSUME SwitchTypeOK, ServedIsPending, SourcesFit, WholeParts, PutCredential,
         IsClaude(backend), backend' = backend, disk' \in Disks
  PROVE  Active'.auth = Want.auth /\ (Mixed' => HalfWay(Op)')
<1>0. At("auth") /\ Raw = switch.raw /\ disk'.meta = disk.meta /\ Op \in ops /\ Op' = Op
  BY PutsAre, ServedMoves, SwitchReads DEF PutCredential, ServedIsPending, Serving, Writing, At
<1>1. Observed.source = Raw.source /\ Op.prepared.source = Raw.source
  BY <1>0, ClaudeWritesThere
<1>2. (IF Raw.source = "file" THEN disk'.file ELSE disk'.secure) = Want.auth
  BY <1>1, PutsAre
<1>3. Active'.auth = Want.auth /\ Active'.meta = disk.meta
  BY <1>0, <1>2, ClaudeAfter
<1>4. disk.meta \in {Op.before.meta, Op.after.meta}
  BY <1>0, StoreReads DEF WholeParts, ClaudeIsWritten
<1>5. OneLogin(Op.before) /\ OneLogin(Op.after)
  BY <1>0 DEF WholeParts, Proper
<1>6. ASSUME Mixed' PROVE HalfWay(Op)'
  <2>1. Want.auth # NoCred /\ disk.meta # AccountIn(Want.auth)
    BY <1>3, <1>6 DEF Mixed, OneLogin
  <2>2. CASE switch.back = TRUE
    <3>1. disk'.meta = Op'.after.meta /\ disk'.meta # Op'.before.meta
      BY <1>0, <1>4, <1>5, <2>1, <2>2 DEF Want, OneLogin
    <3> QED
      BY <3>1 DEF HalfWay, Written
  <2>3. CASE switch.back = FALSE
    <3>1. Want = Op.after /\ disk.meta = Op.before.meta
      BY <1>4, <1>5, <2>1, <2>3 DEF Want, OneLogin
    <3>2. ~SameSession(Op.before.auth, Op.after.auth)
      BY <1>5, <2>1, <3>1 DEF OneLogin, SameSession, AccountIn
    <3>3. Place(Op.prepared.source)' = Op.after.auth
      BY <1>0, <1>1, <1>2, <3>1 DEF Place
    <3>4. PutLogin(Op)'
      BY <1>0, <2>1, <3>1, <3>2, <3>3 DEF PutLogin, SameSession
    <3> QED
      BY <1>0, <3>1, <3>4 DEF HalfWay, Written
  <2> QED
    BY <2>2, <2>3, SwitchReads
<1> QED
  BY <1>3, <1>6

LEMMA ServingMixes ==
  ASSUME SwitchTypeOK, SwitchTypeOK', ServedIsPending, SourcesFit, WholeParts, ~GivenUp,
         ServingStep
  PROVE  MixedIsUnderway' /\ ClaudeIsWritten'
<1>0. /\ MixedIsUnderway /\ ClaudeIsWritten /\ Op' = switch'.op /\ Op = switch.op
      /\ backend' = backend /\ Served /\ left'["restart"] = left["restart"]
      /\ disk' \in Disks
      /\ switch.pc \notin {"recover", "check", "config", "auth", "fallback", "meta"} => ~Mixed
  BY ServingIs DEF WholeParts, MixedIsUnderway, Op, OthersStay, SwitchTypeOK
<1>1. UNCHANGED disk => (Mixed' <=> Mixed) /\ Active' = Active
                        /\ \A op : HalfWay(op)' <=> HalfWay(op)
  BY <1>0, StoreStays
<1>2. CASE Refused
  <2>0. disk' = disk
    BY <1>2 DEF Refused
  <2>1. CASE ~Recovering
    <3>1. switch'.pc = "idle"
      BY <1>2, <2>1, RefuseIs, IdleIs DEF Refused
    <3>2. ~Written(Op)
      BY <1>0, <1>2, <3>1 DEF GivenUp, Refused, At
    <3>3. ~Mixed
      BY <1>0, <2>1, <3>2, UnderwayIs DEF MixedIsUnderway, HalfWay
    <3> QED
      BY <1>1, <2>0, <3>1, <3>3 DEF MixedIsUnderway, ClaudeIsWritten, At
  <2>2. CASE Recovering
    <3>1. switch'.pc = "recover" /\ switch'.queue = switch.queue \ {Op}
      BY <1>2, <2>2, RefuseIs, NextPendingIs DEF Refused
    <3>2. ~Written(Op)
      BY <1>0, <1>2, <3>1 DEF GivenUp, Refused, At
    <3>3. ~At("finish")
      BY <1>2 DEF Refused, At
    <3>4. ASSUME Mixed PROVE \E op \in Underway' : HalfWay(op)'
      <4>1. PICK op \in switch.queue : HalfWay(op)
        BY <1>0, <2>2, <3>3, <3>4, UnderwayIs DEF MixedIsUnderway
      <4>2. op \in switch.queue \ {Op}
        BY <3>2, <4>1 DEF HalfWay
      <4>3. op \in Underway'
        BY <3>1, <4>2 DEF Underway, Recovering, At
      <4> QED
        BY <1>1, <2>0, <4>1, <4>3
    <3> QED
      BY <1>1, <2>0, <3>1, <3>4 DEF MixedIsUnderway, ClaudeIsWritten, At
  <2> QED
    BY <2>1, <2>2
<1>3. CASE StartApply
  <2>1. /\ switch.pc = "check" /\ switch'.op = Op /\ switch'.raw = Raw
        /\ switch'.pc = IF ApplyCompleted(Raw, Op.after) THEN "applied" ELSE "auth"
        /\ switch'.queue = switch.queue /\ disk' = disk
    BY <1>3, ServedMoves DEF StartApply, At
  <2>2. Op \in ops /\ Proper(Op.after)
    BY <2>1 DEF ServedIsPending, Serving, Writing, WholeParts
  <2>3. CASE ApplyCompleted(Raw, Op.after)
    <3>1. ~Mixed
      BY <2>2, <2>3 DEF ApplyCompleted, Active, Mixed, Proper
    <3> QED
      BY <1>1, <2>1, <2>3, <3>1 DEF MixedIsUnderway, ClaudeIsWritten, At
  <2>4. CASE ~ApplyCompleted(Raw, Op.after)
    <3>1. Raw.meta \in {Op.before.meta, Op.after.meta}
      BY <1>3, <2>4, ApplyStarts DEF StartApply
    <3>2. Underway' = Underway
      BY <1>0, <2>1, <2>4 DEF Underway, Recovering, At, Serving, Writing
    <3> QED
      BY <1>0, <1>1, <2>1, <2>4, <3>1, <3>2 DEF MixedIsUnderway, ClaudeIsWritten, At
  <2> QED
    BY <2>3, <2>4
<1>4. CASE StartRollback
  <2>1. /\ switch.pc = "undo" /\ switch'.op = Op /\ switch'.raw = Raw /\ disk' = disk
        /\ switch'.pc \in {"undone", "auth"}
    BY <1>4, ServedMoves DEF StartRollback, At
  <2>2. Raw.meta \in {Op.before.meta, Op.after.meta}
    BY <1>4, RollbackStarts DEF StartRollback
  <2> QED
    BY <1>0, <1>1, <2>1, <2>2 DEF MixedIsUnderway, ClaudeIsWritten, At
<1>5. CASE PutCredential
  <2>1. /\ switch.pc = "auth" /\ switch'.pc = "fallback" /\ switch'.op = Op
        /\ switch'.back = switch.back /\ switch'.queue = switch.queue
    BY <1>5, ServedMoves
  <2>2. Op \in Underway' /\ Want' = Want
    BY <1>0, <2>1 DEF ServedIsPending, Underway, Recovering, At, Serving, Writing, Want
  <2>3. IsClaude(backend) => Active'.auth = Want.auth /\ (Mixed' => HalfWay(Op)')
    BY <1>0, <1>5, PutMixes
  <2>4. MixedIsUnderway'
    <3>1. Mixed' => \E op \in Underway' : HalfWay(op)'
      <4>1. PICK op : op = Op
        OBVIOUS
      <4>2. HalfWay(Op)' => HalfWay(op)'
        BY <1>0, <2>1, <4>1 DEF HalfWay, Written, PutLogin
      <4> QED
        BY <1>0, <2>2, <2>3, <4>1, <4>2 DEF Mixed
    <3> QED
      BY <2>1, <3>1 DEF MixedIsUnderway, At
  <2> QED
    BY <1>0, <2>1, <2>2, <2>3, <2>4 DEF ClaudeIsWritten, At
<1>6. CASE PutFallback
  <2>1. ~IsClaude(backend')
    BY <1>0, <1>6, PutsAre
  <2> QED
    BY <2>1 DEF MixedIsUnderway, ClaudeIsWritten, Mixed
<1>7. CASE PutMetadata
  <2>1. /\ switch.pc = "meta" /\ switch'.pc = "verify" /\ switch'.op = Op
        /\ switch'.back = switch.back /\ IsClaude(backend)
        /\ disk'.file = disk.file /\ disk'.secure = disk.secure /\ disk'.meta = Want.meta
    BY <1>7, ServedMoves, PutsAre
  <2>2. Active'.auth = Active.auth /\ Active'.meta = Want.meta /\ Active' \in AnySnapshot
    BY <1>0, <2>1, ClaudeAfter, StoreReads
  <2>3. Active' = Want /\ Want' = Want
    BY <1>0, <2>1, <2>2, SwitchReads DEF ClaudeIsWritten, AnySnapshot, Want
  <2>4. Proper(Want)
    BY <2>1 DEF ServedIsPending, Serving, Writing, WholeParts, Want
  <2> QED
    BY <2>1, <2>3, <2>4 DEF MixedIsUnderway, ClaudeIsWritten, Mixed, Proper, At
<1>8. CASE PassOver
  <2>1. /\ switch'.op = Op /\ switch'.back = switch.back /\ switch'.queue = switch.queue
        /\ \/ switch.pc = "fallback" /\ switch'.pc = "meta"
           \/ switch.pc = "meta" /\ switch'.pc = "verify" /\ ~IsClaude(backend)
           \/ switch.pc = "verify" /\ switch'.pc \in {"undone", "applied"}
        /\ disk' = disk
    BY <1>8, ServedMoves DEF PassOver
  <2>2. CASE switch.pc = "fallback"
    <3>1. Underway' = Underway /\ Want' = Want
      BY <1>0, <2>1, <2>2 DEF Underway, Recovering, At, Serving, Writing, Want
    <3> QED
      BY <1>0, <1>1, <2>1, <2>2, <3>1 DEF MixedIsUnderway, ClaudeIsWritten, At
  <2>3. CASE switch.pc # "fallback"
    <3>1. ~Mixed
      BY <1>0, <2>1, <2>3 DEF Mixed
    <3> QED
      BY <1>0, <1>1, <2>1, <2>3, <3>1 DEF MixedIsUnderway, ClaudeIsWritten, At
  <2> QED
    BY <2>2, <2>3
<1>9. CASE StartUndo
  <2>1. switch.pc = "config" /\ switch'.pc = "undo" /\ disk' = disk /\ Op.to # "release"
    BY <1>9, ServedMoves DEF StartUndo
  <2> QED
    BY <1>0, <1>1, <2>1 DEF MixedIsUnderway, ClaudeIsWritten, At
<1> QED
  BY <1>0, <1>2, <1>3, <1>4, <1>5, <1>6, <1>7, <1>8, <1>9 DEF Served


-----------------------------------------------------------------------------
(* The inductive invariant, and what follows from it.                         *)

LEMMA WholeStep ==
  ASSUME SwitchTypeOK, SwitchTypeOK', ServedIsPending, CapturesFile, SourcesFit, WholeParts,
         SwitchSteps, ~GivenUp
  PROVE  WholeParts'
<1>1. VaultHoldsOwnLogins' /\ Proper(baseline.snap)'
      /\ (\A op \in ops : Proper(op.before) /\ Proper(op.after))'
      /\ (switch.pc \in Capturing => Proper(Snapshot(switch.raw)))'
  BY OwnLoginsStep, KeptIsWhole, CapturedIsWhole
<1>2. MixedIsUnderway' /\ ClaudeIsWritten'
  BY StepsAre, ClientMixes, QuietMixes, ServingMixes
<1> QED
  BY <1>1, <1>2 DEF WholeParts

LEMMA InvInit == SwitchInit => SwitchInv
<1> SUFFICES ASSUME SwitchInit PROVE SwitchInv
  OBVIOUS
<1>1. SwitchTypeOK
  BY InitTyped
<1>2. /\ switch.pc = "idle" /\ switch.queue = {} /\ switch.back = FALSE /\ ops = {}
      /\ applied = NoApplied /\ removed = {} /\ baseline = NoBaseline
      /\ \A a \in Accounts : vault[a].cred = NoCred
  BY IdleIs DEF SwitchInit
<1>3. ServedIsPending /\ CapturesFile /\ SourcesFit /\ WritesFromRecorded /\ StatesAgree
      /\ MarksAreApplied /\ SavedIsNotRemoved
  BY <1>2 DEF ServedIsPending, CapturesFile, SourcesFit, WritesFromRecorded, StatesAgree,
    MarksAreApplied, SavedIsNotRemoved, Serving, Writing, Capturing, Recovering, At
<1>4. PICK s \in Sessions \cup {NoCred} :
        LET c == IF s = NoCred THEN NoCred ELSE [sess |-> s, gen |-> 0] IN
        /\ disk = [secure |-> IF FileOnly(backend) THEN NoCred ELSE c,
                   file |-> IF FileOnly(backend) THEN c ELSE NoCred,
                   meta |-> IF IsClaude(backend) THEN AccountIn(c) ELSE NoAccount,
                   reachable |-> ~FileOnly(backend)]
        /\ oauth = [begun |-> {s} \cap Sessions, newest |-> [t \in Sessions |-> 0]]
  BY DEF SwitchInit
<1> DEFINE c == IF s = NoCred THEN NoCred ELSE [sess |-> s, gen |-> 0]
<1>5. OnlyIssued
  <2>1. Issued(c) /\ Issued(NoCred)
    BY <1>4, CredsAre, GenAssumption DEF Issued
  <2> HIDE DEF c
  <2>2. disk.file \in {c, NoCred} /\ disk.secure \in {c, NoCred}
    BY <1>4 DEF c
  <2>3. \A t \in Sessions : oauth.newest[t] = 0
    BY <1>4
  <2>4. baseline.snap.auth = NoCred
    BY <1>2 DEF NoBaseline, NoSnapshot
  <2> QED
    BY <1>2, <2>1, <2>2, <2>3, <2>4 DEF OnlyIssued, Capturing
<1>6. ~Mixed
  <2>1. CASE IsClaude(backend)
    <3>1. disk.meta = AccountIn(c)
          /\ disk.file = (IF FileOnly(backend) THEN c ELSE NoCred)
          /\ disk.secure = (IF FileOnly(backend) THEN NoCred ELSE c)
      BY <1>4, <2>1
    <3> HIDE DEF c
    <3>2. Active.auth = c /\ Active.meta = AccountIn(c)
      BY <1>1, <2>1, <3>1, StoreReads DEF SourceOf, IsClaude, FileOnly
    <3> QED
      BY <3>2 DEF Mixed, OneLogin
  <2> QED
    BY <2>1 DEF Mixed
<1>7. WholeParts
  BY <1>2, <1>6 DEF WholeParts, VaultHoldsOwnLogins, IsSaved, Proper, OneLogin, NoBaseline,
    NoSnapshot, Capturing, MixedIsUnderway, ClaudeIsWritten, At
<1> QED
  BY <1>1, <1>3, <1>5, <1>7 DEF SwitchInv

LEMMA InvStutters ==
  ASSUME SwitchInv, UNCHANGED switchVars
  PROVE  SwitchInv'
<1>0. UNCHANGED <<backend, disk, oauth, vault, nativeRev, removed, owner, applied,
                  baseline, active, selector, ops, switch, left, history>>
  BY DEF switchVars
<1>1. SwitchTypeOK'
  BY <1>0 DEF SwitchInv, SwitchTypeOK
<1>2. ServedIsPending' /\ CapturesFile' /\ SourcesFit'
  BY <1>0 DEF SwitchInv, ServedIsPending, CapturesFile, SourcesFit, Op, Recovering, At, IsSaved,
    FitsLayout
<1>3. OnlyIssued' /\ WritesFromRecorded'
  BY <1>0 DEF SwitchInv, OnlyIssued, Issued, SnapshotsIssued, WritesFromRecorded, Recorded, Op,
    Observed, At
<1>4. StatesAgree' /\ MarksAreApplied' /\ SavedIsNotRemoved'
  BY <1>0 DEF SwitchInv, StatesAgree, StillCurrent, IsSaved, MarksAreApplied, SavedIsNotRemoved
<1>5. WholeParts => WholeParts'
  <2>1. (Mixed' <=> Mixed) /\ Active' = Active /\ \A op : HalfWay(op)' <=> HalfWay(op)
    BY <1>0, StoreStays
  <2>2. Underway' = Underway /\ Op' = Op /\ Want' = Want
    BY <1>0 DEF Underway, Recovering, At, Op, Want
  <2> QED
    BY <1>0, <2>1, <2>2 DEF WholeParts, VaultHoldsOwnLogins, IsSaved, Proper, MixedIsUnderway,
      ClaudeIsWritten, At
<1> QED
  BY <1>0, <1>1, <1>2, <1>3, <1>4, <1>5 DEF SwitchInv

LEMMA InvStep ==
  ASSUME SwitchInv, SwitchNext
  PROVE  SwitchInv'
<1>0. SwitchTypeOK /\ ServedIsPending /\ CapturesFile /\ SourcesFit /\ OnlyIssued
      /\ WritesFromRecorded /\ StatesAgree /\ MarksAreApplied /\ SavedIsNotRemoved
      /\ SwitchSteps /\ HistoryStep
  BY DEF SwitchInv, SwitchNext
<1>1. SwitchTypeOK'
  BY <1>0, TypesStep
<1>2. ServedIsPending' /\ CapturesFile' /\ SourcesFit'
  BY <1>0, PendingStep, CapturesFileStep, FitsStep
<1>3. OnlyIssued' /\ WritesFromRecorded' /\ StatesAgree'
  BY <1>0, IssuedStep, RecordedStep, AgreeStep
<1>4. MarksAreApplied' /\ SavedIsNotRemoved'
  BY <1>0, AppliedStep, RemovedStep
<1>5. ~history'.half => WholeParts'
  <2>1. ~history'.half => ~history.half /\ ~GivenUp
    BY <1>0, HistoryIs
  <2> QED
    BY <1>0, <1>1, <2>1, WholeStep DEF SwitchInv
<1> QED
  BY <1>1, <1>2, <1>3, <1>4, <1>5 DEF SwitchInv

THEOREM SwitchInvariant == SwitchingSpec => []SwitchInv
<1>1. SwitchInv /\ [SwitchNext]_switchVars => SwitchInv'
  BY InvStep, InvStutters
<1> QED
  BY <1>1, InvInit, PTL DEF SwitchingSpec

\* Whenever the daemon rests, Claude's tokens and the account named beside them are of
\* one login, and every account's saved credential is that account's own: whatever was
\* refreshed, replaced, refused, rolled back or interrupted, unless an operation was
\* given up after it wrote to the store.
THEOREM AccountsStayWhole == SwitchingSpec => []AccountsAreWhole
<1>1. SwitchInv => AccountsAreWhole
  <2> SUFFICES ASSUME SwitchInv PROVE AccountsAreWhole
    OBVIOUS
  <2>1. SwitchTypeOK
    BY DEF SwitchInv
  <2>2. NoMixedStore
    BY DEF SwitchInv, WholeParts, MixedIsUnderway, NoMixedStore, At
  <2>3. VaultIsSorted
    BY DEF SwitchInv, WholeParts, VaultIsSorted
  <2> QED
    BY <2>1, <2>2, <2>3 DEF AccountsAreWhole
<1> QED
  BY <1>1, SwitchInvariant, PTL

\* hsin takes away no login but the ones the switch it runs recorded: a login made
\* meanwhile stays, in whichever of the two places it was made.
THEOREM OnlyRecordedIsReplaced == SwitchingSpec => ReplacesOnlyRecorded
<1> DEFINE Step == switch.pc \in {"auth", "fallback"} /\ oauth' = oauth =>
                     /\ disk'.file # disk.file => Recorded(disk.file)
                     /\ disk'.secure # disk.secure => Recorded(disk.secure)
<1>1. ASSUME SwitchInv, SwitchNext PROVE Step
  <2>0. SwitchTypeOK /\ WritesFromRecorded /\ ServedIsPending
    BY <1>1 DEF SwitchInv
  <2>1. CASE UNCHANGED disk
    BY <2>1
  <2>2. CASE KeyringFlip
    BY <2>0, <2>2 DEF KeyringFlip, SwitchTypeOK, Disks
  <2>3. CASE Refresh
    <3>1. PICK c, next \in Creds : /\ next.gen = c.gen + 1 /\ c.gen = oauth.newest[c.sess]
                                   /\ oauth'.newest[c.sess] = next.gen
      BY <2>0, <2>3, RefreshIs
    <3>2. c.gen \in Nat
      BY GenAssumption DEF Creds
    <3>3. oauth' # oauth
      BY <3>1, <3>2
    <3> QED
      BY <3>3
  <2>4. ASSUME NEW s \in Sessions, NEW i \in BOOLEAN, NativeLogin(s, i) PROVE Step
    <3>1. s \notin oauth.begun /\ oauth' = [oauth EXCEPT !.begun = @ \cup {s}]
      BY <2>4 DEF NativeLogin
    <3>2. oauth' # oauth
      BY <2>0, <3>1 DEF SwitchTypeOK
    <3> QED
      BY <3>2
  <2>5. CASE PutCredential
    <3>1. At("auth") /\ Recorded(Observed.auth)
      BY <2>0, <2>5 DEF PutCredential, WritesFromRecorded, At
    <3>2. /\ disk'.file # disk.file => disk.file = Observed.auth
          /\ disk'.secure # disk.secure => disk.secure = Observed.auth
      BY <2>0, <2>5, PutsAre
    <3> QED
      BY <3>1, <3>2
  <2>6. CASE PutFallback
    <3>1. Recorded(Observed.fallback)
      BY <2>0, <2>6 DEF PutFallback, WritesFromRecorded, At
    <3>2. disk'.secure = disk.secure /\ disk.file = Observed.fallback
      BY <2>0, <2>6, PutsAre
    <3> QED
      BY <3>1, <3>2
  <2>7. CASE PutMetadata
    BY <2>0, <2>7, PutsAre
  <2> QED
    BY <1>1, <2>0, <2>1, <2>2, <2>3, <2>4, <2>5, <2>6, <2>7, DiskMoves
    DEF SwitchNext, ClientStep
<1>2. SwitchInv /\ [SwitchNext]_switchVars => [Step]_switchVars
  BY <1>1
<1> QED
  BY <1>2, SwitchInvariant, PTL DEF SwitchingSpec, ReplacesOnlyRecorded

-----------------------------------------------------------------------------
(* The newest refreshes.  Codex's automatic choice of a place is left to the  *)
(* runs: a login may go from one place to the other there.                    *)

\* Each of the other layouts keeps its login in one place; only Codex's keyring has a
\* file beside it.
PlacesFit ==
  /\ FileOnly(backend) => disk.secure = NoCred
  /\ backend = "claude_keychain" => disk.file = NoCred

\* Sessions no promise is made about any more.
Lost(c) ==
  AccountIn(c) \in history.torn \/ c.sess \in history.handed \cup history.dropped
Promised(a) == IsSaved(a) /\ ~Lost(vault[a].cred)

\* The next capture will save what the store has for this account.
Linked(a) ==
  \/ applied.acct = a /\ applied.rev = vault[a].rev
  \/ nativeRev[a] = vault[a].rev
BeingMarked(a) ==
  \/ At("mark") /\ a = applied.acct
  \/ At("imported") /\ a = Identity(backend, Snapshot(switch.raw))

\* A credential in its newest refresh, which the next capture will save.
Settled(c) ==
  c # NoCred /\ ~Lost(c) =>
    /\ c = Newest(c.sess)
    /\ \A a \in Accounts :
         IsSaved(a) /\ SameSession(vault[a].cred, c) => Linked(a) \/ BeingMarked(a)
StoreIsSettled == Settled(Active.auth) \/ \E op \in Underway : PutLogin(op)

KeptInPlace ==
  \A a \in Accounts : Promised(a) =>
    Newest(vault[a].cred.sess) \in {vault[a].cred, Active.auth}

\* What a pending operation may overwrite the vault has as new, and it writes no older
\* refresh of what it found.
BeforeIsSaved ==
  \A op \in ops :
    /\ \A a \in Accounts : Promised(a) /\ SameSession(vault[a].cred, op.before.auth) =>
          op.before.auth.gen <= vault[a].cred.gen
    /\ SameSession(op.before.auth, op.after.auth) /\ ~Lost(op.after.auth) =>
          op.before.auth = op.after.auth

\* What a capture read is the newest there is, or the client has gone on.
CaptureIsCurrent ==
  LET c == switch.raw.auth IN
  switch.pc \in Capturing =>
    /\ c # NoCred /\ ~Lost(c) =>
         /\ Newest(c.sess) \in {c, Active.auth}
         /\ \A op \in ops : SameSession(op.before.auth, c) => op.before.auth.gen <= c.gen
    /\ c # NoCred => Active.auth # NoCred
    /\ Active.auth \notin {c, NoCred} =>
         /\ baseline.snap.auth # Active.auth
         /\ \A a \in Accounts : vault[a].cred # Active.auth

\* The captures before a journal row save every promised account they meet.
CaptureSaves ==
  LET c == switch.raw.auth IN
  switch.pc \in Capturing /\ switch.to # "inspect" =>
    /\ SameSession(baseline.snap.auth, c) /\ baseline.kept => baseline.snap.auth = c
    /\ \A a \in Accounts : IsSaved(a) /\ SameSession(vault[a].cred, c) /\ ~Lost(c) =>
         \/ At("outgoing") /\ Linked(a)
         \/ At("native") /\ nativeRev[a] = vault[a].rev
         \/ ~At("outgoing") /\ vault[a].cred = c

\* From its first write to its commit an operation's login, or a later one of the
\* client, is in the store.
Applying ==
  /\ switch.pc \in {"fallback", "meta", "verify", "applied", "config", "commit"}
  /\ ~switch.back /\ (At("config") => Op.to # "release")
AppliedIsCurrent ==
  /\ Applying \/ (At("auth") /\ ~switch.back) => StillCurrent(Op)
  /\ Applying =>
       /\ \/ Active.auth = NoCred \/ SameSession(Active.auth, Op.after.auth)
          \/ \A a \in Accounts : ~SameSession(vault[a].cred, Active.auth)
       /\ Op.to \in Accounts /\ SameSession(Active.auth, Op.after.auth)
            /\ ~Lost(Op.after.auth) => Active.auth = Newest(Active.auth.sess)

\* A rollback restores what was settled, over what the vault has.
Returning ==
  /\ switch.pc \in Serving \ {"undone", "commit", "finish"}
  /\ ~Recovering /\ Op.to # "release"
RollbackIsSettled ==
  /\ Returning =>
       /\ Active.auth \in {Op.before.auth, Op.after.auth} => Settled(Op.before.auth)
       /\ \A a \in Accounts : SameSession(vault[a].cred, Op.after.auth) =>
            vault[a].cred = Op.after.auth
  /\ At("auth") => switch.raw.auth \in {Op.before.auth, Op.after.auth}

LatestParts ==
  /\ StoreIsSettled /\ KeptInPlace /\ BeforeIsSaved /\ CaptureIsCurrent
  /\ CaptureSaves /\ AppliedIsCurrent /\ RollbackIsSettled
LatestInv ==
  PlacesFit /\ (backend # "codex_auto" /\ ~history.half => LatestParts)

-----------------------------------------------------------------------------
LEMMA SameLost ==
  ASSUME NEW c, NEW d, SameSession(c, d)
  PROVE  (Lost(c) <=> Lost(d)) /\ AccountIn(c) = AccountIn(d) /\ SameSession(d, c)
BY DEF SameSession, Lost, AccountIn

LEMMA LostStays ==
  ASSUME SwitchTypeOK, HistoryStep, NEW c, Lost(c)
  PROVE  Lost(c)'
BY HistoryIs DEF Lost

\* Where the login is, when the layout has one place for it.
LEMMA OnePlace ==
  ASSUME SwitchTypeOK, SourcesFit, backend # "codex_auto"
  PROVE  /\ \A source \in {"file", "keyring"} : FitsLayout(source) => source = Raw.source
         /\ Raw.source = IF FileOnly(backend) THEN "file" ELSE "keyring"
         /\ Active.auth = IF FileOnly(backend) THEN disk.file ELSE disk.secure
         /\ Active.auth \in AnyCred
         /\ \A op \in ops : /\ op.prepared.source = Raw.source
                            /\ Place(op.prepared.source) = Active.auth
                            /\ PutLogin(op) <=> /\ SameSession(Active.auth, op.after.auth)
                                                /\ ~SameSession(op.before.auth, op.after.auth)
<1>1. backend \in Backends /\ Raw.source = SourceOf(backend, disk) /\ Active.auth = Raw.auth
      /\ Raw.auth = (IF SourceOf(backend, disk) = "file" THEN disk.file ELSE disk.secure)
      /\ Raw.auth \in AnyCred
  BY StoreReads
<1>2. Raw.source = IF FileOnly(backend) THEN "file" ELSE "keyring"
  BY <1>1 DEF SourceOf
<1>3. Active.auth = IF FileOnly(backend) THEN disk.file ELSE disk.secure
  BY <1>1, <1>2
<1>4. \A source \in {"file", "keyring"} : FitsLayout(source) => source = Raw.source
  BY <1>1, <1>2 DEF FitsLayout, Backends, NeedsKeyring, FileOnly
<1>5. ASSUME NEW op \in ops
      PROVE  op.prepared.source = Raw.source /\ Place(op.prepared.source) = Active.auth
  <2>1. op.prepared \in Raws /\ FitsLayout(op.prepared.source)
    BY DEF SwitchTypeOK, Journals, SourcesFit
  <2>2. op.prepared.source = Raw.source
    BY <2>1, <1>4 DEF Raws
  <2> QED
    BY <2>2, <1>2, <1>3 DEF Place
<1> QED
  BY <1>1, <1>2, <1>3, <1>4, <1>5 DEF PutLogin

LEMMA PlaceAfter ==
  ASSUME SwitchTypeOK, backend # "codex_auto", backend' = backend, disk' \in Disks
  PROVE  /\ Active'.auth = IF FileOnly(backend) THEN disk'.file ELSE disk'.secure
         /\ Active'.auth \in AnyCred
<1>1. /\ RawState(backend, disk').auth = IF SourceOf(backend, disk') = "file"
                                         THEN disk'.file ELSE disk'.secure
      /\ RawState(backend, disk') \in Raws
  BY RawsOfDisks
<1>2. SourceOf(backend, disk') = IF FileOnly(backend) THEN "file" ELSE "keyring"
  BY DEF SourceOf
<1>3. Active'.auth = RawState(backend, disk').auth
  BY <1>1, SnapshotsOfRaws DEF Active, Raw
<1> QED
  BY <1>1, <1>2, <1>3 DEF Disks

\* What the client may do to the login in the store.
Stands == Active'.auth = Active.auth /\ oauth'.newest = oauth.newest
Refreshes(c, d) ==
  /\ c = Active.auth /\ d = Active'.auth /\ d.sess = c.sess /\ d.gen = c.gen + 1
  /\ c.gen = oauth.newest[c.sess] /\ oauth'.newest[c.sess] = d.gen
  /\ \A s \in Sessions \ {c.sess} : oauth'.newest[s] = oauth.newest[s]
Replaces(d) ==
  /\ d = Active'.auth /\ d.gen = 0 /\ d.sess \notin oauth.begun
  /\ oauth'.newest = oauth.newest /\ oauth.newest[d.sess] = 0
  /\ Active.auth # NoCred => Active.auth.sess \in history'.dropped

LEMMA ClientMoves ==
  ASSUME SwitchTypeOK, SwitchTypeOK', SourcesFit, OnlyIssued, PlacesFit,
         backend # "codex_auto", ClientStep, HistoryStep
  PROVE  /\ UNCHANGED <<backend, switch>> /\ UNCHANGED dbVars
         /\ \/ Stands
            \/ \E c, d \in Creds : Refreshes(c, d)
            \/ \E d \in Creds : Replaces(d)
<1>0. UNCHANGED <<backend, switch>> /\ UNCHANGED dbVars
  BY ClientIs
<1>1. /\ Active.auth = (IF FileOnly(backend) THEN disk.file ELSE disk.secure)
      /\ Raw.source = (IF FileOnly(backend) THEN "file" ELSE "keyring")
      /\ Active.auth \in AnyCred
  BY OnePlace
<1>2. Active'.auth = IF FileOnly(backend) THEN disk'.file ELSE disk'.secure
  BY <1>0, PlaceAfter DEF SwitchTypeOK
<1>3. CASE Refresh
  <2>1. PICK c, d \in Creds :
            /\ c = Active.auth /\ c.gen = oauth.newest[c.sess]
            /\ d.sess = c.sess /\ d.gen = c.gen + 1
            /\ oauth'.newest[c.sess] = d.gen
            /\ \A s \in Sessions \ {c.sess} : oauth'.newest[s] = oauth.newest[s]
            /\ disk'.file = IF Raw.source = "file" THEN d ELSE disk.file
            /\ disk'.secure = IF Raw.source = "file" THEN disk.secure ELSE d
    BY <1>3, RefreshIs
  <2>2. Active'.auth = d
    BY <2>1, <1>1, <1>2
  <2> QED
    BY <1>0, <2>1, <2>2 DEF Refreshes
<1>4. CASE KeyringFlip
  <2>1. oauth' = oauth /\ disk' = [disk EXCEPT !.reachable = ~disk.reachable]
    BY <1>4 DEF KeyringFlip
  <2>2. disk'.file = disk.file /\ disk'.secure = disk.secure
    BY <2>1 DEF SwitchTypeOK, Disks
  <2> QED
    BY <1>0, <1>1, <1>2, <2>1, <2>2 DEF Stands
<1>5. ASSUME NEW s \in Sessions, NEW i \in BOOLEAN, NativeLogin(s, i)
      PROVE  Stands \/ \E d \in Creds : Replaces(d)
  <2> DEFINE c == [sess |-> s, gen |-> 0]
  <2>1. c \in Creds /\ c # NoCred /\ c.sess = s /\ c.gen = 0
    BY CredsAre, GenAssumption DEF AnyCred
  <2>2. s \notin oauth.begun /\ oauth' = [oauth EXCEPT !.begun = oauth.begun \cup {s}]
    BY <1>5 DEF NativeLogin
  <2>3. oauth'.newest = oauth.newest /\ oauth'.begun # oauth.begun /\ oauth.newest[s] = 0
    <3>1. oauth.newest[s] = 0
      BY <2>2 DEF OnlyIssued
    <3> QED
      BY <3>1, <2>2 DEF SwitchTypeOK
  <2>4. disk.file # c /\ disk.secure # c
    BY <2>1, <2>2 DEF OnlyIssued, Issued
  <2> HIDE DEF c
  <2>5. history'.dropped = history.dropped \cup {x.sess : x \in TakenAway}
    BY DEF HistoryStep
  <2>6. TakenAway = {disk.file, disk.secure} \ {disk'.file, disk'.secure, NoCred}
    BY <2>3 DEF TakenAway
  <2>7. CASE i /\ ~FileOnly(backend)
    <3>1. disk' = [disk EXCEPT !.file = c,
                               !.meta = IF IsClaude(backend) THEN AccountOf[s] ELSE disk.meta]
      BY <1>5, <2>7 DEF NativeLogin, c
    <3>2. disk'.secure = disk.secure
      BY <3>1 DEF SwitchTypeOK, Disks
    <3> QED
      BY <1>1, <1>2, <2>3, <2>7, <3>2 DEF Stands
  <2>8. CASE FileOnly(backend)
    <3>1. disk' = [disk EXCEPT !.file = c,
                               !.meta = IF IsClaude(backend) THEN AccountOf[s] ELSE disk.meta]
      BY <1>5, <2>8 DEF NativeLogin, c
    <3>2. disk'.file = c /\ disk'.secure = NoCred
      BY <2>8, <3>1 DEF SwitchTypeOK, Disks, PlacesFit
    <3>3. Active.auth # NoCred => Active.auth \in TakenAway
      BY <1>1, <2>4, <2>6, <2>8, <3>2
    <3>4. Active.auth # NoCred => Active.auth.sess \in history'.dropped
      BY <3>3, <2>5
    <3> QED
      BY <1>2, <2>1, <2>2, <2>3, <2>8, <3>2, <3>4 DEF Replaces
  <2>9. CASE ~i /\ ~FileOnly(backend)
    <3>1. disk' = [disk EXCEPT !.secure = c,
                               !.file = IF IsClaude(backend) THEN disk.file ELSE NoCred,
                               !.meta = IF IsClaude(backend) THEN AccountOf[s] ELSE disk.meta]
      BY <1>5, <2>9 DEF NativeLogin, c
    <3>2. disk'.secure = c /\ disk'.file = IF IsClaude(backend) THEN disk.file ELSE NoCred
      BY <3>1 DEF SwitchTypeOK, Disks
    <3>3. disk'.file = NoCred
      <4>1. backend \in Backends
        BY StoreReads
      <4> QED
        BY <2>9, <3>2, <4>1 DEF Backends, IsClaude, FileOnly, PlacesFit
    <3>4. Active.auth # NoCred => Active.auth \in TakenAway
      BY <1>1, <2>4, <2>6, <2>9, <3>2, <3>3
    <3>5. Active.auth # NoCred => Active.auth.sess \in history'.dropped
      BY <3>4, <2>5
    <3> QED
      BY <1>2, <2>1, <2>2, <2>3, <2>9, <3>2, <3>5 DEF Replaces
  <2> QED
    BY <2>7, <2>8, <2>9
<1> QED
  BY <1>0, <1>3, <1>4, <1>5 DEF ClientStep

LEMMA PlacesInit == SwitchInit => PlacesFit
<1> SUFFICES ASSUME SwitchInit PROVE PlacesFit
  OBVIOUS
<1>1. \E c : disk = [secure |-> IF FileOnly(backend) THEN NoCred ELSE c,
                     file |-> IF FileOnly(backend) THEN c ELSE NoCred,
                     meta |-> IF IsClaude(backend) THEN AccountIn(c) ELSE NoAccount,
                     reachable |-> ~FileOnly(backend)]
  BY DEF SwitchInit
<1> QED
  BY <1>1 DEF PlacesFit, FileOnly

LEMMA PlacesStep ==
  ASSUME SwitchTypeOK, ServedIsPending, SourcesFit, PlacesFit, SwitchSteps
  PROVE  PlacesFit'
<1>0. backend' = backend
  BY PlacesAre
<1>1. CASE UNCHANGED disk
  BY <1>0, <1>1 DEF PlacesFit
<1>2. CASE Refresh
  <2>1. \E d : /\ disk'.file = IF Raw.source = "file" THEN d ELSE disk.file
               /\ disk'.secure = IF Raw.source = "file" THEN disk.secure ELSE d
    BY <1>2, RefreshIs
  <2>2. FitsLayout(Raw.source)
    BY RawFits
  <2> QED
    BY <1>0, <2>1, <2>2 DEF PlacesFit, FitsLayout, NeedsKeyring
<1>3. CASE KeyringFlip
  <2>1. disk' = [disk EXCEPT !.reachable = ~disk.reachable]
    BY <1>3 DEF KeyringFlip
  <2>2. disk'.file = disk.file /\ disk'.secure = disk.secure
    BY <2>1 DEF SwitchTypeOK, Disks
  <2> QED
    BY <1>0, <2>2 DEF PlacesFit
<1>4. ASSUME NEW s \in Sessions, NEW i \in BOOLEAN, NativeLogin(s, i) PROVE PlacesFit'
  <2> DEFINE c == [sess |-> s, gen |-> 0]
  <2>1. backend \in Backends /\ disk \in Disks
    BY StoreReads DEF SwitchTypeOK
  <2> HIDE DEF c
  <2>2. CASE i \/ FileOnly(backend) \/ (backend = "codex_auto" /\ ~disk.reachable)
    <3>1. disk' = [disk EXCEPT !.file = c,
                               !.meta = IF IsClaude(backend) THEN AccountOf[s] ELSE disk.meta]
      BY <1>4, <2>2 DEF NativeLogin, c
    <3>2. disk'.secure = disk.secure
      BY <2>1, <3>1 DEF Disks
    <3>3. backend # "claude_keychain"
      BY <1>4, <2>2 DEF NativeLogin, FileOnly
    <3> QED
      BY <1>0, <3>2, <3>3 DEF PlacesFit
  <2>3. CASE ~(i \/ FileOnly(backend) \/ (backend = "codex_auto" /\ ~disk.reachable))
    <3>1. disk' = [disk EXCEPT !.secure = c,
                               !.file = IF IsClaude(backend) THEN disk.file ELSE NoCred,
                               !.meta = IF IsClaude(backend) THEN AccountOf[s] ELSE disk.meta]
      BY <1>4, <2>3 DEF NativeLogin, c
    <3>2. disk'.file = IF IsClaude(backend) THEN disk.file ELSE NoCred
      BY <2>1, <3>1 DEF Disks
    <3> QED
      BY <1>0, <2>3, <3>2 DEF PlacesFit, IsClaude
  <2> QED
    BY <2>2, <2>3
<1>5. CASE PutCredential
  <2>1. switch.pc = "auth" /\ ServedIsPending
    BY <1>5, ServedMoves
  <2>2. FitsLayout(Observed.source)
    <3>1. Op \in ops /\ FitsLayout(switch.raw.source) /\ FitsLayout(Op.prepared.source)
      BY <2>1 DEF ServedIsPending, Serving, Writing, SourcesFit
    <3>2. switch.back \in BOOLEAN
      BY SwitchReads
    <3> QED
      BY <3>1, <3>2, ObservedIs
  <2>3. /\ disk'.file = IF Observed.source = "file" THEN Want.auth ELSE disk.file
        /\ disk'.secure = IF Observed.source = "file" THEN disk.secure ELSE Want.auth
    BY <1>5, PutsAre
  <2> QED
    BY <1>0, <2>2, <2>3 DEF PlacesFit, FitsLayout, NeedsKeyring
<1>6. CASE PutFallback
  <2>1. disk'.file = NoCred /\ disk'.secure = disk.secure
    BY <1>6, PutsAre
  <2> QED
    BY <1>0, <2>1 DEF PlacesFit
<1>7. CASE PutMetadata
  <2>1. disk'.file = disk.file /\ disk'.secure = disk.secure
    BY <1>7, PutsAre
  <2> QED
    BY <1>0, <2>1 DEF PlacesFit
<1> QED
  BY <1>1, <1>2, <1>3, <1>4, <1>5, <1>6, <1>7, DiskMoves DEF ClientStep

\* A step of a layout with one place, as long as no operation is given up half way.
LatestStep ==
  /\ SwitchInv /\ SwitchInv' /\ PlacesFit /\ LatestParts
  /\ backend # "codex_auto" /\ backend' = backend /\ ~history.half /\ ~history'.half
  /\ SwitchSteps /\ HistoryStep

LEMMA LatestFacts ==
  ASSUME LatestStep
  PROVE  /\ SwitchTypeOK /\ SwitchTypeOK' /\ ServedIsPending /\ CapturesFile /\ SourcesFit
         /\ OnlyIssued /\ StatesAgree /\ MarksAreApplied /\ SavedIsNotRemoved
         /\ PlacesFit /\ WholeParts /\ VaultHoldsOwnLogins
         /\ StoreIsSettled /\ KeptInPlace /\ BeforeIsSaved /\ CaptureIsCurrent
         /\ CaptureSaves /\ AppliedIsCurrent /\ RollbackIsSettled
         /\ backend # "codex_auto" /\ backend' = backend /\ ~GivenUp
         /\ SwitchSteps /\ HistoryStep
         /\ Active.auth \in AnyCred /\ Active'.auth \in AnyCred
         /\ disk \in Disks /\ disk' \in Disks
<1>1. SwitchTypeOK /\ SwitchTypeOK' /\ ServedIsPending /\ CapturesFile /\ SourcesFit
      /\ OnlyIssued /\ StatesAgree /\ MarksAreApplied /\ SavedIsNotRemoved
      /\ WholeParts /\ PlacesFit /\ backend # "codex_auto" /\ backend' = backend
      /\ SwitchSteps /\ HistoryStep /\ ~history'.half /\ LatestParts
  BY DEF LatestStep, SwitchInv
<1>2. disk \in Disks /\ disk' \in Disks
  BY <1>1 DEF SwitchTypeOK
<1>3. Active.auth \in AnyCred /\ Active'.auth \in AnyCred
  BY <1>1, <1>2, OnePlace, PlaceAfter
<1>4. ~GivenUp
  BY <1>1, HistoryIs
<1> QED
  BY <1>1, <1>2, <1>3, <1>4 DEF LatestParts, WholeParts

\* What a write put into the store, before and after a step.
LEMMA PutsAfter ==
  ASSUME LatestStep
  PROVE  /\ \A op \in ops : PutLogin(op) <=> /\ SameSession(Active.auth, op.after.auth)
                                             /\ ~SameSession(op.before.auth, op.after.auth)
         /\ \A op \in ops : PutLogin(op)' <=> /\ SameSession(Active'.auth, op.after.auth)
                                              /\ ~SameSession(op.before.auth, op.after.auth)
<1>1. /\ SwitchTypeOK /\ SourcesFit /\ backend # "codex_auto" /\ backend' = backend
      /\ disk' \in Disks
  BY LatestFacts
<1>2. /\ Raw.source = (IF FileOnly(backend) THEN "file" ELSE "keyring")
      /\ \A op \in ops : op.prepared.source = Raw.source
  BY <1>1, OnePlace
<1>3. Active'.auth = IF FileOnly(backend) THEN disk'.file ELSE disk'.secure
  BY <1>1, PlaceAfter
<1>4. ASSUME NEW op \in ops PROVE Place(op.prepared.source)' = Active'.auth
  <2>1. op.prepared.source = IF FileOnly(backend) THEN "file" ELSE "keyring"
    BY <1>2
  <2>2. Place(op.prepared.source)' = IF op.prepared.source = "file" THEN disk'.file
                                     ELSE disk'.secure
    BY DEF Place
  <2> QED
    BY <1>3, <2>1, <2>2
<1> QED
  BY <1>1, <1>4, OnePlace DEF PutLogin

LEMMA SettledStays ==
  ASSUME SwitchTypeOK, HistoryStep, NEW c, Settled(c), UNCHANGED <<vault, nativeRev, applied>>,
         c # NoCred => oauth'.newest[c.sess] = oauth.newest[c.sess],
         \A a \in Accounts : BeingMarked(a) => BeingMarked(a)'
  PROVE  Settled(c)'
<1> SUFFICES ASSUME c # NoCred, ~Lost(c)'
             PROVE  /\ c = Newest(c.sess)'
                    /\ \A a \in Accounts : IsSaved(a)' /\ SameSession(vault[a].cred, c)' =>
                         Linked(a)' \/ BeingMarked(a)'
  BY DEF Settled
<1>1. ~Lost(c)
  BY LostStays
<1>2. c = Newest(c.sess) /\ c = Newest(c.sess)'
  BY <1>1 DEF Settled, Newest
<1>3. ASSUME NEW a \in Accounts, IsSaved(a)', SameSession(vault[a].cred, c)'
      PROVE  Linked(a)' \/ BeingMarked(a)'
  <2>1. IsSaved(a) /\ SameSession(vault[a].cred, c)
    BY <1>3 DEF IsSaved, SameSession
  <2>2. Linked(a) \/ BeingMarked(a)
    BY <1>1, <2>1 DEF Settled
  <2> QED
    BY <2>2 DEF Linked
<1> QED
  BY <1>2, <1>3

\* Of every step that leaves the vault, its marks and the login in the store alone.
LEMMA StoreStaysSettled ==
  ASSUME LatestStep, Active'.auth = Active.auth, oauth'.newest = oauth.newest,
         UNCHANGED <<vault, nativeRev, applied>>,
         \A a \in Accounts : BeingMarked(a) => BeingMarked(a)',
         \A op \in Underway : PutLogin(op) => op \in Underway' \/ Settled(Active.auth)
  PROVE  StoreIsSettled'
<1> DEFINE c == Active.auth
<1>0. PICK d \in AnyCred : d = Active.auth
  BY LatestFacts
<1>1. SwitchTypeOK /\ HistoryStep /\ ServedIsPending
  BY LatestFacts
<1>2. CASE Settled(d)
  <2>1. Settled(d)'
    BY <1>1, <1>2, SettledStays
  <2> QED
    BY <1>0, <2>1 DEF StoreIsSettled, Settled
<1>3. CASE ~Settled(d)
  <2>1. PICK op \in Underway : PutLogin(op)
    BY <1>0, <1>3, LatestFacts DEF StoreIsSettled
  <2>2. op \in Underway' /\ op \in ops
    BY <1>0, <1>1, <1>3, <2>1, UnderwayIs
  <2>3. PutLogin(op)'
    BY <2>1, <2>2, PutsAfter
  <2> QED
    BY <2>2, <2>3 DEF StoreIsSettled
<1> QED
  BY <1>2, <1>3

\* The client refreshes what the store has, or replaces it.
LEMMA ClientSettles ==
  ASSUME LatestStep, ClientStep
  PROVE  StoreIsSettled' /\ KeptInPlace'
<1>0. /\ SwitchTypeOK /\ SwitchTypeOK' /\ ServedIsPending /\ SourcesFit /\ OnlyIssued
      /\ PlacesFit /\ StoreIsSettled /\ KeptInPlace /\ backend # "codex_auto" /\ HistoryStep
  BY LatestFacts
<1>1. UNCHANGED <<backend, switch>> /\ UNCHANGED dbVars
      /\ (Stands \/ (\E c, d \in Creds : Refreshes(c, d)) \/ \E d \in Creds : Replaces(d))
  BY <1>0, ClientMoves
<1>2. /\ UNCHANGED <<vault, nativeRev, applied, switch, backend, ops>>
      /\ \A a \in Accounts : BeingMarked(a) <=> BeingMarked(a)'
      /\ \A a \in Accounts : Linked(a) <=> Linked(a)'
      /\ \A a \in Accounts : IsSaved(a) <=> IsSaved(a)'
      /\ Underway' = Underway
  BY <1>1 DEF dbVars, BeingMarked, Linked, IsSaved, At, Underway, Recovering, Op
<1>3. \A a \in Accounts : Promised(a)' => Promised(a)
  <2> SUFFICES ASSUME NEW a \in Accounts, Promised(a)' PROVE Promised(a)
    OBVIOUS
  <2>1. PICK x : x = vault[a].cred
    OBVIOUS
  <2>2. vault'[a].cred = x
    BY <1>2, <2>1
  <2>3. ~Lost(x)'
    BY <2>2 DEF Promised, Lost
  <2>4. ~Lost(x)
    BY <1>0, <2>3, LostStays
  <2> QED
    BY <1>2, <2>1, <2>4 DEF Promised
<1>4. CASE Stands
  <2>1. Active'.auth = Active.auth /\ oauth'.newest = oauth.newest
    BY <1>4 DEF Stands
  <2>2. StoreIsSettled'
    BY <1>2, <2>1, StoreStaysSettled
  <2>3. KeptInPlace'
    BY <1>2, <1>3, <2>1, <1>0 DEF KeptInPlace, Newest
  <2> QED
    BY <2>2, <2>3
<1>5. ASSUME NEW c \in Creds, NEW d \in Creds, Refreshes(c, d)
      PROVE  StoreIsSettled' /\ KeptInPlace'
  <2>1. /\ c = Active.auth /\ d = Active'.auth /\ d.sess = c.sess /\ d.gen = c.gen + 1
        /\ c.gen = oauth.newest[c.sess] /\ oauth'.newest[c.sess] = d.gen
        /\ \A s \in Sessions \ {c.sess} : oauth'.newest[s] = oauth.newest[s]
    BY <1>5 DEF Refreshes
  <2>2. c # NoCred /\ d # NoCred /\ SameSession(c, d) /\ c = Newest(c.sess)
        /\ d = Newest(d.sess)' /\ c.sess \in Sessions
    <3>1. c # NoCred /\ d # NoCred /\ c \in AnyCred /\ d \in AnyCred
      BY CredAssumption DEF AnyCred
    <3>2. c = [sess |-> c.sess, gen |-> c.gen] /\ d = [sess |-> d.sess, gen |-> d.gen]
          /\ c.sess \in Sessions
      BY <3>1, CredsAre
    <3> QED
      BY <2>1, <3>1, <3>2 DEF SameSession, Newest
  <2>3. \A x : SameSession(x, d) <=> SameSession(x, c)
    BY <2>2, <2>1 DEF SameSession
  <2>4. StoreIsSettled'
    <3>1. CASE Settled(c)
      <4>1. ASSUME ~Lost(d)', NEW a \in Accounts, IsSaved(a)', SameSession(vault[a].cred, d)'
            PROVE  Linked(a)' \/ BeingMarked(a)'
        <5>1. ~Lost(d)
          BY <1>0, <4>1, LostStays
        <5>2. ~Lost(c)
          BY <2>2, <5>1, SameLost
        <5>3. SameSession(vault[a].cred, d)
          BY <1>2, <4>1 DEF SameSession
        <5>4. SameSession(vault[a].cred, c) /\ IsSaved(a)
          BY <1>2, <2>3, <4>1, <5>3
        <5> QED
          BY <1>2, <2>2, <3>1, <5>2, <5>4 DEF Settled
      <4>2. Settled(d)'
        BY <2>2, <4>1 DEF Settled
      <4> QED
        BY <2>1, <4>2 DEF StoreIsSettled, Settled
    <3>2. CASE ~Settled(c)
      <4>1. PICK op \in Underway : PutLogin(op)
        BY <1>0, <2>1, <3>2 DEF StoreIsSettled
      <4>2. op \in ops /\ op \in Underway'
        BY <1>0, <1>2, <4>1, UnderwayIs
      <4>3. SameSession(c, op.after.auth) /\ ~SameSession(op.before.auth, op.after.auth)
        BY <2>1, <4>1, <4>2, PutsAfter
      <4>4. SameSession(d, op.after.auth)
        BY <2>1, <2>2, <4>3 DEF SameSession
      <4>5. PutLogin(op)'
        BY <2>1, <4>2, <4>3, <4>4, PutsAfter
      <4> QED
        BY <4>2, <4>5 DEF StoreIsSettled
    <3> QED
      BY <3>1, <3>2
  <2>5. ASSUME NEW a \in Accounts, Promised(a)'
        PROVE  Newest(vault[a].cred.sess)' \in {vault[a].cred, Active.auth}'
    <3>1. PICK x \in AnyCred : x = vault[a].cred
      BY <1>0, VaultReads
    <3>2. Newest(x.sess) \in {x, c} /\ x # NoCred
      BY <1>0, <1>3, <2>1, <2>5, <3>1 DEF KeptInPlace, Promised, IsSaved
    <3>3. x.sess \in Sessions
      BY <3>2, CredsAre
    <3>4. CASE x.sess = c.sess
      BY <1>2, <2>1, <2>2, <3>1, <3>4
    <3>5. CASE x.sess # c.sess
      <4>1. Newest(x.sess) = x
        BY <2>2, <3>2, <3>5 DEF Newest
      <4>2. Newest(x.sess)' = x
        BY <2>1, <3>3, <3>5, <4>1 DEF Newest
      <4> QED
        BY <1>2, <3>1, <4>2
    <3> QED
      BY <3>4, <3>5
  <2> QED
    BY <2>4, <2>5 DEF KeptInPlace
<1>6. ASSUME NEW d \in Creds, Replaces(d) PROVE StoreIsSettled' /\ KeptInPlace'
  <2>1. /\ d = Active'.auth /\ d.gen = 0 /\ d.sess \notin oauth.begun
        /\ oauth'.newest = oauth.newest /\ oauth.newest[d.sess] = 0
        /\ Active.auth # NoCred => Active.auth.sess \in history'.dropped
    BY <1>6 DEF Replaces
  <2>2. d # NoCred /\ d = Newest(d.sess)'
    <3>1. d # NoCred /\ d \in AnyCred
      BY CredAssumption DEF AnyCred
    <3>2. d = [sess |-> d.sess, gen |-> d.gen]
      BY <3>1, CredsAre
    <3> QED
      BY <2>1, <3>1, <3>2 DEF Newest
  <2>3. \A a \in Accounts : ~SameSession(vault[a].cred, d)'
    BY <1>0, <1>2, <2>1 DEF OnlyIssued, Issued, SameSession
  <2>4. Settled(d)'
    BY <2>2, <2>3 DEF Settled
  <2>5. StoreIsSettled'
    BY <2>1, <2>4 DEF StoreIsSettled, Settled
  <2>6. ASSUME NEW a \in Accounts, Promised(a)'
        PROVE  Newest(vault[a].cred.sess)' \in {vault[a].cred, Active.auth}'
    <3>1. PICK x \in AnyCred : x = vault[a].cred
      BY <1>0, VaultReads
    <3>2. Newest(x.sess) \in {x, Active.auth} /\ x # NoCred
      BY <1>0, <1>3, <2>6, <3>1 DEF KeptInPlace, Promised, IsSaved
    <3>3. x.sess \notin history'.dropped
      BY <1>2, <2>6, <3>1 DEF Promised, Lost
    <3>4. Newest(x.sess) # Active.auth \/ Active.auth = NoCred
      BY <2>1, <3>3 DEF Newest
    <3>5. Newest(x.sess) # NoCred
      <4>1. x.sess \in Sessions /\ oauth.newest[x.sess] \in 0 .. MaxGen
        BY <1>0, <3>2, CredsAre DEF SwitchTypeOK
      <4> QED
        BY <4>1, CredsAre DEF Newest
    <3>6. Newest(x.sess) = x
      BY <3>2, <3>4, <3>5
    <3> QED
      BY <1>2, <2>1, <3>1, <3>6 DEF Newest
  <2> QED
    BY <2>5, <2>6 DEF KeptInPlace
<1> QED
  BY <1>1, <1>4, <1>5, <1>6

\* What a step leaves alone when the daemon's part of the state stands still.
LEMMA ClientLeaves ==
  ASSUME LatestStep, ClientStep
  PROVE  /\ UNCHANGED <<vault, nativeRev, applied, baseline, switch, backend, ops>>
         /\ \A a \in Accounts : Linked(a) <=> Linked(a)'
         /\ \A a \in Accounts : IsSaved(a) <=> IsSaved(a)'
         /\ \A a \in Accounts : Promised(a)' => Promised(a)
         /\ \A a \in Accounts : BeingMarked(a) => BeingMarked(a)'
         /\ Op' = Op /\ (Applying' <=> Applying) /\ (Returning' <=> Returning)
         /\ (StillCurrent(Op) <=> StillCurrent(Op)')
<1>1. UNCHANGED <<backend, switch>> /\ UNCHANGED dbVars
  BY LatestFacts, ClientIs
<1>2. UNCHANGED <<vault, nativeRev, applied, baseline, switch, backend, ops>>
  BY <1>1 DEF dbVars
<1>3. \A a \in Accounts : Promised(a)' => Promised(a)
  <2> SUFFICES ASSUME NEW a \in Accounts, Promised(a)' PROVE Promised(a)
    OBVIOUS
  <2>1. PICK x : x = vault[a].cred
    OBVIOUS
  <2>2. vault'[a].cred = x
    BY <1>2, <2>1
  <2>3. ~Lost(x)'
    BY <2>2 DEF Promised, Lost
  <2>4. ~Lost(x)
    BY <2>3, LostStays, LatestFacts
  <2>5. IsSaved(a)
    BY <1>2 DEF Promised, IsSaved
  <2> QED
    BY <2>1, <2>4, <2>5 DEF Promised
<1>4. Op' = Op /\ (Applying' <=> Applying) /\ (Returning' <=> Returning)
  BY <1>2 DEF Op, Applying, Returning, At, Recovering
<1>5. StillCurrent(Op) <=> StillCurrent(Op)'
  BY <1>2, <1>4 DEF StillCurrent, IsSaved
<1> QED
  BY <1>2, <1>3, <1>4, <1>5 DEF Linked, IsSaved, BeingMarked, At

LEMMA ClientLeavesRows ==
  ASSUME LatestStep, ClientStep
  PROVE  BeforeIsSaved' /\ CaptureSaves'
<1>0. /\ SwitchTypeOK /\ HistoryStep /\ BeforeIsSaved /\ CaptureSaves
      /\ UNCHANGED <<vault, nativeRev, applied, baseline, switch, backend, ops>>
      /\ \A a \in Accounts : Linked(a) <=> Linked(a)'
      /\ \A a \in Accounts : IsSaved(a) <=> IsSaved(a)'
      /\ \A a \in Accounts : Promised(a)' => Promised(a)
  BY LatestFacts, ClientLeaves
<1>1. ASSUME NEW op \in ops, NEW a \in Accounts, Promised(a)',
             SameSession(vault[a].cred, op.before.auth)'
      PROVE  op.before.auth.gen <= vault'[a].cred.gen
  <2>1. Promised(a) /\ SameSession(vault[a].cred, op.before.auth)
    BY <1>0, <1>1 DEF SameSession
  <2>2. op.before.auth.gen <= vault[a].cred.gen
    BY <1>0, <2>1 DEF BeforeIsSaved
  <2> QED
    BY <1>0, <2>2
<1>2. ASSUME NEW op \in ops, SameSession(op.before.auth, op.after.auth),
             ~Lost(op.after.auth)'
      PROVE  op.before.auth = op.after.auth
  <2>1. ~Lost(op.after.auth)
    BY <1>0, <1>2, LostStays
  <2> QED
    BY <1>0, <1>2, <2>1 DEF BeforeIsSaved
<1>3. BeforeIsSaved'
  <2>1. ops' = ops
    BY <1>0
  <2> QED
    BY <1>1, <1>2, <2>1 DEF BeforeIsSaved, SameSession
<1>4. CaptureSaves'
  <2> SUFFICES ASSUME switch.pc \in Capturing, switch.to # "inspect" PROVE CaptureSaves'
    BY <1>0 DEF CaptureSaves
  <2>1. PICK c : c = switch.raw.auth
    OBVIOUS
  <2>2. switch'.raw.auth = c
    BY <1>0, <2>1
  <2>3. SameSession(baseline.snap.auth, c)' /\ baseline'.kept => baseline'.snap.auth = c
    BY <1>0, <2>1 DEF CaptureSaves, SameSession
  <2>4. ASSUME NEW a \in Accounts, IsSaved(a)', SameSession(vault[a].cred, c)', ~Lost(c)'
        PROVE  (\/ At("outgoing") /\ Linked(a)
                \/ At("native") /\ nativeRev[a] = vault[a].rev
                \/ ~At("outgoing") /\ vault[a].cred = c)'
    <3>1. IsSaved(a) /\ SameSession(vault[a].cred, c) /\ ~Lost(c)
      BY <1>0, <2>4, LostStays DEF SameSession
    <3>2. \/ At("outgoing") /\ Linked(a)
          \/ At("native") /\ nativeRev[a] = vault[a].rev
          \/ ~At("outgoing") /\ vault[a].cred = c
      BY <1>0, <2>1, <3>1 DEF CaptureSaves
    <3> QED
      BY <1>0, <3>2 DEF At
  <2> QED
    BY <2>2, <2>3, <2>4 DEF CaptureSaves, SameSession, Lost, AccountIn
<1> QED
  BY <1>3, <1>4

LEMMA ClientLeavesCapture ==
  ASSUME LatestStep, ClientStep
  PROVE  CaptureIsCurrent'
<1>0. /\ SwitchTypeOK /\ HistoryStep /\ OnlyIssued /\ CaptureIsCurrent
      /\ UNCHANGED <<vault, baseline, switch, ops>>
  BY LatestFacts, ClientLeaves
<1>1. SUFFICES ASSUME switch.pc \in Capturing PROVE CaptureIsCurrent'
  BY <1>0 DEF CaptureIsCurrent
<1>2. PICK c \in AnyCred : c = switch.raw.auth
  BY <1>0, SwitchReads
<1>3. switch'.raw.auth = c /\ Issued(c)
  BY <1>0, <1>1, <1>2 DEF OnlyIssued
<1>4. PICK x \in AnyCred : x = Active.auth
  BY LatestFacts
<1>5. PICK y \in AnyCred : y = Active'.auth
  BY LatestFacts
<1>6. /\ c # NoCred /\ ~Lost(c) =>
           /\ Newest(c.sess) \in {c, x}
           /\ \A op \in ops : SameSession(op.before.auth, c) => op.before.auth.gen <= c.gen
      /\ c # NoCred => x # NoCred
      /\ x \notin {c, NoCred} =>
           /\ baseline.snap.auth # x
           /\ \A a \in Accounts : vault[a].cred # x
  BY <1>0, <1>1, <1>2, <1>4 DEF CaptureIsCurrent
<1>7. Stands \/ (\E e, d \in Creds : Refreshes(e, d)) \/ \E d \in Creds : Replaces(d)
  BY LatestFacts, ClientMoves
<1>8. /\ c # NoCred /\ ~Lost(c)' => Newest(c.sess)' \in {c, y}
      /\ c # NoCred => y # NoCred
      /\ y \notin {c, NoCred} => /\ baseline.snap.auth # y
                                 /\ \A a \in Accounts : vault[a].cred # y
  <2>1. CASE Stands
    <3>1. x = y /\ oauth'.newest = oauth.newest
      BY <2>1, <1>4, <1>5 DEF Stands
    <3>2. ~Lost(c)' => ~Lost(c)
      BY <1>0, LostStays
    <3> QED
      BY <1>6, <3>1, <3>2 DEF Newest
  <2>2. ASSUME NEW e \in Creds, NEW d \in Creds, Refreshes(e, d) PROVE <1>8!:
    <3>1. /\ x = e /\ y = d /\ d.sess = e.sess /\ d.gen = e.gen + 1
          /\ e.gen = oauth.newest[e.sess] /\ oauth'.newest[e.sess] = d.gen
          /\ \A s \in Sessions \ {e.sess} : oauth'.newest[s] = oauth.newest[s]
      BY <2>2, <1>4, <1>5 DEF Refreshes
    <3>2. y # NoCred /\ y.sess \in Sessions /\ y.gen \in Nat /\ e.gen \in Nat
          /\ d = [sess |-> d.sess, gen |-> d.gen] /\ e = [sess |-> e.sess, gen |-> e.gen]
      BY <3>1, CredAssumption DEF Creds
    <3>3. \A z : z # NoCred /\ Issued(z) => z # y
      BY <3>1, <3>2 DEF Issued
    <3>4. /\ baseline.snap.auth # y
          /\ \A a \in Accounts : vault[a].cred # y
      BY <1>0, <3>2, <3>3 DEF OnlyIssued
    <3>5. ASSUME c # NoCred, ~Lost(c)' PROVE Newest(c.sess)' \in {c, y}
      <4>1. Newest(c.sess) \in {c, x} /\ c.sess \in Sessions
        BY <1>0, <1>6, <3>5, LostStays, CredsAre
      <4>2. CASE c.sess = e.sess
        <5>1. Newest(c.sess)' = y
          BY <3>1, <3>2, <4>2 DEF Newest
        <5> QED
          BY <5>1
      <4>3. CASE c.sess # e.sess
        <5>1. Newest(c.sess) = c
          BY <3>1, <3>2, <4>1, <4>3 DEF Newest
        <5>2. Newest(c.sess)' = c
          BY <3>1, <4>1, <4>3, <5>1 DEF Newest
        <5> QED
          BY <5>2
      <4> QED
        BY <4>2, <4>3
    <3> QED
      BY <3>2, <3>4, <3>5
  <2>3. ASSUME NEW d \in Creds, Replaces(d) PROVE <1>8!:
    <3>1. /\ y = d /\ d.gen = 0 /\ d.sess \notin oauth.begun
          /\ oauth'.newest = oauth.newest
          /\ x # NoCred => x.sess \in history'.dropped
      BY <2>3, <1>4, <1>5 DEF Replaces
    <3>2. y # NoCred /\ \A z : z # NoCred /\ Issued(z) => z # y
      BY <3>1, CredAssumption DEF Issued
    <3>3. /\ baseline.snap.auth # y
          /\ \A a \in Accounts : vault[a].cred # y
      BY <1>0, <3>2 DEF OnlyIssued
    <3>4. ASSUME c # NoCred, ~Lost(c)' PROVE Newest(c.sess)' \in {c, y}
      <4>1. Newest(c.sess) \in {c, x} /\ x # NoCred
        BY <1>0, <1>6, <3>4, LostStays
      <4>2. c.sess \notin history'.dropped
        BY <3>4 DEF Lost
      <4>3. Newest(c.sess) # x
        BY <3>1, <4>1, <4>2 DEF Newest
      <4> QED
        BY <3>1, <4>1, <4>3 DEF Newest
    <3> QED
      BY <3>2, <3>3, <3>4
  <2> QED
    BY <1>7, <2>1, <2>2, <2>3
<1>9. ASSUME c # NoCred, ~Lost(c)', NEW op \in ops, SameSession(op.before.auth, c)
      PROVE  op.before.auth.gen <= c.gen
  BY <1>0, <1>6, <1>9, LostStays
<1> QED
  BY <1>0, <1>3, <1>5, <1>8, <1>9 DEF CaptureIsCurrent, SameSession, Lost, AccountIn, Newest

LEMMA ClientLeavesSwitch ==
  ASSUME LatestStep, ClientStep
  PROVE  AppliedIsCurrent' /\ RollbackIsSettled'
<1>0. /\ SwitchTypeOK /\ HistoryStep /\ OnlyIssued /\ ServedIsPending
      /\ AppliedIsCurrent /\ RollbackIsSettled
      /\ UNCHANGED <<vault, nativeRev, applied, switch>>
      /\ Op' = Op /\ (Applying' <=> Applying) /\ (Returning' <=> Returning)
      /\ (StillCurrent(Op) <=> StillCurrent(Op)')
      /\ \A a \in Accounts : BeingMarked(a) => BeingMarked(a)'
  BY LatestFacts, ClientLeaves
<1>1. PICK b \in AnyCred, f \in AnyCred : b = Op.before.auth /\ f = Op.after.auth
  BY <1>0, SwitchReads
<1>2. Op'.before.auth = b /\ Op'.after.auth = f
  BY <1>0, <1>1
<1>3. PICK x \in AnyCred : x = Active.auth
  BY LatestFacts
<1>4. PICK y \in AnyCred : y = Active'.auth
  BY LatestFacts
<1>5. Stands \/ (\E e, d \in Creds : Refreshes(e, d)) \/ \E d \in Creds : Replaces(d)
  BY LatestFacts, ClientMoves
<1>6. Applying \/ Returning => Issued(b) /\ Issued(f)
  <2>1. Applying \/ Returning => Op \in ops
    BY <1>0 DEF Applying, Returning, ServedIsPending, Serving, Writing
  <2> QED
    BY <1>0, <1>1, <2>1 DEF OnlyIssued, SnapshotsIssued
<1>7. AppliedIsCurrent'
  <2>1. (Applying \/ (At("auth") /\ ~switch.back))' => StillCurrent(Op)'
    BY <1>0 DEF AppliedIsCurrent, At
  <2>2. ASSUME Applying
        PROVE  /\ \/ y = NoCred \/ SameSession(y, f)
                  \/ \A a \in Accounts : ~SameSession(vault[a].cred, y)
               /\ Op.to \in Accounts /\ SameSession(y, f) /\ ~Lost(f)' => y = Newest(y.sess)'
    <3>1. /\ \/ x = NoCred \/ SameSession(x, f)
             \/ \A a \in Accounts : ~SameSession(vault[a].cred, x)
          /\ Op.to \in Accounts /\ SameSession(x, f) /\ ~Lost(f) => x = Newest(x.sess)
      BY <1>0, <1>1, <1>3, <2>2 DEF AppliedIsCurrent
    <3>2. ~Lost(f)' => ~Lost(f)
      BY <1>0, LostStays
    <3>3. CASE Stands
      <4>1. x = y /\ oauth'.newest = oauth.newest
        BY <1>3, <1>4, <3>3 DEF Stands
      <4> QED
        BY <3>1, <3>2, <4>1 DEF Newest
    <3>4. ASSUME NEW e \in Creds, NEW d \in Creds, Refreshes(e, d) PROVE <2>2!2
      <4>1. /\ x = e /\ y = d /\ d.sess = e.sess
            /\ oauth'.newest[d.sess] = d.gen
        BY <3>4, <1>3, <1>4 DEF Refreshes
      <4>2. x # NoCred /\ y # NoCred /\ d = [sess |-> d.sess, gen |-> d.gen]
        BY <4>1, CredAssumption DEF Creds
      <4>3. \A z : /\ SameSession(z, y) <=> SameSession(z, x)
                   /\ SameSession(y, z) <=> SameSession(x, z)
        BY <4>1, <4>2 DEF SameSession
      <4>4. y = Newest(y.sess)'
        BY <4>1, <4>2 DEF Newest
      <4> QED
        BY <3>1, <4>2, <4>3, <4>4
    <3>5. ASSUME NEW d \in Creds, Replaces(d) PROVE <2>2!2
      <4>1. y = d /\ d.sess \notin oauth.begun
        BY <3>5, <1>4 DEF Replaces
      <4>2. ~SameSession(y, f)
        BY <1>6, <2>2, <4>1 DEF SameSession, Issued
      <4>3. \A a \in Accounts : ~SameSession(vault[a].cred, y)
        BY <1>0, <4>1 DEF SameSession, OnlyIssued, Issued
      <4> QED
        BY <4>2, <4>3
    <3> QED
      BY <1>5, <3>3, <3>4, <3>5
  <2> QED
    BY <1>0, <1>2, <1>4, <2>1, <2>2 DEF AppliedIsCurrent, SameSession, Lost, AccountIn, Newest
<1>8. ASSUME Returning, y \in {b, f} PROVE Settled(b)'
  <2>1. x = y /\ oauth'.newest = oauth.newest
    <3>1. CASE Stands
      BY <1>3, <1>4, <3>1 DEF Stands
    <3>2. ASSUME NEW e \in Creds, NEW d \in Creds, Refreshes(e, d) PROVE FALSE
      <4>1. y = d /\ d.sess = e.sess /\ d.gen = e.gen + 1 /\ e.gen = oauth.newest[e.sess]
        BY <3>2, <1>4 DEF Refreshes
      <4>2. y # NoCred /\ e.gen \in Nat /\ ~(d.gen <= oauth.newest[d.sess])
        BY <4>1, CredAssumption DEF Creds
      <4> QED
        BY <1>6, <1>8, <4>1, <4>2 DEF Issued
    <3>3. ASSUME NEW d \in Creds, Replaces(d) PROVE FALSE
      <4>1. y = d /\ d.sess \notin oauth.begun /\ y # NoCred
        BY <3>3, <1>4, CredAssumption DEF Replaces
      <4> QED
        BY <1>6, <1>8, <4>1 DEF Issued
    <3> QED
      BY <1>5, <3>1, <3>2, <3>3
  <2>2. Settled(b)
    <3>1. Active.auth \in {Op.before.auth, Op.after.auth} => Settled(Op.before.auth)
      BY <1>0, <1>8 DEF RollbackIsSettled
    <3> QED
      BY <1>1, <1>3, <1>8, <2>1, <3>1
  <2> QED
    BY <1>0, <2>1, <2>2, SettledStays
<1>9. ASSUME Returning, NEW a \in Accounts, SameSession(vault[a].cred, f)'
      PROVE  vault'[a].cred = f
  <2>1. SameSession(vault[a].cred, f)
    BY <1>0, <1>9 DEF SameSession
  <2>2. vault[a].cred = f
    BY <1>0, <1>1, <1>9, <2>1 DEF RollbackIsSettled
  <2> QED
    BY <1>0, <2>2
<1>10. (At("auth") => switch.raw.auth \in {Op.before.auth, Op.after.auth})'
  BY <1>0 DEF RollbackIsSettled, At
<1>11. RollbackIsSettled'
  <2>1. Returning' => /\ Active'.auth \in {Op'.before.auth, Op'.after.auth} => Settled(b)'
                      /\ \A a \in Accounts : SameSession(vault[a].cred, f)' => vault'[a].cred = f
    BY <1>0, <1>2, <1>4, <1>8, <1>9
  <2>2. Settled(b)' => Settled(Op.before.auth)'
    BY <1>2 DEF Settled
  <2> QED
    BY <1>2, <1>10, <2>1, <2>2 DEF RollbackIsSettled, SameSession
<1> QED
  BY <1>7, <1>11

LEMMA LatestClient ==
  ASSUME LatestStep, ClientStep
  PROVE  LatestParts'
BY ClientSettles, ClientLeavesRows, ClientLeavesCapture, ClientLeavesSwitch DEF LatestParts

\* Whenever no operation is served, what the store has is settled.
LEMMA RestingSettled ==
  ASSUME LatestStep, switch.pc \in {"idle", "inspect", "undone"} \cup Capturing
  PROVE  Underway = {} /\ ~Recovering /\ Settled(Active.auth)
<1>1. ~Recovering
  BY LatestFacts DEF ServedIsPending, Serving, Writing, Capturing
<1>2. Underway = {}
  BY <1>1 DEF Underway, Serving, Writing, Capturing
<1> QED
  BY <1>1, <1>2, LatestFacts DEF StoreIsSettled

\* A step that leaves the store and the server alone, and the vault but for one account.
LEMMA RowsStay ==
  ASSUME LatestStep, ops' \subseteq ops, UNCHANGED vault
  PROVE  BeforeIsSaved'
<1>0. SwitchTypeOK /\ HistoryStep /\ BeforeIsSaved
  BY LatestFacts
<1>1. ASSUME NEW op \in ops, NEW a \in Accounts, Promised(a)',
             SameSession(vault[a].cred, op.before.auth)'
      PROVE  op.before.auth.gen <= vault'[a].cred.gen
  <2>1. PICK x : x = vault[a].cred
    OBVIOUS
  <2>2. vault'[a].cred = x
    BY <2>1
  <2>3. ~Lost(x)' /\ x # NoCred
    BY <1>1, <2>2 DEF Promised, IsSaved, Lost
  <2>4. Promised(a) /\ SameSession(vault[a].cred, op.before.auth)
    BY <1>0, <1>1, <2>1, <2>3, LostStays DEF Promised, IsSaved, SameSession
  <2> QED
    BY <1>0, <2>4 DEF BeforeIsSaved
<1>2. ASSUME NEW op \in ops, SameSession(op.before.auth, op.after.auth),
             ~Lost(op.after.auth)'
      PROVE  op.before.auth = op.after.auth
  <2>1. ~Lost(op.after.auth)
    BY <1>0, <1>2, LostStays
  <2> QED
    BY <1>0, <1>2, <2>1 DEF BeforeIsSaved
<1>3. \A op \in ops' : op \in ops
  OBVIOUS
<1> QED
  BY <1>1, <1>2, <1>3 DEF BeforeIsSaved, SameSession

LEMMA KeptStays ==
  ASSUME LatestStep, UNCHANGED vault, Active'.auth = Active.auth, oauth'.newest = oauth.newest
  PROVE  KeptInPlace'
<1>0. SwitchTypeOK /\ HistoryStep /\ KeptInPlace
  BY LatestFacts
<1>1. ASSUME NEW a \in Accounts, Promised(a)'
      PROVE  (Newest(vault[a].cred.sess) \in {vault[a].cred, Active.auth})'
  <2>1. PICK x : x = vault[a].cred
    OBVIOUS
  <2>2. vault'[a].cred = x
    BY <2>1
  <2>3. ~Lost(x)' /\ x # NoCred
    BY <1>1, <2>2 DEF Promised, IsSaved, Lost
  <2>4. Promised(a)
    BY <1>0, <1>1, <2>1, <2>3, LostStays DEF Promised, IsSaved
  <2>5. Newest(vault[a].cred.sess) \in {vault[a].cred, Active.auth}
    BY <1>0, <2>4 DEF KeptInPlace
  <2> QED
    BY <2>5 DEF Newest
<1> QED
  BY <1>1 DEF KeptInPlace

\* One account's credential is replaced by one that is as new as any.
LEMMA SavedIsKept ==
  ASSUME LatestStep, Active'.auth = Active.auth, oauth'.newest = oauth.newest,
         ops' \subseteq ops,
         NEW a \in Accounts, NEW c \in AnyCred, vault'[a].cred = c,
         \A b \in Accounts \ {a} : vault'[b] = vault[b],
         c # NoCred /\ ~Lost(c)' =>
            /\ Newest(c.sess) \in {c, Active.auth}
            /\ \A op \in ops : SameSession(op.before.auth, c) => op.before.auth.gen <= c.gen
  PROVE  KeptInPlace' /\ BeforeIsSaved'
<1>0. SwitchTypeOK /\ HistoryStep /\ KeptInPlace /\ BeforeIsSaved
  BY LatestFacts
<1>1. ASSUME NEW b \in Accounts, b # a, Promised(b)' PROVE Promised(b) /\ vault'[b] = vault[b]
  <2>1. PICK x : x = vault[b].cred
    OBVIOUS
  <2>2. vault'[b].cred = x /\ vault'[b] = vault[b]
    BY <1>1, <2>1
  <2>3. ~Lost(x)' /\ x # NoCred
    BY <1>1, <2>2 DEF Promised, IsSaved, Lost
  <2>4. ~Lost(x)
    BY <1>0, <2>3, LostStays
  <2> QED
    BY <2>1, <2>2, <2>3, <2>4 DEF Promised, IsSaved
<1>2. ASSUME Promised(a)'
      PROVE  /\ Newest(c.sess) \in {c, Active.auth} /\ c # NoCred
             /\ \A op \in ops : SameSession(op.before.auth, c) => op.before.auth.gen <= c.gen
  <2>1. c # NoCred /\ ~Lost(c)'
    BY <1>2 DEF Promised, IsSaved, Lost
  <2> QED
    BY <2>1
<1>3. ASSUME NEW b \in Accounts, Promised(b)'
      PROVE  (Newest(vault[b].cred.sess) \in {vault[b].cred, Active.auth})'
  <2>1. CASE b = a
    BY <1>2, <1>3, <2>1 DEF Newest
  <2>2. CASE b # a
    <3>1. Newest(vault[b].cred.sess) \in {vault[b].cred, Active.auth} /\ vault'[b] = vault[b]
      BY <1>0, <1>1, <1>3, <2>2 DEF KeptInPlace
    <3> QED
      BY <3>1 DEF Newest
  <2> QED
    BY <2>1, <2>2
<1>4. ASSUME NEW op \in ops, NEW b \in Accounts, Promised(b)',
             SameSession(vault[b].cred, op.before.auth)'
      PROVE  op.before.auth.gen <= vault'[b].cred.gen
  <2>1. CASE b = a
    BY <1>2, <1>4, <2>1 DEF SameSession
  <2>2. CASE b # a
    <3>1. Promised(b) /\ vault'[b] = vault[b] /\ SameSession(vault[b].cred, op.before.auth)
      BY <1>1, <1>4, <2>2 DEF SameSession
    <3> QED
      BY <1>0, <3>1 DEF BeforeIsSaved
  <2> QED
    BY <2>1, <2>2
<1>5. ASSUME NEW op \in ops, SameSession(op.before.auth, op.after.auth),
             ~Lost(op.after.auth)'
      PROVE  op.before.auth = op.after.auth
  <2>1. ~Lost(op.after.auth)
    BY <1>0, <1>5, LostStays
  <2> QED
    BY <1>0, <1>5, <2>1 DEF BeforeIsSaved
<1>6. \A op \in ops' : op \in ops
  OBVIOUS
<1> QED
  BY <1>3, <1>4, <1>5, <1>6 DEF KeptInPlace, BeforeIsSaved, SameSession

LEMMA StoreAlone ==
  ASSUME SwitchTypeOK, UNCHANGED <<backend, disk>>
  PROVE  Active'.auth = Active.auth /\ Raw' = Raw
BY StoreStays

\* A login by hand, a removal, a switch without accounts.
LEMMA LatestVault ==
  ASSUME LatestStep, VaultStep
  PROVE  LatestParts'
<1>0. SwitchTypeOK /\ HistoryStep /\ OnlyIssued /\ ServedIsPending /\ CaptureIsCurrent
  BY LatestFacts
<1>1. At("idle") /\ UNCHANGED <<backend, disk, switch, ops, applied, baseline>>
  BY <1>0, VaultStepIs
<1>2. Active'.auth = Active.auth
  BY <1>0, <1>1, StoreAlone
<1>3. /\ Underway = {} /\ ~Recovering /\ Settled(Active.auth)
  BY <1>1, RestingSettled DEF At
<1>4. PICK x \in AnyCred : x = Active.auth
  BY LatestFacts
<1>5. Settled(x) /\ x = Active'.auth /\ Issued(x)
  <2>1. x \in {disk.file, disk.secure}
    BY <1>0, <1>4, StoreReads
  <2> QED
    BY <1>0, <1>2, <1>3, <1>4, <2>1 DEF OnlyIssued
<1>6. /\ CaptureIsCurrent' /\ CaptureSaves' /\ AppliedIsCurrent' /\ RollbackIsSettled'
  <2>1. switch'.pc = "idle"
    BY <1>1 DEF At
  <2> QED
    BY <2>1 DEF CaptureIsCurrent, CaptureSaves, AppliedIsCurrent, RollbackIsSettled, Applying,
                Returning, Capturing, Serving, Writing, At
<1>7. ~BeingMarked(x) /\ \A a : ~BeingMarked(a)
  BY <1>1 DEF BeingMarked, At
<1>8. ASSUME NEW s \in Sessions, s \notin oauth.begun,
             oauth' = [oauth EXCEPT !.begun = @ \cup {s}],
             Store(AccountOf[s], [sess |-> s, gen |-> 0]), nativeRev' = nativeRev
      PROVE  StoreIsSettled' /\ KeptInPlace' /\ BeforeIsSaved'
  <2> DEFINE c == [sess |-> s, gen |-> 0]
             o == AccountOf[s]
  <2>1. c \in AnyCred /\ c # NoCred /\ o \in Accounts /\ c.sess = s /\ c.gen = 0
    BY CredsAre, GenAssumption DEF Accounts
  <2>2. oauth'.newest = oauth.newest /\ oauth.newest[s] = 0
    BY <1>0, <1>8 DEF SwitchTypeOK, OnlyIssued
  <2>3. vault'[o].cred = c /\ \A b \in Accounts \ {o} : vault'[b] = vault[b]
    BY <1>0, <1>8, <2>1, StoreIs
  <2>4. \A op \in ops : ~SameSession(op.before.auth, c)
    BY <1>0, <1>8, <2>1 DEF OnlyIssued, SnapshotsIssued, Issued, SameSession
  <2>5. Newest(c.sess) = c
    BY <2>1, <2>2 DEF Newest
  <2>6. KeptInPlace' /\ BeforeIsSaved'
    <3> HIDE DEF c, o
    <3>1. ops' \subseteq ops
      BY <1>1
    <3> QED
      BY <1>2, <2>1, <2>2, <2>3, <2>4, <2>5, <3>1, SavedIsKept
  <2>7. ~SameSession(c, x)
    BY <1>5, <1>8, <2>1 DEF Issued, SameSession
  <2> HIDE DEF c, o
  <2>8. Settled(x)'
    <3> SUFFICES ASSUME x # NoCred, ~Lost(x)'
                 PROVE  /\ x = Newest(x.sess)'
                        /\ \A a \in Accounts : IsSaved(a)' /\ SameSession(vault[a].cred, x)' =>
                             Linked(a)' \/ BeingMarked(a)'
      BY DEF Settled
    <3>1. ~Lost(x)
      BY <1>0, LostStays
    <3>2. x = Newest(x.sess)'
      BY <1>5, <2>2, <3>1 DEF Settled, Newest
    <3>3. ASSUME NEW a \in Accounts, IsSaved(a)', SameSession(vault[a].cred, x)'
          PROVE  Linked(a)'
      <4>1. a # o
        BY <2>3, <2>7, <3>3 DEF SameSession
      <4>2. vault'[a] = vault[a]
        BY <2>3, <4>1
      <4>3. IsSaved(a) /\ SameSession(vault[a].cred, x)
        BY <3>3, <4>2 DEF IsSaved, SameSession
      <4>4. Linked(a)
        BY <1>5, <1>7, <3>1, <4>3 DEF Settled
      <4> QED
        BY <1>1, <1>8, <4>2, <4>4 DEF Linked
    <3> QED
      BY <3>2, <3>3
  <2> QED
    BY <1>5, <2>6, <2>8 DEF StoreIsSettled, Settled
<1>9. ASSUME NEW o \in Accounts, oauth' = oauth, vault' = [vault EXCEPT ![o].cred = NoCred],
             nativeRev' = [nativeRev EXCEPT ![o] = 0]
      PROVE  StoreIsSettled' /\ KeptInPlace' /\ BeforeIsSaved'
  <2>1. /\ vault'[o].cred = NoCred /\ NoCred \in AnyCred
        /\ \A b \in Accounts \ {o} : vault'[b] = vault[b] /\ nativeRev'[b] = nativeRev[b]
    BY <1>0, <1>9, CredsAre DEF SwitchTypeOK
  <2>2. KeptInPlace' /\ BeforeIsSaved'
    <3>1. ops' \subseteq ops /\ oauth'.newest = oauth.newest
      BY <1>1, <1>9
    <3> QED
      BY <1>2, <2>1, <3>1, SavedIsKept
  <2>3. Settled(x)'
    <3> SUFFICES ASSUME x # NoCred, ~Lost(x)'
                 PROVE  /\ x = Newest(x.sess)'
                        /\ \A a \in Accounts : IsSaved(a)' /\ SameSession(vault[a].cred, x)' =>
                             Linked(a)' \/ BeingMarked(a)'
      BY DEF Settled
    <3>1. ~Lost(x)
      BY <1>0, LostStays
    <3>2. x = Newest(x.sess)'
      BY <1>5, <1>9, <3>1 DEF Settled, Newest
    <3>3. ASSUME NEW a \in Accounts, IsSaved(a)', SameSession(vault[a].cred, x)'
          PROVE  Linked(a)'
      <4>1. a # o
        BY <2>1, <3>3 DEF IsSaved
      <4>2. vault'[a] = vault[a] /\ nativeRev'[a] = nativeRev[a]
        BY <2>1, <4>1
      <4>3. IsSaved(a) /\ SameSession(vault[a].cred, x)
        BY <3>3, <4>2 DEF IsSaved, SameSession
      <4>4. Linked(a)
        BY <1>5, <1>7, <3>1, <4>3 DEF Settled
      <4> QED
        BY <1>1, <4>2, <4>4 DEF Linked
    <3> QED
      BY <3>2, <3>3
  <2> QED
    BY <1>5, <2>2, <2>3 DEF StoreIsSettled, Settled
<1>10. CASE UNCHANGED <<oauth, vault, nativeRev, removed>>
  <2>1. StoreIsSettled'
    BY <1>1, <1>2, <1>3, <1>7, <1>10, StoreStaysSettled
  <2> QED
    BY <1>1, <1>2, <1>6, <1>10, <2>1, RowsStay, KeptStays DEF LatestParts
<1> QED
  BY <1>0, <1>6, <1>8, <1>9, <1>10, VaultStepIs DEF LatestParts

\* A snapshot of one login is filed under the account of its tokens.
LEMMA FilesAs ==
  ASSUME NEW snap \in AnySnapshot, Proper(snap), snap.auth # NoCred
  PROVE  Identity(backend, snap) = AccountIn(snap.auth) /\ AccountIn(snap.auth) \in Accounts
<1>1. snap.auth \in AnyCred
  BY DEF AnySnapshot
<1> QED
  BY <1>1, CredsAre DEF Proper, OneLogin, Identity

\* A switch starts with what the store has, which the baseline follows.
LEMMA BeginReads ==
  ASSUME SwitchTypeOK, BeginStep, switch'.pc \in Capturing, switch'.to # "inspect"
  PROVE  /\ switch'.pc = "outgoing"
         /\ baseline' = IF /\ baseline.kept /\ Identity(backend, Active) # NoAccount
                           /\ Identity(backend, baseline.snap) = Identity(backend, Active)
                        THEN [baseline EXCEPT !.snap = Active] ELSE baseline
<1>1. ASSUME NEW to, Capture(to)
      PROVE  /\ switch'.pc = "outgoing" /\ switch'.to = to
             /\ baseline' = IF /\ baseline.kept /\ Identity(backend, Active) # NoAccount
                               /\ Identity(backend, baseline.snap) = Identity(backend, Active)
                            THEN [baseline EXCEPT !.snap = Active] ELSE baseline
  <2>1. switch' = [Idle EXCEPT !.pc = "outgoing", !.to = to, !.raw = Raw]
    BY <1>1 DEF Capture
  <2>2. switch'.pc = "outgoing" /\ switch'.to = to
    BY <2>1 DEF Idle
  <2> QED
    BY <1>1, <2>2 DEF Capture
<1>2. \A to : BeginSwitch(to) => Capture(to)
  BY DEF BeginSwitch
<1>3. CASE BeginInspection
  <2>1. Capture("inspect") \/ switch' = [Idle EXCEPT !.pc = "native", !.to = "inspect", !.raw = Raw]
        \/ switch' = Idle
    BY <1>3 DEF BeginInspection
  <2>2. switch' = [Idle EXCEPT !.pc = "native", !.to = "inspect", !.raw = Raw]
          => switch'.to = "inspect"
    BY DEF Idle
  <2>3. switch' = Idle => switch'.pc \notin Capturing
    BY IdleIs DEF Capturing
  <2>4. Capture("inspect") => switch'.to = "inspect"
    BY <1>1
  <2> QED
    BY <2>1, <2>2, <2>3, <2>4
<1> QED
  BY <1>1, <1>2, <1>3 DEF BeginStep

LEMMA LatestBegin ==
  ASSUME LatestStep, BeginStep
  PROVE  LatestParts'
<1>0. SwitchTypeOK /\ HistoryStep /\ OnlyIssued /\ ServedIsPending /\ WholeParts
  BY LatestFacts
<1>1. /\ switch.pc \in {"idle", "inspect"}
      /\ UNCHANGED <<backend, disk, oauth, vault, nativeRev, removed, applied, active,
                     selector, ops>>
      /\ switch'.pc \in {"outgoing", "native"} => switch'.raw = Raw
      /\ switch'.pc \in {"outgoing", "native", "idle"}
  BY <1>0, BeginIs
<1>2. Active'.auth = Active.auth /\ Active.auth = Raw.auth /\ Active \in AnySnapshot
  BY <1>0, <1>1, StoreAlone, StoreReads
<1>3. /\ Underway = {} /\ ~Recovering /\ Settled(Active.auth)
  BY <1>1, RestingSettled
<1>4. \A a : ~BeingMarked(a)
  BY <1>1 DEF BeingMarked, At
<1>5. PICK x \in AnyCred : x = Active.auth
  BY LatestFacts
<1>6. Settled(x) /\ x = Active'.auth
  BY <1>2, <1>3, <1>5
<1>7. StoreIsSettled' /\ KeptInPlace' /\ BeforeIsSaved'
  BY <1>1, <1>2, <1>3, <1>4, StoreStaysSettled, KeptStays, RowsStay
<1>8. AppliedIsCurrent' /\ RollbackIsSettled'
  BY <1>1 DEF AppliedIsCurrent, RollbackIsSettled, Applying, Returning, Serving, Writing, At
<1>9. CaptureIsCurrent'
  <2> SUFFICES ASSUME switch'.pc \in Capturing PROVE CaptureIsCurrent'
    BY DEF CaptureIsCurrent
  <2>1. switch'.raw.auth = x
    BY <1>1, <1>2, <1>5 DEF Capturing
  <2>2. ASSUME x # NoCred, ~Lost(x)'
        PROVE  /\ Newest(x.sess)' = x
               /\ \A op \in ops : SameSession(op.before.auth, x) => op.before.auth.gen <= x.gen
    <3>1. x = Newest(x.sess) /\ ~Lost(x)
      BY <1>0, <1>6, <2>2, LostStays DEF Settled
    <3>2. x.gen = oauth.newest[x.sess]
      BY <3>1 DEF Newest
    <3>3. \A op \in ops : SameSession(op.before.auth, x) => op.before.auth.gen <= x.gen
      BY <1>0, <3>2 DEF OnlyIssued, SnapshotsIssued, Issued, SameSession
    <3> QED
      BY <1>1, <3>1, <3>3 DEF Newest
  <2> QED
    BY <1>1, <1>6, <2>1, <2>2 DEF CaptureIsCurrent, SameSession, Lost, AccountIn
<1>10. CaptureSaves'
  <2> SUFFICES ASSUME switch'.pc \in Capturing, switch'.to # "inspect" PROVE CaptureSaves'
    BY DEF CaptureSaves
  <2>1. /\ switch'.pc = "outgoing" /\ switch'.raw.auth = x
        /\ baseline' = IF /\ baseline.kept /\ Identity(backend, Active) # NoAccount
                          /\ Identity(backend, baseline.snap) = Identity(backend, Active)
                       THEN [baseline EXCEPT !.snap = Active] ELSE baseline
    BY <1>0, <1>1, <1>2, <1>5, BeginReads
  <2>2. Proper(Active) /\ Proper(baseline.snap) /\ baseline \in Baselines
    <3>1. ~Mixed
      BY <1>0, <1>1 DEF WholeParts, MixedIsUnderway
    <3> QED
      BY <1>0, <3>1, RestingIsWhole DEF WholeParts, SwitchTypeOK
  <2>3. ASSUME SameSession(baseline'.snap.auth, x), baseline'.kept PROVE baseline'.snap.auth = x
    <3>1. CASE baseline' = [baseline EXCEPT !.snap = Active]
      BY <1>5, <2>2, <3>1 DEF Baselines
    <3>2. CASE baseline' = baseline /\ baseline' # [baseline EXCEPT !.snap = Active]
      <4>1. SameSession(baseline.snap.auth, x) /\ baseline.kept /\ baseline.snap \in AnySnapshot
        BY <2>2, <2>3, <3>2 DEF Baselines
      <4>2. baseline.snap.auth # NoCred /\ x # NoCred
            /\ AccountIn(baseline.snap.auth) = AccountIn(x)
        BY <4>1, SameLost DEF SameSession
      <4>3. /\ Identity(backend, Active) = AccountIn(x) /\ AccountIn(x) \in Accounts
            /\ Identity(backend, baseline.snap) = AccountIn(x)
        BY <1>2, <1>5, <2>2, <4>1, <4>2, FilesAs
      <4>4. AccountIn(x) # NoAccount
        BY <4>3, AccountsAssumption
      <4> QED
        BY <2>1, <3>2, <4>1, <4>3, <4>4
    <3> QED
      BY <2>1, <3>1, <3>2
  <2>4. ASSUME NEW a \in Accounts, IsSaved(a)', SameSession(vault[a].cred, x)', ~Lost(x)'
        PROVE  Linked(a)'
    <3>1. IsSaved(a) /\ SameSession(vault[a].cred, x) /\ ~Lost(x) /\ x # NoCred
      BY <1>0, <1>1, <2>4, LostStays DEF IsSaved, SameSession
    <3>2. Linked(a)
      BY <1>4, <1>6, <3>1 DEF Settled
    <3> QED
      BY <1>1, <3>2 DEF Linked
  <2> QED
    BY <2>1, <2>3, <2>4 DEF CaptureSaves, SameSession, Lost, AccountIn, At
<1> QED
  BY <1>7, <1>8, <1>9, <1>10 DEF LatestParts

\* The saves before a journal row: what each replaces, and what marks it.
LEMMA CaptureMoves ==
  ASSUME SwitchTypeOK, CapturesFile, CaptureStep
  PROVE  /\ \A a \in Accounts : vault'[a].cred \in {vault[a].cred, switch.raw.auth}
         /\ \/ UNCHANGED vault
            \/ \E a \in Accounts : /\ vault'[a].cred = switch.raw.auth
                                   /\ \A b \in Accounts \ {a} : vault'[b] = vault[b]
         /\ \A a \in Accounts :
              \/ BeingMarked(a)'
              \/ /\ vault'[a] = vault[a]
                 /\ Linked(a) \/ BeingMarked(a) => Linked(a)' \/ BeingMarked(a)'
         /\ switch.pc \in Capturing /\ switch'.pc \in Capturing
         /\ UNCHANGED <<backend, disk, oauth, baseline, ops>>
         /\ switch'.raw = switch.raw /\ switch'.to = switch.to
<1> DEFINE w == Identity(backend, Snapshot(switch.raw))
           Moved ==
             /\ \A a \in Accounts : vault'[a].cred \in {vault[a].cred, switch.raw.auth}
             /\ \/ UNCHANGED vault
                \/ \E a \in Accounts : /\ vault'[a].cred = switch.raw.auth
                                       /\ \A b \in Accounts \ {a} : vault'[b] = vault[b]
             /\ \A a \in Accounts :
                  \/ BeingMarked(a)'
                  \/ /\ vault'[a] = vault[a]
                     /\ Linked(a) \/ BeingMarked(a) => Linked(a)' \/ BeingMarked(a)'
<1>0. /\ UNCHANGED <<backend, disk, oauth, baseline, ops>> /\ switch'.raw = switch.raw
      /\ switch'.to = switch.to /\ switch.pc \in Capturing /\ switch'.pc \in Capturing
      /\ Identity(backend, Snapshot(switch.raw))' = w
  BY CapturesIs DEF Capturing, At, Snapshot, Identity
<1> SUFFICES Moved
  BY <1>0
<1>1. switch.raw.auth \in AnyCred
  BY SwitchReads
<1>2. ASSUME NEW a \in Accounts, Store(a, switch.raw.auth), UNCHANGED <<nativeRev, applied>>,
             switch.pc \notin {"mark", "imported"}, BeingMarked(a)'
      PROVE  Moved
  <2>1. vault'[a].cred = switch.raw.auth /\ \A b \in Accounts \ {a} : vault'[b] = vault[b]
    BY <1>1, <1>2, StoreIs
  <2>2. \A b \in Accounts \ {a} : vault'[b] = vault[b] /\ ~BeingMarked(b)
                                  /\ (Linked(b) => Linked(b)')
    BY <1>2, <2>1 DEF BeingMarked, Linked, At
  <2> QED
    BY <1>0, <1>2, <2>1, <2>2
<1> HIDE DEF Moved, w
<1>3. CASE At("outgoing") /\ switch'.pc = "mark"
  <2>1. IsSaved(applied.acct) /\ Store(applied.acct, switch.raw.auth)
        /\ UNCHANGED <<nativeRev, applied>>
    BY <1>3, CapturesIs DEF At
  <2>2. applied.acct \in Accounts /\ BeingMarked(applied.acct)'
    BY <1>3, <2>1 DEF IsSaved, BeingMarked, At
  <2>3. switch.pc \notin {"mark", "imported"}
    BY <1>3 DEF At
  <2> QED
    BY <1>2, <2>1, <2>2, <2>3
<1>4. CASE At("native") /\ switch'.pc = "imported"
  <2>1. ImportsNative /\ Store(w, switch.raw.auth) /\ UNCHANGED <<nativeRev, applied>>
    BY <1>4, CapturesIs DEF At, w
  <2>2. w \in Accounts
    BY <2>1, SwitchReads DEF ImportsNative, MaybeAccount, w
  <2>3. PICK a \in Accounts : a = w
    BY <2>2
  <2>4. BeingMarked(a)'
    BY <1>0, <1>4, <2>3 DEF BeingMarked, At, w
  <2>5. switch.pc \notin {"mark", "imported"}
    BY <1>4 DEF At
  <2> QED
    BY <1>2, <2>1, <2>3, <2>4, <2>5
<1>5. CASE At("mark")
  <2>1. /\ switch'.pc = "native" /\ UNCHANGED <<vault, nativeRev>>
        /\ applied' = [applied EXCEPT !.rev = vault[applied.acct].rev]
    BY <1>5, CapturesIs DEF At
  <2>2. applied'.acct = applied.acct /\ applied'.rev = vault[applied.acct].rev
    BY <2>1 DEF SwitchTypeOK, AppliedStates
  <2>3. \A a \in Accounts : Linked(a) \/ BeingMarked(a) => Linked(a)'
    BY <1>5, <2>1, <2>2 DEF Linked, BeingMarked, At
  <2> QED
    BY <2>1, <2>3 DEF Moved
<1>6. CASE At("imported")
  <2>1. /\ UNCHANGED <<vault, applied>>
        /\ nativeRev' = [nativeRev EXCEPT ![w] = vault[w].rev]
    BY <1>6, CapturesIs DEF At, w
  <2>2. \A a \in Accounts : nativeRev'[a] = IF a = w THEN vault[w].rev ELSE nativeRev[a]
    BY <2>1 DEF SwitchTypeOK
  <2>3. \A a \in Accounts : Linked(a) \/ BeingMarked(a) => Linked(a)'
    BY <1>6, <2>1, <2>2 DEF Linked, BeingMarked, At, w
  <2> QED
    BY <2>1, <2>3 DEF Moved
<1>7. CASE (At("outgoing") \/ At("native")) /\ UNCHANGED <<vault, nativeRev, applied>>
  <2>1. \A a \in Accounts : Linked(a) \/ BeingMarked(a) => Linked(a)'
    BY <1>7 DEF Linked, BeingMarked, At
  <2> QED
    BY <1>7, <2>1 DEF Moved
<1> QED
  BY <1>3, <1>4, <1>5, <1>6, <1>7, CapturesIs DEF At

LEMMA CaptureKeepsSaves ==
  ASSUME LatestStep, CaptureStep
  PROVE  CaptureSaves'
<1>0. /\ SwitchTypeOK /\ HistoryStep /\ CapturesFile /\ WholeParts /\ VaultHoldsOwnLogins
      /\ SavedIsNotRemoved /\ CaptureSaves /\ CaptureStep
  BY LatestFacts
<1>1. /\ \A a \in Accounts : vault'[a].cred \in {vault[a].cred, switch.raw.auth}
      /\ switch.pc \in Capturing /\ switch'.raw = switch.raw /\ switch'.to = switch.to
      /\ UNCHANGED <<backend, disk, oauth, baseline, ops>>
  BY <1>0, CaptureMoves
<1> SUFFICES ASSUME switch.to # "inspect" PROVE CaptureSaves'
  BY <1>1 DEF CaptureSaves
<1>2. PICK c \in AnyCred : c = switch.raw.auth
  BY <1>0, SwitchReads
<1>3. PICK w : w = Identity(backend, Snapshot(switch.raw))
  OBVIOUS
<1>4. c # NoCred => w = AccountIn(c) /\ w \in Accounts
  <2>1. Snapshot(switch.raw) \in AnySnapshot /\ Snapshot(switch.raw).auth = c
        /\ Proper(Snapshot(switch.raw))
    BY <1>0, <1>1, <1>2, SwitchReads DEF WholeParts
  <2> QED
    BY <1>3, <2>1, FilesAs
<1>5. ASSUME NEW a \in Accounts, IsSaved(a)', SameSession(vault[a].cred, c)', ~Lost(c)'
      PROVE  (\/ At("outgoing") /\ Linked(a)
              \/ At("native") /\ nativeRev[a] = vault[a].rev
              \/ ~At("outgoing") /\ vault[a].cred = c)'
  <2>0. c # NoCred /\ switch'.pc # "outgoing"
    BY <1>0, <1>5, CapturesIs DEF SameSession
  <2>1. CASE vault'[a].cred = c
    BY <2>0, <2>1 DEF At
  <2>2. CASE vault'[a].cred # c
    <3>1. vault'[a].cred = vault[a].cred /\ vault[a].cred # c
      BY <1>1, <1>2, <2>2
    <3>2. IsSaved(a) /\ SameSession(vault[a].cred, c) /\ ~Lost(c)
      BY <1>0, <1>5, <3>1, LostStays DEF IsSaved, SameSession
    <3>3. a = w
      <4>1. AccountIn(vault[a].cred) = a
        BY <1>0, <3>2 DEF VaultHoldsOwnLogins
      <4>2. AccountIn(vault[a].cred) = AccountIn(c)
        BY <3>2, SameLost
      <4> QED
        BY <1>4, <2>0, <4>1, <4>2
    <3>4. \/ At("outgoing") /\ Linked(a)
          \/ At("native") /\ nativeRev[a] = vault[a].rev
      BY <1>0, <1>1, <1>2, <3>1, <3>2 DEF CaptureSaves
    <3>5. CASE At("outgoing")
      <4>1. \/ /\ switch'.pc = "mark" /\ IsSaved(applied.acct)
               /\ Store(applied.acct, switch.raw.auth)
            \/ /\ switch'.pc = "native" /\ UNCHANGED <<vault, nativeRev>>
               /\ ~(/\ IsSaved(applied.acct) /\ vault[applied.acct].rev = applied.rev
                    /\ vault[applied.acct].cred # switch.raw.auth)
        BY <1>0, <3>5, CapturesIs DEF At
      <4>2. CASE switch'.pc = "mark"
        <5>1. applied.acct \in Accounts /\ Store(applied.acct, switch.raw.auth)
          BY <4>1, <4>2 DEF IsSaved
        <5>2. applied # NoApplied
          BY <5>1, AccountsAssumption DEF NoApplied
        <5>3. applied.acct = a
          BY <1>0, <1>3, <3>3, <3>5, <5>2 DEF CapturesFile
        <5>4. vault'[a].cred = c
          BY <1>0, <1>2, <5>1, <5>3, StoreIs
        <5> QED
          BY <2>2, <5>4
      <4>3. CASE switch'.pc = "native"
        <5>1. Linked(a)
          BY <3>4, <3>5 DEF At
        <5>2. ~(applied.acct = a /\ applied.rev = vault[a].rev)
          BY <1>2, <3>1, <3>2, <4>1, <4>3
        <5>3. nativeRev[a] = vault[a].rev
          BY <5>1, <5>2 DEF Linked
        <5> QED
          BY <4>1, <4>3, <5>3 DEF At
      <4> QED
        BY <4>1, <4>2, <4>3
    <3>6. CASE At("native")
      <4>1. nativeRev[a] = vault[a].rev
        BY <3>4, <3>6 DEF At
      <4>2. ImportsNative
        BY <1>0, <1>2, <1>3, <3>1, <3>2, <3>3, <4>1, AccountsAssumption
        DEF ImportsNative, SavedIsNotRemoved
      <4>3. Store(w, switch.raw.auth)
        BY <1>0, <1>3, <3>6, <4>2, CapturesIs DEF At
      <4>4. vault'[a].cred = c
        BY <1>0, <1>2, <3>3, <4>3, StoreIs
      <4> QED
        BY <2>2, <4>4
    <3> QED
      BY <3>4, <3>5, <3>6
  <2> QED
    BY <2>1, <2>2
<1>6. SameSession(baseline'.snap.auth, c) /\ baseline'.kept => baseline'.snap.auth = c
  BY <1>0, <1>1, <1>2 DEF CaptureSaves
<1> QED
  BY <1>1, <1>2, <1>5, <1>6 DEF CaptureSaves, SameSession, Lost, AccountIn

LEMMA LatestCapture ==
  ASSUME LatestStep, CaptureStep
  PROVE  LatestParts'
<1>0. /\ SwitchTypeOK /\ HistoryStep /\ CapturesFile /\ CaptureIsCurrent
  BY LatestFacts
<1>1. /\ \A a \in Accounts : vault'[a].cred \in {vault[a].cred, switch.raw.auth}
      /\ \/ UNCHANGED vault
         \/ \E a \in Accounts : /\ vault'[a].cred = switch.raw.auth
                                /\ \A b \in Accounts \ {a} : vault'[b] = vault[b]
      /\ \A a \in Accounts :
           \/ BeingMarked(a)'
           \/ /\ vault'[a] = vault[a]
              /\ Linked(a) \/ BeingMarked(a) => Linked(a)' \/ BeingMarked(a)'
      /\ switch.pc \in Capturing /\ switch'.pc \in Capturing
      /\ UNCHANGED <<backend, disk, oauth, baseline, ops>>
      /\ switch'.raw = switch.raw
  BY <1>0, CaptureMoves
<1>2. Active'.auth = Active.auth
  BY <1>0, <1>1, StoreAlone
<1>3. PICK x \in AnyCred : x = Active.auth
  BY LatestFacts
<1>4. Settled(x) /\ x = Active'.auth
  BY <1>1, <1>2, <1>3, RestingSettled
<1>5. PICK c \in AnyCred : c = switch.raw.auth
  BY <1>0, SwitchReads
<1>6. /\ c # NoCred /\ ~Lost(c) =>
           /\ Newest(c.sess) \in {c, x}
           /\ \A op \in ops : SameSession(op.before.auth, c) => op.before.auth.gen <= c.gen
      /\ c # NoCred => x # NoCred
      /\ x \notin {c, NoCred} =>
           /\ baseline.snap.auth # x
           /\ \A a \in Accounts : vault[a].cred # x
  BY <1>0, <1>1, <1>3, <1>5 DEF CaptureIsCurrent
<1>7. ~Lost(c)' => ~Lost(c)
  BY <1>0, LostStays
<1>8. StoreIsSettled'
  <2>1. Settled(x)'
    <3> SUFFICES ASSUME x # NoCred, ~Lost(x)'
                 PROVE  /\ x = Newest(x.sess)'
                        /\ \A a \in Accounts : IsSaved(a)' /\ SameSession(vault[a].cred, x)' =>
                             Linked(a)' \/ BeingMarked(a)'
      BY DEF Settled
    <3>1. ~Lost(x)
      BY <1>0, LostStays
    <3>2. x = Newest(x.sess)'
      BY <1>1, <1>4, <3>1 DEF Settled, Newest
    <3>3. ASSUME NEW a \in Accounts, IsSaved(a)', SameSession(vault[a].cred, x)',
                 ~BeingMarked(a)'
          PROVE  Linked(a)'
      <4>1. vault'[a] = vault[a] /\ (Linked(a) \/ BeingMarked(a) => Linked(a)')
        BY <1>1, <3>3
      <4>2. IsSaved(a) /\ SameSession(vault[a].cred, x)
        BY <3>3, <4>1 DEF IsSaved, SameSession
      <4> QED
        BY <1>4, <3>1, <4>1, <4>2 DEF Settled
    <3> QED
      BY <3>2, <3>3
  <2> QED
    BY <1>4, <2>1 DEF StoreIsSettled, Settled
<1>9. KeptInPlace' /\ BeforeIsSaved'
  <2>1. CASE UNCHANGED vault
    BY <1>1, <1>2, <2>1, KeptStays, RowsStay
  <2>2. CASE ~UNCHANGED vault
    <3>1. PICK a \in Accounts : /\ vault'[a].cred = c
                                /\ \A b \in Accounts \ {a} : vault'[b] = vault[b]
      BY <1>1, <1>5, <2>2
    <3>2. c # NoCred /\ ~Lost(c)' =>
            /\ Newest(c.sess) \in {c, Active.auth}
            /\ \A op \in ops : SameSession(op.before.auth, c) => op.before.auth.gen <= c.gen
      BY <1>3, <1>6, <1>7
    <3>3. oauth'.newest = oauth.newest /\ ops' \subseteq ops
      BY <1>1
    <3> QED
      BY <1>2, <3>1, <3>2, <3>3, SavedIsKept
  <2> QED
    BY <2>1, <2>2
<1>10. CaptureIsCurrent'
  <2>1. switch'.raw.auth = c /\ ops' = ops /\ baseline' = baseline
    BY <1>1, <1>5
  <2>2. c # NoCred /\ ~Lost(c)' =>
          /\ Newest(c.sess)' \in {c, x}
          /\ \A op \in ops : SameSession(op.before.auth, c) => op.before.auth.gen <= c.gen
    BY <1>1, <1>6, <1>7 DEF Newest
  <2>3. x \notin {c, NoCred} => \A a \in Accounts : vault'[a].cred # x
    BY <1>1, <1>5, <1>6
  <2> QED
    BY <1>4, <1>6, <2>1, <2>2, <2>3
    DEF CaptureIsCurrent, SameSession, Lost, AccountIn, Newest
<1>11. AppliedIsCurrent' /\ RollbackIsSettled'
  BY <1>1 DEF AppliedIsCurrent, RollbackIsSettled, Applying, Returning, Serving, Writing, At,
              Capturing
<1> QED
  BY <1>8, <1>9, <1>10, <1>11, CaptureKeepsSaves DEF LatestParts

\* What the journal row is to write: some account's credential, or the login kept.
LEMMA NewAfterIs ==
  ASSUME SwitchTypeOK
  PROVE  /\ \/ \E a \in Accounts : NewOp.after.auth = vault[a].cred
            \/ /\ NewOp.after.auth = KeptLogin.auth
               /\ ~IsSaved(Identity(backend, KeptLogin))
         /\ NewOp.before.auth = switch.raw.auth
         /\ KeptLogin.auth = (IF baseline.kept THEN baseline.snap.auth ELSE switch.raw.auth)
         /\ NewOp.after.auth \in AnyCred
<1>1. NewOp.after = Wanted(switch.to, KeptLogin) /\ KeptLogin \in AnySnapshot
      /\ NewOp.before.auth = switch.raw.auth
  BY NewOpIs
<1>2. \/ \E a \in Accounts : NewOp.after = SnapshotOf(a)
      \/ NewOp.after = KeptLogin /\ ~IsSaved(Identity(backend, KeptLogin))
  BY <1>1, WantedIs
<1>3. KeptLogin.auth = (IF baseline.kept THEN baseline.snap.auth ELSE switch.raw.auth)
  BY SwitchReads DEF KeptLogin
<1>4. NewOp.after.auth \in AnyCred
  BY <1>1, WantedIs DEF AnySnapshot
<1> QED
  BY <1>1, <1>2, <1>3, <1>4, VaultReads

LEMMA OpenedRows ==
  ASSUME LatestStep, OpenJournal, Opened, switch.to # "inspect", UNCHANGED vault
  PROVE  BeforeIsSaved'
<1>0. SwitchTypeOK /\ HistoryStep /\ CaptureSaves /\ At("open") /\ BeforeIsSaved
  BY LatestFacts, OpenJournalIs
<1>1. PICK c \in AnyCred : c = switch.raw.auth
  BY <1>0, SwitchReads
<1>2. PICK f \in AnyCred : f = NewOp.after.auth
  BY <1>0, NewAfterIs
<1>3. /\ SameSession(baseline.snap.auth, c) /\ baseline.kept => baseline.snap.auth = c
      /\ \A a \in Accounts : IsSaved(a) /\ SameSession(vault[a].cred, c) /\ ~Lost(c) =>
           vault[a].cred = c
  BY <1>0, <1>1 DEF CaptureSaves, Capturing, At
<1>4. ASSUME NEW a \in Accounts, Promised(a)', SameSession(vault[a].cred, c)'
      PROVE  c.gen <= vault'[a].cred.gen
  <2>1. PICK x \in AnyCred : x = vault[a].cred
    BY <1>0, VaultReads
  <2>2. vault'[a].cred = x
    BY <2>1
  <2>3. ~Lost(x)' /\ x # NoCred /\ SameSession(x, c)
    BY <1>4, <2>2 DEF Promised, IsSaved, Lost, SameSession
  <2>4. ~Lost(c)
    BY <1>0, <2>3, LostStays, SameLost
  <2>5. x = c
    BY <1>3, <2>1, <2>3, <2>4 DEF IsSaved
  <2>6. c.gen \in Nat
    BY <2>3, <2>5, CredsAre
  <2> QED
    BY <2>2, <2>5, <2>6
<1>5. ASSUME SameSession(c, f), ~Lost(f)' PROVE c = f
  <2>1. ~Lost(c) /\ SameSession(f, c) /\ f # NoCred
    BY <1>0, <1>5, LostStays, SameLost DEF SameSession
  <2>2. CASE \E a \in Accounts : f = vault[a].cred
    BY <1>3, <2>1, <2>2 DEF IsSaved
  <2>3. CASE f = KeptLogin.auth
    BY <1>0, <1>1, <1>3, <2>1, <2>3, NewAfterIs
  <2> QED
    BY <1>0, <1>2, <2>2, <2>3, NewAfterIs
<1>6. PICK new : new = NewOp
  OBVIOUS
<1>7. new.before.auth = c /\ new.after.auth = f /\ ops' = ops \cup {new}
  BY <1>0, <1>1, <1>2, <1>6, NewAfterIs DEF Opened
<1>8. ASSUME NEW op \in ops, NEW a \in Accounts, Promised(a)',
             SameSession(vault[a].cred, op.before.auth)'
      PROVE  op.before.auth.gen <= vault'[a].cred.gen
  <2>1. PICK x : x = vault[a].cred
    OBVIOUS
  <2>2. vault'[a].cred = x
    BY <2>1
  <2>3. ~Lost(x)' /\ x # NoCred
    BY <1>8, <2>2 DEF Promised, IsSaved, Lost
  <2>4. Promised(a) /\ SameSession(vault[a].cred, op.before.auth)
    BY <1>0, <1>8, <2>1, <2>3, LostStays DEF Promised, IsSaved, SameSession
  <2> QED
    BY <1>0, <2>4 DEF BeforeIsSaved
<1>9. ASSUME NEW op \in ops, SameSession(op.before.auth, op.after.auth),
             ~Lost(op.after.auth)'
      PROVE  op.before.auth = op.after.auth
  <2>1. ~Lost(op.after.auth)
    BY <1>0, <1>9, LostStays
  <2> QED
    BY <1>0, <1>9, <2>1 DEF BeforeIsSaved
<1>10. ASSUME NEW op \in ops'
       PROVE  /\ \A a \in Accounts : Promised(a)' /\ SameSession(vault[a].cred, op.before.auth)' =>
                    op.before.auth.gen <= vault'[a].cred.gen
              /\ SameSession(op.before.auth, op.after.auth) /\ ~Lost(op.after.auth)' =>
                    op.before.auth = op.after.auth
  <2>1. CASE op \in ops
    BY <1>8, <1>9, <2>1
  <2>2. CASE op = new
    BY <1>4, <1>5, <1>7, <2>2
  <2> QED
    BY <1>7, <2>1, <2>2
<1> QED
  BY <1>10 DEF BeforeIsSaved, SameSession

LEMMA OpenedReturns ==
  ASSUME LatestStep, OpenJournal, Opened, switch.to # "inspect",
         UNCHANGED <<backend, disk, oauth, vault, nativeRev, applied>>
  PROVE  RollbackIsSettled'
<1>0. /\ SwitchTypeOK /\ HistoryStep /\ At("open") /\ CaptureIsCurrent /\ VaultHoldsOwnLogins
      /\ WholeParts
  BY LatestFacts, OpenJournalIs
<1>1. Op' = NewOp /\ switch'.pc \in {"config", "check"}
  BY <1>0, OpenedIs
<1>2. PICK c \in AnyCred : c = switch.raw.auth
  BY <1>0, SwitchReads
<1>3. PICK f \in AnyCred : f = NewOp.after.auth
  BY <1>0, NewAfterIs
<1>4. Op'.before.auth = c /\ Op'.after.auth = f
  BY <1>0, <1>1, <1>2, <1>3, NewAfterIs
<1>5. PICK x \in AnyCred : x = Active.auth
  BY LatestFacts
<1>6. Settled(x) /\ x = Active'.auth
  BY <1>0, <1>5, StoreAlone, RestingSettled DEF Capturing, At
<1>7. /\ c # NoCred => x # NoCred
      /\ x \notin {c, NoCred} =>
           /\ baseline.snap.auth # x
           /\ \A a \in Accounts : vault[a].cred # x
  BY <1>0, <1>2, <1>5 DEF CaptureIsCurrent, Capturing, At
<1>8. \A a : ~BeingMarked(a)
  BY <1>0 DEF BeingMarked, At
<1>9. ASSUME x \in {c, f} PROVE Settled(c)'
  <2>1. CASE c = NoCred
    BY <2>1 DEF Settled
  <2>2. CASE c # NoCred /\ x = f /\ x # c
    <3>1. f # NoCred /\ f # c /\ baseline.snap.auth # f /\ \A a \in Accounts : vault[a].cred # f
      BY <1>7, <2>2
    <3>2. FALSE
      BY <1>0, <1>2, <1>3, <3>1, NewAfterIs
    <3> QED
      BY <3>2
  <2>3. CASE x = c
    BY <1>0, <1>6, <1>8, <2>3, SettledStays
  <2> QED
    BY <1>9, <2>1, <2>2, <2>3
<1>10. ASSUME NEW a \in Accounts, SameSession(vault[a].cred, f)' PROVE vault'[a].cred = f
  <2>1. SameSession(vault[a].cred, f) /\ vault'[a].cred = vault[a].cred
    BY <1>10 DEF SameSession
  <2>2. f # NoCred /\ IsSaved(a) /\ AccountIn(vault[a].cred) = AccountIn(f)
    BY <2>1, SameLost DEF SameSession, IsSaved
  <2>3. AccountIn(f) = a
    BY <1>0, <2>2 DEF VaultHoldsOwnLogins
  <2>4. CASE \E b \in Accounts : f = vault[b].cred
    <3>1. PICK b \in Accounts : f = vault[b].cred
      BY <2>4
    <3>2. IsSaved(b)
      BY <2>2, <3>1 DEF IsSaved
    <3>3. AccountIn(f) = b
      BY <1>0, <3>1, <3>2 DEF VaultHoldsOwnLogins
    <3> QED
      BY <2>1, <2>3, <3>1, <3>3
  <2>5. CASE f = KeptLogin.auth /\ ~IsSaved(Identity(backend, KeptLogin))
    <3>1. Proper(KeptLogin) /\ KeptLogin \in AnySnapshot
      BY <1>0, OpenedIsWhole, NewOpIs
    <3>2. Identity(backend, KeptLogin) = AccountIn(f)
      BY <2>2, <2>5, <3>1, FilesAs
    <3> QED
      BY <2>2, <2>3, <2>5, <3>2
  <2> QED
    BY <1>0, <1>3, <2>4, <2>5, NewAfterIs
<1>11. Settled(c)' => Settled(Op.before.auth)'
  BY <1>4 DEF Settled
<1>12. switch'.pc # "auth"
  BY <1>1
<1> QED
  BY <1>4, <1>6, <1>9, <1>10, <1>11, <1>12 DEF RollbackIsSettled, SameSession, At

LEMMA LatestOpen ==
  ASSUME LatestStep, OpenJournal
  PROVE  LatestParts'
<1>0. SwitchTypeOK /\ HistoryStep /\ At("open")
  BY LatestFacts, OpenJournalIs
<1>1. /\ UNCHANGED <<backend, storeVars, vault, nativeRev, removed, applied, left>>
      /\ \/ switch' = Idle /\ ops' = ops
         \/ Opened /\ switch.to # "inspect"
  BY <1>0, OpenJournalIs
<1>2. UNCHANGED <<backend, disk, oauth, vault, nativeRev, applied>>
  BY <1>1 DEF storeVars
<1>3. Active'.auth = Active.auth /\ Underway = {}
  BY <1>0, <1>2, StoreAlone, RestingSettled DEF Capturing, At
<1>4. \A a : ~BeingMarked(a)
  BY <1>0 DEF BeingMarked, At
<1>5. StoreIsSettled' /\ KeptInPlace'
  BY <1>2, <1>3, <1>4, StoreStaysSettled, KeptStays
<1>6. CASE switch' = Idle /\ ops' = ops
  <2>1. switch'.pc = "idle"
    BY <1>6, IdleIs
  <2>2. CaptureIsCurrent' /\ CaptureSaves' /\ AppliedIsCurrent' /\ RollbackIsSettled'
    BY <2>1 DEF CaptureIsCurrent, CaptureSaves, AppliedIsCurrent, RollbackIsSettled, Applying,
                Returning, Capturing, Serving, Writing, At
  <2>3. BeforeIsSaved'
    BY <1>2, <1>6, RowsStay
  <2> QED
    BY <1>5, <2>2, <2>3 DEF LatestParts
<1>7. CASE Opened /\ switch.to # "inspect"
  <2>1. Op' = NewOp /\ NewOp.to = switch.to
        /\ switch'.pc = (IF switch.to = "release" THEN "config" ELSE "check")
    BY <1>0, <1>7, OpenedIs, NewOpIs
  <2>2. CaptureIsCurrent' /\ CaptureSaves' /\ AppliedIsCurrent'
    BY <2>1 DEF CaptureIsCurrent, CaptureSaves, AppliedIsCurrent, Applying, Capturing, At
  <2>3. BeforeIsSaved' /\ RollbackIsSettled'
    BY <1>2, <1>7, OpenedRows, OpenedReturns
  <2> QED
    BY <1>5, <2>2, <2>3 DEF LatestParts
<1> QED
  BY <1>1, <1>6, <1>7

\* A step of the operation that is served, refused or not.
Proceeds ==
  StartApply \/ StartRollback \/ PutCredential \/ PutFallback \/ PutMetadata \/ PassOver \/ StartUndo

LEMMA ServingFacts ==
  ASSUME LatestStep, ServingStep
  PROVE  /\ UNCHANGED <<backend, oauth, vault, nativeRev, applied, baseline>>
         /\ Refused \/ Proceeds
         /\ switch.pc \in {"check", "undo", "auth", "fallback", "meta", "verify", "config"}
         /\ Op \in ops /\ \A a : ~BeingMarked(a)
         /\ left'["restart"] = left["restart"]
<1>0. SwitchTypeOK /\ ServedIsPending
  BY LatestFacts
<1>1. OthersStay /\ Served /\ left'["restart"] = left["restart"]
  BY <1>0, ServingIs
<1>2. switch.pc \in {"check", "undo", "auth", "fallback", "meta", "verify", "config"}
  <2>1. Refused \/ StartApply \/ StartRollback =>
          switch.pc \in {"check", "undo", "auth", "fallback", "meta", "verify", "config"}
    BY DEF Refused, StartApply, StartRollback, At
  <2> QED
    BY <1>0, <1>1, <2>1, ServedMoves DEF Served
<1>3. Op \in ops /\ \A a : ~BeingMarked(a)
  BY <1>0, <1>2 DEF ServedIsPending, Serving, Writing, BeingMarked, At
<1> QED
  BY <1>1, <1>2, <1>3 DEF OthersStay, Served, Proceeds

LEMMA ProceedsTo ==
  ASSUME LatestStep, ServingStep, Proceeds
  PROVE  /\ switch'.pc \in {"applied", "auth", "undone", "fallback", "meta", "verify", "undo"}
         /\ Op' = Op /\ switch'.queue = switch.queue /\ ops' = ops
         /\ switch'.pc # "undone" => Underway \subseteq Underway'
         /\ Returning' => Returning
<1>0. SwitchTypeOK /\ ServedIsPending
  BY LatestFacts
<1>1. /\ switch'.pc \in {"applied", "auth", "undone", "fallback", "meta", "verify", "undo"}
      /\ Op' = Op /\ switch'.queue = switch.queue
  BY <1>0, ServedMoves DEF Proceeds
<1>2. ops' = ops
  BY DEF Proceeds, StartApply, StartRollback, PutCredential, PutFallback, PutMetadata,
         PassOver, StartUndo
<1>3. switch.pc \in {"check", "undo", "auth", "fallback", "meta", "verify", "config"}
  BY ServingFacts
<1>4. switch'.pc # "undone" => Underway \subseteq Underway'
  <2>1. switch.queue \in SUBSET Journals /\ (Recovering' <=> Recovering)
    BY <1>0, <1>1, SwitchReads DEF Recovering
  <2>2. CASE Recovering
    BY <1>1, <1>3, <2>1, <2>2 DEF Underway, At
  <2>3. CASE ~Recovering
    BY <1>1, <1>3, <2>1, <2>3 DEF Underway, At, Serving, Writing
  <2> QED
    BY <2>2, <2>3
<1>5. Returning' => Returning
  BY <1>1, <1>3 DEF Returning, Recovering, Serving, Writing
<1> QED
  BY <1>1, <1>2, <1>4, <1>5

\* Only the first write changes the login; it replaces what the operation recorded.
LEMMA ServedStore ==
  ASSUME LatestStep, ServingStep
  PROVE  \/ Active'.auth = Active.auth /\ ~PutCredential
         \/ /\ PutCredential /\ Active'.auth = Want.auth
            /\ Active.auth \in {Op.before.auth, Op.after.auth}
<1>0. /\ SwitchTypeOK /\ ServedIsPending /\ SourcesFit /\ RollbackIsSettled
      /\ backend # "codex_auto" /\ backend' = backend /\ disk' \in Disks
  BY LatestFacts
<1>1. /\ Active'.auth = (IF FileOnly(backend) THEN disk'.file ELSE disk'.secure)
      /\ Active.auth = (IF FileOnly(backend) THEN disk.file ELSE disk.secure)
      /\ Raw.source = IF FileOnly(backend) THEN "file" ELSE "keyring"
  BY <1>0, PlaceAfter, OnePlace
<1>2. switch.pc \in Writing => Observed.source = Raw.source
  <2> SUFFICES ASSUME switch.pc \in Writing PROVE Observed.source = Raw.source
    OBVIOUS
  <2>1. Op.prepared.source = Raw.source /\ switch.raw.source = Raw.source
    <3>1. FitsLayout(switch.raw.source) /\ switch.raw.source \in {"file", "keyring"}
      BY <1>0, SwitchReads DEF SourcesFit, Raws
    <3> QED
      BY <1>0, <3>1, ServingFacts, OnePlace
  <2>2. switch.back \in BOOLEAN
    BY <1>0, SwitchReads
  <2> QED
    BY <1>0, <2>1, <2>2, ObservedIs
<1>3. CASE PutCredential
  <2>1. /\ disk'.file = IF Observed.source = "file" THEN Want.auth ELSE disk.file
        /\ disk'.secure = IF Observed.source = "file" THEN disk.secure ELSE Want.auth
        /\ Raw = switch.raw /\ At("auth")
    BY <1>0, <1>3, PutsAre DEF PutCredential
  <2>2. Active'.auth = Want.auth
    BY <1>1, <1>2, <2>1 DEF Writing, At
  <2>3. Active.auth \in {Op.before.auth, Op.after.auth}
    BY <1>0, <2>1, StoreReads DEF RollbackIsSettled
  <2> QED
    BY <1>3, <2>2, <2>3
<1>4. CASE PutFallback /\ ~PutCredential
  <2>1. disk'.secure = disk.secure /\ Observed.source # "file" /\ At("fallback")
    BY <1>0, <1>4, PutsAre DEF PutFallback, ClearsFallback
  <2> QED
    BY <1>1, <1>2, <1>4, <2>1 DEF Writing, At
<1>5. CASE PutMetadata /\ ~PutCredential
  BY <1>0, <1>1, <1>5, PutsAre
<1>6. CASE UNCHANGED disk /\ ~PutCredential
  BY <1>0, <1>6, StoreAlone
<1>7. Refused \/ StartApply \/ StartRollback \/ PassOver \/ StartUndo => UNCHANGED disk
  BY DEF Refused, StartApply, StartRollback, PassOver, StartUndo
<1> QED
  BY <1>3, <1>4, <1>5, <1>6, <1>7, ServingFacts DEF Proceeds

LEMMA LatestRefused ==
  ASSUME LatestStep, ServingStep, Refused
  PROVE  LatestParts'
<1>0. SwitchTypeOK /\ HistoryStep /\ ServedIsPending /\ ~GivenUp
  BY LatestFacts
<1>1. /\ UNCHANGED <<backend, oauth, vault, nativeRev, applied, baseline>>
      /\ switch.pc \in {"check", "undo", "auth", "fallback", "meta", "verify", "config"}
      /\ Op \in ops /\ \A a : ~BeingMarked(a)
      /\ left'["restart"] = left["restart"]
  BY ServingFacts
<1>2. /\ ops' \subseteq ops /\ UNCHANGED disk
      /\ ~Recovering => switch' = Idle
      /\ Recovering => switch' = NextPending(Op)
  BY <1>0, RefuseIs DEF Refused
<1>3. Active'.auth = Active.auth
  BY <1>0, <1>1, <1>2, StoreAlone
<1>4. switch'.pc \in {"idle", "recover"}
      /\ (Recovering => switch'.pc = "recover" /\ switch'.queue = switch.queue \ {Op})
  BY <1>0, <1>2, IdleIs, NextPendingIs
<1>5. ~PutLogin(Op)
  <2> SUFFICES ASSUME PutLogin(Op) PROVE FALSE
    OBVIOUS
  <2>1. Written(Op)
    BY DEF Written
  <2>2. ~At("recover")
    BY <1>1 DEF At
  <2>3. left'.restart = left.restart
    BY <1>1
  <2>4. GivenUp
    BY <1>1, <1>4, <2>1, <2>2, <2>3 DEF GivenUp
  <2> QED
    BY <1>0, <2>4
<1>6. ASSUME NEW op \in Underway, PutLogin(op) PROVE op \in Underway'
  <2>1. op # Op
    BY <1>5, <1>6
  <2>2. Recovering /\ op \in switch.queue
    BY <1>0, <1>1, <1>6, <2>1, UnderwayIs DEF At
  <2>3. op \in switch'.queue /\ switch'.pc = "recover"
    BY <1>4, <2>1, <2>2
  <2> QED
    BY <2>3 DEF Underway, Recovering, At
<1>7. StoreIsSettled' /\ KeptInPlace' /\ BeforeIsSaved'
  BY <1>1, <1>2, <1>3, <1>6, StoreStaysSettled, KeptStays, RowsStay
<1>8. CaptureIsCurrent' /\ CaptureSaves' /\ AppliedIsCurrent' /\ RollbackIsSettled'
  BY <1>4 DEF CaptureIsCurrent, CaptureSaves, AppliedIsCurrent, RollbackIsSettled, Applying,
              Returning, Capturing, Serving, Writing, At
<1> QED
  BY <1>7, <1>8 DEF LatestParts

\* What a write replaces the vault has as new.
LEMMA ProceedsKeeps ==
  ASSUME LatestStep, ServingStep, Proceeds
  PROVE  KeptInPlace'
<1>0. /\ SwitchTypeOK /\ HistoryStep /\ ServedIsPending /\ KeptInPlace /\ BeforeIsSaved
      /\ OnlyIssued /\ RollbackIsSettled
  BY LatestFacts
<1>1. /\ UNCHANGED <<backend, oauth, vault, nativeRev, applied, baseline>> /\ Op \in ops
  BY ServingFacts
<1>2. CASE Active'.auth = Active.auth
  BY <1>1, <1>2, KeptStays
<1>3. CASE /\ PutCredential /\ Active'.auth = Want.auth
           /\ Active.auth \in {Op.before.auth, Op.after.auth}
  <2>1. PICK b \in AnyCred, f \in AnyCred : b = Op.before.auth /\ f = Op.after.auth
    BY <1>0, SwitchReads
  <2>2. PICK y : y = Active'.auth
    OBVIOUS
  <2>3. y = IF switch.back THEN b ELSE f
    BY <1>3, <2>1, <2>2 DEF Want
  <2>4. ASSUME NEW a \in Accounts, Promised(a)'
        PROVE  (Newest(vault[a].cred.sess) \in {vault[a].cred, Active.auth})'
    <3>1. PICK v \in AnyCred : v = vault[a].cred
      BY <1>0, VaultReads
    <3>2. v # NoCred /\ ~Lost(v)' /\ vault'[a].cred = v
      BY <1>1, <2>4, <3>1 DEF Promised, IsSaved, Lost
    <3>3. Promised(a)
      BY <1>0, <3>1, <3>2, LostStays DEF Promised, IsSaved
    <3>4. Newest(v.sess) \in {v, Active.auth}
      BY <1>0, <3>1, <3>3 DEF KeptInPlace
    <3>5. v.sess \in Sessions /\ v.gen \in Nat /\ v = [sess |-> v.sess, gen |-> v.gen]
          /\ v.gen <= oauth.newest[v.sess] /\ oauth.newest[v.sess] \in Nat
          /\ Newest(v.sess) # NoCred
      <4>1. v.sess \in Sessions /\ v.gen \in 0 .. MaxGen /\ v = [sess |-> v.sess, gen |-> v.gen]
        BY <3>2, CredsAre
      <4>2. oauth.newest[v.sess] \in 0 .. MaxGen
        BY <1>0, <4>1 DEF SwitchTypeOK
      <4>3. Newest(v.sess) # NoCred
        BY <4>1, <4>2, CredsAre DEF Newest
      <4>4. v.gen <= oauth.newest[v.sess]
        BY <1>0, <3>1, <3>2 DEF OnlyIssued, Issued
      <4> QED
        BY <4>1, <4>2, <4>3, <4>4
    <3>6. CASE Newest(v.sess) = v
      BY <1>1, <3>2, <3>6 DEF Newest
    <3>7. CASE Newest(v.sess) = f /\ Newest(v.sess) # v
      <4>1. f # NoCred /\ SameSession(v, f)
        BY <3>2, <3>5, <3>7 DEF SameSession, Newest
      <4>2. CASE ~switch.back
        BY <1>1, <2>2, <2>3, <3>2, <3>7, <4>2 DEF Newest
      <4>3. CASE switch.back
        <5>1. Returning
          BY <1>0, <1>3, <4>3 DEF Returning, ServedIsPending, PutCredential, Serving, Writing, At
        <5>2. v = f
          BY <1>0, <2>1, <3>1, <4>1, <5>1 DEF RollbackIsSettled
        <5> QED
          BY <3>7, <5>2
      <4> QED
        BY <4>2, <4>3
    <3>8. CASE Newest(v.sess) = b /\ Newest(v.sess) # v
      <4>1. b # NoCred /\ SameSession(v, b) /\ b.gen = oauth.newest[v.sess] /\ b.sess = v.sess
        BY <3>2, <3>5, <3>8 DEF SameSession, Newest
      <4>2. b.gen <= v.gen
        BY <1>0, <1>1, <2>1, <3>1, <3>3, <4>1 DEF BeforeIsSaved
      <4>3. v.gen = oauth.newest[v.sess]
        BY <3>5, <4>1, <4>2
      <4> QED
        BY <3>5, <3>8, <4>3 DEF Newest
    <3> QED
      BY <1>3, <2>1, <3>4, <3>6, <3>7, <3>8
  <2> QED
    BY <2>4 DEF KeptInPlace
<1> QED
  BY <1>2, <1>3, ServedStore

LEMMA ProceedsSettles ==
  ASSUME LatestStep, ServingStep, Proceeds
  PROVE  StoreIsSettled'
<1>0. /\ SwitchTypeOK /\ HistoryStep /\ ServedIsPending /\ BeforeIsSaved
      /\ RollbackIsSettled /\ StoreIsSettled /\ backend # "codex_auto"
  BY LatestFacts
<1>1. /\ UNCHANGED <<backend, oauth, vault, nativeRev, applied, baseline>> /\ Op \in ops
      /\ \A a : ~BeingMarked(a)
  BY ServingFacts
<1>2. /\ Op' = Op /\ ops' = ops /\ (switch'.pc # "undone" => Underway \subseteq Underway')
  BY ProceedsTo
<1>3. PICK b \in AnyCred, f \in AnyCred : b = Op.before.auth /\ f = Op.after.auth
  BY <1>0, SwitchReads
<1>4. CASE Active'.auth = Active.auth /\ switch'.pc # "undone"
  BY <1>1, <1>2, <1>4, StoreStaysSettled
<1>5. CASE switch'.pc = "undone"
  <2>1. Active.auth = b /\ Active'.auth = Active.auth
    <3>1. StartRollback \/ PassOver
      BY <1>0, <1>5, ServedMoves DEF Proceeds
    <3>2. ~PutCredential
      BY <1>0, <1>5, ServedMoves
    <3>3. CASE StartRollback
      <4>1. Snapshot(Raw) = Op.before
        BY <1>0, <1>5, <3>3, ServedMoves DEF RollbackDone
      <4> QED
        BY <1>3, <3>2, <4>1, ServedStore DEF Active
    <3>4. CASE PassOver
      <4>1. Verified(backend, disk, Want) /\ switch.back
        BY <1>0, <1>5, <3>4, ServedMoves DEF PassOver, At, Goto
      <4>2. Active = Want /\ Want = Op.before
        BY <4>1 DEF Verified, Active, Raw, Want
      <4> QED
        BY <1>3, <3>2, <4>2, ServedStore
    <3> QED
      BY <3>1, <3>3, <3>4
  <2>2. Returning
    <3>1. switch.pc \in {"undo", "verify"} /\ (switch.pc = "undo" \/ switch.back)
      BY <1>0, <1>5, ServedMoves DEF Proceeds, StartRollback, At
    <3> QED
      BY <1>0, <3>1 DEF Returning, ServedIsPending, Serving, Writing
  <2>3. Settled(Active.auth)
    BY <1>0, <1>3, <2>1, <2>2 DEF RollbackIsSettled
  <2> QED
    BY <1>1, <2>1, <2>3, StoreStaysSettled
<1>6. CASE /\ PutCredential /\ Active'.auth = Want.auth
           /\ Active.auth \in {b, f}
  <2>0. switch'.pc = "fallback" /\ At("auth")
    BY <1>0, <1>6, ServedMoves DEF At
  <2>1. CASE switch.back
    <3>1. Active'.auth = b
      BY <1>3, <1>6, <2>1 DEF Want
    <3>2. Returning
      BY <1>0, <2>0, <2>1 DEF Returning, ServedIsPending, Serving, Writing, At
    <3>3. Settled(b)
      BY <1>0, <1>3, <1>6, <3>2 DEF RollbackIsSettled
    <3>4. Settled(b)'
      BY <1>0, <1>1, <3>3, SettledStays
    <3> QED
      BY <3>1, <3>4 DEF StoreIsSettled, Settled
  <2>2. CASE ~switch.back
    <3>1. Active'.auth = f
      BY <1>3, <1>6, <2>2 DEF Want
    <3>2. CASE Lost(f)' \/ f = NoCred
      <4>1. Settled(f)'
        BY <3>2 DEF Settled
      <4> QED
        BY <3>1, <4>1 DEF StoreIsSettled, Settled
    <3>3. CASE ~Lost(f)' /\ f # NoCred /\ SameSession(b, f)
      <4>1. b = f
        BY <1>0, <1>1, <1>3, <3>3, LostStays DEF BeforeIsSaved
      <4> QED
        BY <1>4, <1>6, <2>0, <3>1, <4>1
    <3>4. CASE f # NoCred /\ ~SameSession(b, f)
      <4>1. SameSession(f, f)
        BY <3>4 DEF SameSession
      <4>2. PICK op \in ops : op = Op
        BY <1>1
      <4>3. PutLogin(op)'
        BY <1>3, <3>1, <3>4, <4>1, <4>2, PutsAfter
      <4>4. op \in Underway
        BY <1>0, <2>0, <4>2, UnderwayIs DEF Serving, Writing, At
      <4> QED
        BY <1>2, <2>0, <4>3, <4>4 DEF StoreIsSettled
    <3> QED
      BY <3>2, <3>3, <3>4
  <2> QED
    BY <2>1, <2>2
<1> QED
  BY <1>3, <1>4, <1>5, <1>6, ServedStore

\* An operation that has begun to write writes the vault's own credential.
LEMMA AppliedIsNewest ==
  ASSUME LatestStep, KeptInPlace', UNCHANGED <<vault, oauth>>, Op \in ops, StillCurrent(Op),
         Active'.auth = Op.after.auth, Op' = Op
  PROVE  (/\ \/ Active.auth = NoCred \/ SameSession(Active.auth, Op.after.auth)
             \/ \A a \in Accounts : ~SameSession(vault[a].cred, Active.auth)
          /\ Op.to \in Accounts /\ SameSession(Active.auth, Op.after.auth)
               /\ ~Lost(Op.after.auth) => Active.auth = Newest(Active.auth.sess))'
<1>0. SwitchTypeOK /\ HistoryStep /\ StatesAgree
  BY LatestFacts
<1>1. PICK f \in AnyCred : f = Op.after.auth
  BY <1>0, SwitchReads
<1>2. Op'.after.auth = f /\ Active'.auth = f /\ Op'.to = Op.to
  BY <1>1
<1>3. f = NoCred \/ SameSession(f, f)
  BY DEF SameSession
<1>4. ASSUME Op.to \in Accounts, SameSession(f, f), ~Lost(f)' PROVE f = Newest(f.sess)'
  <2>1. PICK a \in Accounts : a = Op.to
    BY <1>4
  <2>2. vault[a].cred = f /\ vault'[a].cred = f /\ f # NoCred
    BY <1>0, <1>1, <1>4, <2>1 DEF StatesAgree, SameSession
  <2>3. Promised(a)'
    BY <1>4, <2>2 DEF Promised, IsSaved, Lost
  <2>4. Newest(f.sess)' \in {f, Active'.auth}
    <3>1. (Newest(vault[a].cred.sess) \in {vault[a].cred, Active.auth})'
      BY <2>3 DEF KeptInPlace
    <3> QED
      BY <2>2, <3>1 DEF Newest
  <2> QED
    BY <1>2, <2>4
<1> QED
  BY <1>2, <1>3, <1>4 DEF SameSession, Lost, AccountIn, Newest

LEMMA ProceedsApplies ==
  ASSUME LatestStep, ServingStep, Proceeds
  PROVE  AppliedIsCurrent'
<1>0. /\ SwitchTypeOK /\ HistoryStep /\ ServedIsPending /\ AppliedIsCurrent /\ KeptInPlace'
  BY LatestFacts, ProceedsKeeps
<1>1. UNCHANGED <<backend, oauth, vault, nativeRev, applied, baseline>> /\ Op \in ops
  BY ServingFacts
<1>2. Op' = Op /\ (StillCurrent(Op)' <=> StillCurrent(Op))
  BY <1>1, ProceedsTo DEF StillCurrent, IsSaved
<1>3. CASE StartApply
  <2>1. StillCurrent(Op) /\ switch'.pc \in {"applied", "auth"}
        /\ (switch'.pc = "applied" => ApplyCompleted(Raw, Op.after))
    BY <1>0, <1>3, ServedMoves DEF StartApply
  <2>2. CASE switch'.pc = "auth"
    BY <1>2, <2>1, <2>2 DEF AppliedIsCurrent, Applying, At
  <2>3. CASE switch'.pc = "applied"
    <3>1. Active.auth = Op.after.auth
      BY <2>1, <2>3 DEF ApplyCompleted, Active
    <3>2. Active'.auth = Active.auth
      BY <1>0, <1>3, <2>3, ServedStore, ServedMoves
    <3> QED
      BY <1>0, <1>1, <1>2, <2>1, <3>1, <3>2, AppliedIsNewest DEF AppliedIsCurrent
  <2> QED
    BY <2>1, <2>2, <2>3
<1>4. CASE StartRollback \/ StartUndo \/ switch.back
  <2>1. switch'.pc = "undo" \/ switch'.back
    <3>1. StartRollback => switch'.back
      BY <1>0, ServedMoves
    <3>2. StartUndo => switch'.pc = "undo"
      BY <1>0, ServedMoves
    <3>3. switch'.back = switch.back \/ StartRollback
      BY <1>0, ServedMoves DEF Proceeds
    <3> QED
      BY <1>4, <3>1, <3>2, <3>3
  <2> QED
    BY <2>1 DEF AppliedIsCurrent, Applying, At
<1>5. CASE PutCredential /\ ~switch.back
  <2>1. StillCurrent(Op)
    BY <1>0, <1>5, ServedMoves DEF AppliedIsCurrent, At
  <2>2. Want = Op.after
    BY <1>5 DEF Want
  <2>3. Active'.auth = Op.after.auth
    BY <1>5, <2>2, ServedStore
  <2> QED
    BY <1>0, <1>1, <1>2, <2>1, <2>3, AppliedIsNewest DEF AppliedIsCurrent
<1>6. CASE (PutFallback \/ PutMetadata \/ PassOver) /\ ~switch.back
  <2>1. /\ switch.pc \in {"fallback", "meta", "verify"} /\ ~PutCredential
        /\ switch'.pc \in {"meta", "verify", "applied"}
    BY <1>0, <1>6, ServedMoves
  <2>2. Applying /\ Active'.auth = Active.auth
    BY <1>6, <2>1, ServedStore DEF Applying, At
  <2>3. PICK x \in AnyCred, f \in AnyCred : x = Active.auth /\ f = Op.after.auth
    BY <1>0, SwitchReads, LatestFacts
  <2>4. /\ StillCurrent(Op)
        /\ \/ x = NoCred \/ SameSession(x, f)
           \/ \A a \in Accounts : ~SameSession(vault[a].cred, x)
        /\ Op.to \in Accounts /\ SameSession(x, f) /\ ~Lost(f) => x = Newest(x.sess)
    BY <1>0, <2>2, <2>3 DEF AppliedIsCurrent
  <2>5. ~Lost(f)' => ~Lost(f)
    BY <1>0, LostStays
  <2>6. Active'.auth = x /\ Op'.after.auth = f /\ Op'.to = Op.to
    BY <1>2, <2>2, <2>3
  <2> QED
    BY <1>1, <1>2, <2>1, <2>4, <2>5, <2>6
    DEF AppliedIsCurrent, SameSession, Lost, AccountIn, Newest
<1> QED
  BY <1>3, <1>4, <1>5, <1>6 DEF Proceeds

LEMMA ProceedsReturns ==
  ASSUME LatestStep, ServingStep, Proceeds
  PROVE  RollbackIsSettled'
<1>0. /\ SwitchTypeOK /\ HistoryStep /\ ServedIsPending /\ SourcesFit /\ RollbackIsSettled
      /\ backend # "codex_auto"
  BY LatestFacts
<1>1. /\ UNCHANGED <<backend, oauth, vault, nativeRev, applied, baseline>> /\ Op \in ops
      /\ \A a : ~BeingMarked(a)
  BY ServingFacts
<1>2. Op' = Op /\ (Returning' => Returning)
  BY ProceedsTo
<1>3. PICK b \in AnyCred, f \in AnyCred : b = Op.before.auth /\ f = Op.after.auth
  BY <1>0, SwitchReads
<1>4. Op'.before.auth = b /\ Op'.after.auth = f
  BY <1>2, <1>3
<1>5. ASSUME Returning, Active'.auth \in {b, f} PROVE Settled(b)'
  <2>1. Active.auth \in {b, f}
    BY <1>3, <1>5, ServedStore
  <2>2. Settled(b)
    BY <1>0, <1>3, <1>5, <2>1 DEF RollbackIsSettled
  <2> QED
    BY <1>0, <1>1, <2>2, SettledStays
<1>6. ASSUME Returning, NEW a \in Accounts, SameSession(vault[a].cred, f)'
      PROVE  vault'[a].cred = f
  <2>1. SameSession(vault[a].cred, f)
    BY <1>1, <1>6 DEF SameSession
  <2>2. vault[a].cred = f
    BY <1>0, <1>3, <1>6, <2>1 DEF RollbackIsSettled
  <2> QED
    BY <1>1, <2>2
<1>7. ASSUME switch'.pc = "auth" PROVE switch'.raw.auth \in {b, f}
  <2>1. StartApply \/ StartRollback
    BY <1>0, <1>7, ServedMoves DEF Proceeds
  <2>2. switch'.raw.auth = Raw.auth
    BY <1>0, <2>1, ServedMoves
  <2>3. CASE StartApply
    <3>1. ApplyMayResume(backend, Raw, Op.before, Op.after, Op.prepared)
      BY <1>0, <1>7, <2>3, ServedMoves DEF StartApply
    <3>2. KnownAuth(Raw, Op.before, Op.after)
      BY <1>0, <3>1 DEF ApplyMayResume
    <3> QED
      BY <1>3, <2>2, <3>2 DEF KnownAuth
  <2>4. CASE StartRollback
    <3>1. RollbackMayStart(backend, Raw, Op.before, Op.after, Op.prepared, Op.prepared.source)
      BY <2>4 DEF StartRollback
    <3>2. Op.prepared.source = Raw.source
      BY <1>0, <1>1, OnePlace
    <3> QED
      BY <1>0, <1>3, <2>2, <3>1, <3>2, RollbackStarts
  <2> QED
    BY <2>1, <2>3, <2>4
<1>8. Settled(b)' => Settled(Op.before.auth)'
  BY <1>4 DEF Settled
<1> QED
  BY <1>2, <1>4, <1>5, <1>6, <1>7, <1>8 DEF RollbackIsSettled, SameSession, At

LEMMA LatestServing ==
  ASSUME LatestStep, ServingStep
  PROVE  LatestParts'
<1>1. CASE Refused
  BY <1>1, LatestRefused
<1>2. CASE Proceeds
  <2>1. UNCHANGED vault /\ ops' \subseteq ops
        /\ switch'.pc \in {"applied", "auth", "undone", "fallback", "meta", "verify", "undo"}
    BY <1>2, ServingFacts, ProceedsTo
  <2>2. BeforeIsSaved'
    BY <2>1, RowsStay
  <2>3. CaptureIsCurrent' /\ CaptureSaves'
    BY <2>1 DEF CaptureIsCurrent, CaptureSaves, Capturing
  <2> QED
    BY <1>2, <2>2, <2>3, ProceedsKeeps, ProceedsSettles, ProceedsApplies, ProceedsReturns
    DEF LatestParts
<1> QED
  BY <1>1, <1>2, ServingFacts

\* A commit marks the revision the store was given; a login given back is handed over.
LEMMA CommitSettles ==
  ASSUME LatestStep, EndingStep, At("commit"), switch'.pc = "finish", Op' = Op,
         switch'.queue = switch.queue, applied' = Op.state \/ Op.to = "release"
  PROVE  StoreIsSettled'
<1>0. /\ SwitchTypeOK /\ HistoryStep /\ ServedIsPending /\ AppliedIsCurrent /\ StatesAgree
      /\ StoreIsSettled /\ VaultHoldsOwnLogins
  BY LatestFacts
<1>1. UNCHANGED <<backend, disk, oauth, vault, nativeRev>>
  BY <1>0, EndingIs
<1>2. Op \in ops /\ Applying
  BY <1>0 DEF ServedIsPending, Serving, Writing, Applying, At
<1>3. PICK x \in AnyCred, f \in AnyCred : x = Active.auth /\ f = Op.after.auth
  BY <1>0, SwitchReads, LatestFacts
<1>4. Active'.auth = x
  BY <1>0, <1>1, <1>3, StoreAlone
<1>5. /\ StillCurrent(Op)
      /\ \/ x = NoCred \/ SameSession(x, f)
         \/ \A a \in Accounts : ~SameSession(vault[a].cred, x)
      /\ Op.to \in Accounts /\ SameSession(x, f) /\ ~Lost(f) => x = Newest(x.sess)
  BY <1>0, <1>2, <1>3 DEF AppliedIsCurrent
<1>6. CASE \E op \in Underway : op # Op /\ PutLogin(op)
  <2>1. PICK op \in Underway : op # Op /\ PutLogin(op)
    BY <1>6
  <2>2. Recovering /\ op \in switch.queue /\ op \in ops
    BY <1>0, <2>1, UnderwayIs DEF At
  <2>3. op \in Underway'
    BY <2>1, <2>2 DEF Underway, Recovering, At
  <2>4. PutLogin(op)'
    BY <1>3, <1>4, <2>1, <2>2, PutsAfter
  <2> QED
    BY <2>3, <2>4 DEF StoreIsSettled
<1>7. CASE Settled(x) \/ PutLogin(Op)
  <2>1. PutLogin(Op) => SameSession(x, f)
    BY <1>2, <1>3, PutsAfter
  <2>2. ASSUME x # NoCred, ~Lost(x)', SameSession(x, f)
        PROVE  /\ x = Newest(x.sess)'
               /\ \A a \in Accounts : IsSaved(a)' /\ SameSession(vault[a].cred, x)' => Linked(a)'
    <3>1. ~Lost(x) /\ ~Lost(f) /\ f # NoCred /\ AccountIn(x) = AccountIn(f)
      BY <1>0, <2>2, LostStays, SameLost DEF SameSession
    <3>2. Op.to \in Accounts
      <4> SUFFICES ASSUME Op.to \notin Accounts PROVE FALSE
        OBVIOUS
      <4>1. Op.state = NoApplied
        BY <1>0, <1>2 DEF StatesAgree
      <4>2. f.sess \in history'.handed
        <5>1. history'.handed = history.handed \cup
                IF At("commit") /\ switch'.pc = "finish" /\ Op.state = NoApplied
                     /\ Op.after.auth # NoCred
                  THEN {Op.after.auth.sess} ELSE {}
          BY <1>0 DEF HistoryStep
        <5> QED
          BY <1>3, <3>1, <4>1, <5>1
      <4> QED
        BY <2>2, <4>2 DEF Lost, SameSession
    <3>3. PICK t \in Accounts : t = Op.to
      BY <3>2
    <3>4. x = Newest(x.sess)
      BY <1>5, <2>2, <3>1, <3>2
    <3>5. Op.state.acct = t /\ (StillCurrent(Op) => vault[t].cred = f)
      BY <1>0, <1>2, <1>3, <3>2, <3>3 DEF StatesAgree
    <3>6. Op.state # NoApplied
      BY <3>5, AccountsAssumption DEF NoApplied
    <3>7. vault[t].rev = Op.state.rev /\ vault[t].cred = f
      BY <1>5, <3>5, <3>6 DEF StillCurrent
    <3>8. applied' = Op.state
      BY <3>2, TargetsAssumption
    <3>9. Linked(t)'
      BY <1>1, <3>5, <3>7, <3>8 DEF Linked
    <3>10. ASSUME NEW a \in Accounts, IsSaved(a)', SameSession(vault[a].cred, x)' PROVE a = t
      <4>1. IsSaved(a) /\ SameSession(vault[a].cred, x)
        BY <1>1, <3>10 DEF IsSaved, SameSession
      <4>2. AccountIn(vault[a].cred) = a /\ AccountIn(vault[a].cred) = AccountIn(x)
        BY <1>0, <4>1, SameLost DEF VaultHoldsOwnLogins
      <4>3. IsSaved(t)
        BY <3>1, <3>7 DEF IsSaved
      <4>4. AccountIn(f) = t
        BY <1>0, <3>7, <4>3 DEF VaultHoldsOwnLogins
      <4> QED
        BY <3>1, <4>2, <4>4
    <3> QED
      BY <1>1, <3>4, <3>9, <3>10 DEF Newest
  <2>3. ASSUME x # NoCred, ~Lost(x)', ~SameSession(x, f)
        PROVE  /\ x = Newest(x.sess)'
               /\ \A a \in Accounts : ~SameSession(vault[a].cred, x)'
    <3>1. Settled(x) /\ ~Lost(x)
      BY <1>0, <1>7, <2>1, <2>3, LostStays
    <3>2. x = Newest(x.sess)
      BY <2>3, <3>1 DEF Settled
    <3>3. \A a \in Accounts : ~SameSession(vault[a].cred, x)
      BY <1>5, <2>3
    <3> QED
      BY <1>1, <3>2, <3>3 DEF Newest, SameSession
  <2>4. Settled(x)'
    BY <2>2, <2>3 DEF Settled
  <2> QED
    BY <1>4, <2>4 DEF StoreIsSettled, Settled
<1> QED
  BY <1>0, <1>3, <1>6, <1>7 DEF StoreIsSettled

LEMMA LatestEnding ==
  ASSUME LatestStep, EndingStep
  PROVE  LatestParts'
<1>0. /\ SwitchTypeOK /\ HistoryStep /\ ServedIsPending /\ AppliedIsCurrent
      /\ RollbackIsSettled
  BY LatestFacts
<1>1. UNCHANGED <<backend, disk, oauth, vault, nativeRev>> /\ ops' \subseteq ops
  BY <1>0, EndingIs
<1>2. Active'.auth = Active.auth
  BY <1>0, <1>1, StoreAlone
<1>3. KeptInPlace' /\ BeforeIsSaved'
  BY <1>1, <1>2, KeptStays, RowsStay
<1>4. /\ switch.pc \in {"applied", "config", "undone", "commit", "finish"}
      /\ ~switch.back \/ switch.pc = "undone"
      /\ \A a : ~BeingMarked(a)
  <2>1. switch.pc \in {"applied", "config", "undone", "commit", "finish"}
    BY DEF EndingStep, Applied, WriteConfiguration, RolledBack, Commit, Finish, At
  <2> QED
    BY <1>0, <2>1 DEF ServedIsPending, Writing, BeingMarked, At
<1>5. CASE At("commit")
  <2>1. switch'.pc = "finish" /\ (applied' = Op.state \/ Op.to = "release")
    BY <1>0, <1>5, EndingIs DEF At
  <2>2. Op' = Op /\ switch'.queue = switch.queue
    BY <1>0, <2>1, EndingIs DEF Op
  <2>3. StoreIsSettled'
    BY <1>5, <2>1, <2>2, CommitSettles
  <2>4. CaptureIsCurrent' /\ CaptureSaves' /\ AppliedIsCurrent' /\ RollbackIsSettled'
    BY <2>1 DEF CaptureIsCurrent, CaptureSaves, AppliedIsCurrent, RollbackIsSettled, Applying,
                Returning, Capturing, Serving, Writing, At
  <2> QED
    BY <1>3, <2>3, <2>4 DEF LatestParts
<1>6. CASE At("undone") \/ At("finish")
  <2>1. /\ applied' = applied /\ switch'.pc \in {"idle", "recover"}
        /\ At("finish") /\ Recovering =>
             switch'.pc = "recover" /\ switch'.queue = switch.queue \ {Op}
    BY <1>0, <1>6, EndingIs, IdleIs, NextPendingIs DEF At
  <2>2. ASSUME NEW op \in Underway PROVE op \in Underway'
    <3>1. At("finish") /\ Recovering /\ op \in switch.queue \ {Op}
      BY <1>0, <1>6, <2>2 DEF Underway, At, Serving, Writing, ServedIsPending
    <3> QED
      BY <2>1, <3>1 DEF Underway, Recovering, At
  <2>3. StoreIsSettled'
    BY <1>1, <1>2, <1>4, <2>1, <2>2, StoreStaysSettled
  <2>4. CaptureIsCurrent' /\ CaptureSaves' /\ AppliedIsCurrent' /\ RollbackIsSettled'
    BY <2>1 DEF CaptureIsCurrent, CaptureSaves, AppliedIsCurrent, RollbackIsSettled, Applying,
                Returning, Capturing, Serving, Writing, At
  <2> QED
    BY <1>3, <2>3, <2>4 DEF LatestParts
<1>7. CASE At("applied") \/ At("config")
  <2>1. /\ applied' = applied
        /\ At("applied") => switch'.pc = IF Op.to = "release" THEN "commit" ELSE "config"
        /\ At("config") => switch'.pc = IF Op.to = "release" THEN "check" ELSE "commit"
    BY <1>0, <1>7, EndingIs DEF At, dbVars
  <2>2. Op' = Op /\ switch'.queue = switch.queue /\ switch'.back = switch.back
        /\ switch'.pc \in {"commit", "config", "check"}
    BY <1>0, <1>7, <2>1, EndingIs DEF Op
  <2>3. Underway' = Underway
    BY <1>7, <2>2 DEF Underway, Recovering, At, Serving, Writing
  <2>4. StoreIsSettled'
    BY <1>1, <1>2, <1>4, <2>1, <2>3, StoreStaysSettled
  <2>5. CaptureIsCurrent' /\ CaptureSaves'
    BY <2>2 DEF CaptureIsCurrent, CaptureSaves, Capturing
  <2>6. PICK x \in AnyCred, b \in AnyCred, f \in AnyCred :
          x = Active.auth /\ b = Op.before.auth /\ f = Op.after.auth
    BY <1>0, SwitchReads, LatestFacts
  <2>7. /\ Active'.auth = x /\ Op'.before.auth = b /\ Op'.after.auth = f /\ Op'.to = Op.to
        /\ (StillCurrent(Op)' <=> StillCurrent(Op))
    BY <1>1, <1>2, <2>2, <2>6 DEF StillCurrent, IsSaved
  <2>8. AppliedIsCurrent'
    <3> SUFFICES ASSUME Applying' PROVE AppliedIsCurrent'
      BY <2>2 DEF AppliedIsCurrent, At
    <3>1. Applying
      BY <1>4, <1>7, <2>1, <2>2 DEF Applying, At
    <3>2. /\ StillCurrent(Op)
          /\ \/ x = NoCred \/ SameSession(x, f)
             \/ \A a \in Accounts : ~SameSession(vault[a].cred, x)
          /\ Op.to \in Accounts /\ SameSession(x, f) /\ ~Lost(f) => x = Newest(x.sess)
      BY <1>0, <2>6, <3>1 DEF AppliedIsCurrent
    <3>3. ~Lost(f)' => ~Lost(f)
      BY <1>0, LostStays
    <3> QED
      BY <1>1, <2>7, <3>2, <3>3 DEF AppliedIsCurrent, SameSession, Lost, AccountIn, Newest
  <2>9. RollbackIsSettled'
    <3> SUFFICES ASSUME Returning' PROVE RollbackIsSettled'
      BY <2>2 DEF RollbackIsSettled, At
    <3>1. Returning
      BY <1>7, <2>1, <2>2 DEF Returning, Recovering, Serving, Writing, At
    <3>2. /\ x \in {b, f} => Settled(b)
          /\ \A a \in Accounts : SameSession(vault[a].cred, f) => vault[a].cred = f
      BY <1>0, <2>6, <3>1 DEF RollbackIsSettled
    <3>3. Settled(b) => Settled(b)'
      BY <1>0, <1>1, <1>4, <2>1, SettledStays
    <3>4. Settled(b)' => Settled(Op.before.auth)'
      BY <2>7 DEF Settled
    <3>5. switch'.pc # "auth"
      BY <2>2
    <3> QED
      BY <1>1, <2>7, <3>2, <3>3, <3>4, <3>5 DEF RollbackIsSettled, SameSession, At
  <2> QED
    BY <1>3, <2>4, <2>5, <2>8, <2>9 DEF LatestParts
<1> QED
  BY <1>4, <1>5, <1>6, <1>7 DEF At

\* A restart between a save and its mark loses the mark: the account is torn.
LEMMA RestartTears ==
  ASSUME LatestStep, At("mark") \/ At("imported"), switch'.pc = "recover",
         Active'.auth = Active.auth, UNCHANGED <<oauth, vault, nativeRev, applied>>
  PROVE  StoreIsSettled'
<1>0. SwitchTypeOK /\ HistoryStep /\ VaultHoldsOwnLogins
  BY LatestFacts
<1>1. PICK x \in AnyCred : x = Active.auth
  BY LatestFacts
<1>2. Settled(x)
  BY <1>1, RestingSettled DEF Capturing, At
<1>3. \A a : BeingMarked(a) => a \in history'.torn
  BY <1>0 DEF HistoryStep, BeingMarked, At
<1>4. ASSUME x # NoCred, ~Lost(x)', NEW a \in Accounts, IsSaved(a)',
             SameSession(vault[a].cred, x)'
      PROVE  Linked(a)'
  <2>1. IsSaved(a) /\ SameSession(vault[a].cred, x) /\ ~Lost(x)
    BY <1>0, <1>4, LostStays DEF IsSaved, SameSession
  <2>2. Linked(a) \/ BeingMarked(a)
    BY <1>2, <1>4, <2>1 DEF Settled
  <2>3. AccountIn(x) = a
    BY <1>0, <2>1, SameLost DEF VaultHoldsOwnLogins
  <2>4. AccountIn(x) \notin history'.torn
    BY <1>4 DEF Lost, AccountIn
  <2> QED
    BY <1>3, <2>2, <2>3, <2>4 DEF Linked
<1>5. x # NoCred /\ ~Lost(x)' => x = Newest(x.sess)'
  BY <1>0, <1>2, LostStays DEF Settled, Newest
<1>6. Settled(x)'
  BY <1>4, <1>5 DEF Settled
<1> QED
  BY <1>1, <1>6 DEF StoreIsSettled, Settled

LEMMA LatestStarting ==
  ASSUME LatestStep, StartingStep
  PROVE  LatestParts'
<1>0. SwitchTypeOK /\ HistoryStep /\ ServedIsPending /\ ~GivenUp
  BY LatestFacts
<1>1. UNCHANGED <<backend, disk, oauth, vault, nativeRev, applied, baseline>> /\ ops' \subseteq ops
  BY <1>0, StartingIs
<1>2. Active'.auth = Active.auth
  BY <1>0, <1>1, StoreAlone
<1>3. KeptInPlace' /\ BeforeIsSaved'
  BY <1>1, <1>2, KeptStays, RowsStay
<1>4. /\ switch'.pc \in {"recover", "config", "check", "inspect"}
      /\ switch'.pc = "config" => switch'.op.to = "release"
      /\ switch'.pc = "check" => switch'.queue # {}
  BY <1>0, StartingIs, NextPendingIs
<1>5. CaptureIsCurrent' /\ CaptureSaves'
  BY <1>4 DEF CaptureIsCurrent, CaptureSaves, Capturing
<1>6. AppliedIsCurrent'
  BY <1>4 DEF AppliedIsCurrent, Applying, At, Op
<1>7. RollbackIsSettled'
  BY <1>4 DEF RollbackIsSettled, Returning, Recovering, Serving, Writing, At, Op
<1>8. StoreIsSettled'
  <2>1. CASE switch'.pc = "recover" /\ switch'.queue = ops
    <3>1. CASE At("mark") \/ At("imported")
      BY <1>1, <1>2, <2>1, <3>1, RestartTears
    <3>2. CASE ~(At("mark") \/ At("imported"))
      <4>1. \A a : ~BeingMarked(a)
        BY <3>2 DEF BeingMarked
      <4>2. \A op \in Underway : op \in Underway'
        BY <1>0, <2>1, UnderwayIs DEF Underway, Recovering, At
      <4> QED
        BY <1>1, <1>2, <4>1, <4>2, StoreStaysSettled
    <3> QED
      BY <3>1, <3>2
  <2>2. CASE At("recover")
    <3>1. \A a : ~BeingMarked(a)
      BY <2>2 DEF BeingMarked, At
    <3>2. ASSUME NEW op \in Underway, PutLogin(op) PROVE op \in Underway'
      <4>0. op \in switch.queue /\ Recovering
        BY <1>0, <2>2, <3>2, UnderwayIs DEF Recovering
      <4>1. CASE switch'.pc \in {"config", "check"} /\ switch'.queue = switch.queue
        BY <4>0, <4>1 DEF Underway, Recovering, At
      <4>2. ASSUME NEW next \in switch.queue, switch' = NextPending(next), left' = left
            PROVE  op \in Underway'
        <5>1. switch'.pc = "recover" /\ switch'.queue = switch.queue \ {next}
          BY <1>0, <4>2, NextPendingIs
        <5>2. ~Written(next)
          BY <1>0, <2>2, <4>2, <5>1 DEF GivenUp, At
        <5>3. op # next
          BY <3>2, <5>2 DEF Written
        <5> QED
          BY <4>0, <5>1, <5>3 DEF Underway, Recovering, At
      <4>3. CASE switch'.pc = "recover" /\ switch'.queue = ops
        BY <1>0, <4>0, <4>3 DEF ServedIsPending, Underway, Recovering, At
      <4> QED
        BY <1>0, <2>2, <4>0, <4>1, <4>2, <4>3, StartingIs DEF At
    <3> QED
      BY <1>1, <1>2, <3>1, <3>2, StoreStaysSettled
  <2>3. CASE At("idle")
    <3>1. \A a : ~BeingMarked(a)
      BY <2>3 DEF BeingMarked, At
    <3>2. Underway = {}
      BY <2>3, RestingSettled DEF At
    <3> QED
      BY <1>1, <1>2, <3>1, <3>2, StoreStaysSettled
  <2> QED
    BY <1>0, <2>1, <2>2, <2>3, StartingIs DEF At
<1> QED
  BY <1>3, <1>5, <1>6, <1>7, <1>8 DEF LatestParts

LEMMA LatestInit == SwitchInit => LatestInv
<1> SUFFICES ASSUME SwitchInit PROVE LatestInv
  OBVIOUS
<1>0. SwitchTypeOK /\ PlacesFit
  BY InitTyped, PlacesInit
<1>1. /\ switch.pc = "idle" /\ ops = {} /\ \A a : ~IsSaved(a)
  BY IdleIs DEF SwitchInit, IsSaved
<1>2. PICK s \in Sessions \cup {NoCred} :
        LET c == IF s = NoCred THEN NoCred ELSE [sess |-> s, gen |-> 0] IN
        /\ disk = [secure |-> IF FileOnly(backend) THEN NoCred ELSE c,
                   file |-> IF FileOnly(backend) THEN c ELSE NoCred,
                   meta |-> IF IsClaude(backend) THEN AccountIn(c) ELSE NoAccount,
                   reachable |-> ~FileOnly(backend)]
        /\ oauth = [begun |-> {s} \cap Sessions, newest |-> [t \in Sessions |-> 0]]
  BY DEF SwitchInit
<1> DEFINE c == IF s = NoCred THEN NoCred ELSE [sess |-> s, gen |-> 0]
<1>3. c = NoCred \/ c = Newest(c.sess)
  BY <1>2 DEF Newest
<1> HIDE DEF c
<1>4. disk.file \in {c, NoCred} /\ disk.secure \in {c, NoCred}
  BY <1>2 DEF c
<1>5. Active.auth \in {c, NoCred}
  BY <1>0, <1>4, StoreReads
<1>6. StoreIsSettled /\ KeptInPlace
  BY <1>1, <1>3, <1>5 DEF StoreIsSettled, Settled, KeptInPlace, Promised
<1>7. /\ BeforeIsSaved /\ CaptureIsCurrent /\ CaptureSaves /\ AppliedIsCurrent
      /\ RollbackIsSettled
  BY <1>1 DEF BeforeIsSaved, CaptureIsCurrent, CaptureSaves, AppliedIsCurrent, RollbackIsSettled,
    Applying, Returning, Capturing, Serving, Writing, At
<1> QED
  BY <1>0, <1>6, <1>7 DEF LatestInv, LatestParts

LEMMA LatestStutters ==
  ASSUME LatestInv, UNCHANGED switchVars
  PROVE  LatestInv'
<1>0. UNCHANGED <<backend, disk, oauth, vault, nativeRev, removed, owner, applied,
                  baseline, active, selector, ops, switch, left, history>>
  BY DEF switchVars
<1>1. /\ Active' = Active /\ Raw' = Raw /\ Op' = Op /\ Underway' = Underway
      /\ \A op : PutLogin(op)' <=> PutLogin(op)
  BY <1>0, StoreStays DEF Op, Underway, Recovering, At, PutLogin, Place
<1>2. /\ \A c : (Settled(c)' <=> Settled(c)) /\ (Lost(c)' <=> Lost(c))
      /\ \A a : Promised(a)' <=> Promised(a)
      /\ StillCurrent(Op)' <=> StillCurrent(Op)
  BY <1>0, <1>1 DEF Settled, Lost, Promised, IsSaved, Linked, BeingMarked, Newest, At,
    StillCurrent
<1>3. PlacesFit' <=> PlacesFit
  BY <1>0 DEF PlacesFit
<1>4. (StoreIsSettled' <=> StoreIsSettled) /\ (KeptInPlace' <=> KeptInPlace)
  BY <1>0, <1>1, <1>2 DEF StoreIsSettled, KeptInPlace, Newest
<1>5. (BeforeIsSaved' <=> BeforeIsSaved)
  BY <1>0, <1>1, <1>2 DEF BeforeIsSaved
<1>6. (CaptureIsCurrent' <=> CaptureIsCurrent)
  BY <1>0, <1>1, <1>2 DEF CaptureIsCurrent, Newest
<1>7. (CaptureSaves' <=> CaptureSaves)
  BY <1>0, <1>1, <1>2 DEF CaptureSaves, IsSaved, Linked, At
<1>8. (AppliedIsCurrent' <=> AppliedIsCurrent)
  BY <1>0, <1>1, <1>2 DEF AppliedIsCurrent, Applying, Newest, At
<1>9. (RollbackIsSettled' <=> RollbackIsSettled)
  BY <1>0, <1>1, <1>2 DEF RollbackIsSettled, Returning, Recovering, At
<1> QED
  BY <1>0, <1>3, <1>4, <1>5, <1>6, <1>7, <1>8, <1>9 DEF LatestInv, LatestParts

LEMMA LatestInvStep ==
  ASSUME SwitchInv, LatestInv, SwitchNext
  PROVE  LatestInv'
<1>0. SwitchInv' /\ SwitchSteps /\ HistoryStep
  BY InvStep DEF SwitchNext
<1>1. SwitchTypeOK /\ ServedIsPending /\ SourcesFit /\ PlacesFit
  BY DEF SwitchInv, LatestInv
<1>2. PlacesFit' /\ backend' = backend
  BY <1>0, <1>1, PlacesStep, PlacesAre
<1>3. ASSUME backend # "codex_auto", ~history'.half PROVE LatestParts'
  <2>1. ~history.half
    BY <1>0, <1>1, <1>3, HistoryIs
  <2>2. LatestStep
    BY <1>0, <1>2, <1>3, <2>1 DEF LatestStep, LatestInv
  <2> QED
    BY <1>0, <2>2, StepsAre, LatestClient, LatestVault, LatestBegin, LatestCapture, LatestOpen,
      LatestServing, LatestEnding, LatestStarting
<1> QED
  BY <1>2, <1>3 DEF LatestInv

THEOREM LatestInvariant == SwitchingSpec => [](SwitchInv /\ LatestInv)
<1>1. SwitchInv /\ LatestInv /\ [SwitchNext]_switchVars => LatestInv'
  BY LatestInvStep, LatestStutters
<1> QED
  BY <1>1, LatestInit, SwitchInvariant, PTL DEF SwitchingSpec

\* In every layout but Codex's automatic choice of a place, the newest refresh of a saved
\* session is in the vault or where the client reads it, whatever is switched, refused,
\* rolled back or interrupted: the daemon never keeps only a token that the server has
\* replaced.  The exceptions are the property's own: an operation given up half way, a
\* save torn from its mark, a session handed back or taken away by another login.
THEOREM LatestStaysKept == SwitchingSpec => [](backend # "codex_auto" => LatestIsKept)
<1>1. SwitchInv /\ LatestInv => (backend # "codex_auto" => LatestIsKept)
  <2> SUFFICES ASSUME SwitchInv, LatestInv, backend # "codex_auto", ~history.half,
                      NEW a \in Accounts, IsSaved(a), a \notin history.torn,
                      vault[a].cred.sess \notin history.handed,
                      vault[a].cred.sess \notin history.dropped
               PROVE  Newest(vault[a].cred.sess) \in {vault[a].cred, disk.file, disk.secure}
    BY DEF LatestIsKept, Kept
  <2>1. KeptInPlace /\ VaultHoldsOwnLogins /\ SwitchTypeOK
    BY DEF LatestInv, LatestParts, SwitchInv, WholeParts
  <2>2. AccountIn(vault[a].cred) = a
    BY <2>1 DEF VaultHoldsOwnLogins
  <2>3. Promised(a)
    BY <2>2 DEF Promised, Lost
  <2>4. Newest(vault[a].cred.sess) \in {vault[a].cred, Active.auth}
    BY <2>1, <2>3 DEF KeptInPlace
  <2>5. Active.auth \in {disk.file, disk.secure}
    BY <2>1, StoreReads
  <2> QED
    BY <2>4, <2>5
<1> QED
  BY <1>1, LatestInvariant, PTL
=============================================================================
