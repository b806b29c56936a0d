---------------------------- MODULE StoreProofs ----------------------------
(***************************************************************************)
(* Proofs about two components of what the daemon keeps: the adoption of a *)
(* configuration without a record, for any number of edits and crashes,    *)
(* and the lock directories shared with the clients, one system call at a  *)
(* time, for any processes, paths, inode numbers and bounds.               *)
(***************************************************************************)
EXTENDS LegacyClaim, NativeLocks, TLAPS

-----------------------------------------------------------------------------
(* LegacyClaim                                                             *)


FileStates == [config : Configs, auth : {"hsin", "other"}]
Receipts == [owner : {"none", "me", "peer"}, print : Prints]
ClaimSteps == {"look", "lock", "prove", "print", "stage", "publish", "forget", "done", "down"}

ShapesOK ==
  /\ legacy \in [client : {"codex", "claude"}, journal : BOOLEAN, matches : BOOLEAN,
                 pendingOp : BOOLEAN, snapshot : BOOLEAN, unlocked : BOOLEAN,
                 manages : BOOLEAN]
  /\ files \in FileStates
  /\ backup \in {"none", "plain", "foreign", "bound"}
  /\ store \in [receipt : Receipts, lease : BOOLEAN, required : BOOLEAN, block : Blocks]
  /\ record \in Receipts
  /\ status \in {"pending", "conflict", "synchronized"}
  /\ claim \in [pc : ClaimSteps, seen : FileStates, print : Prints]
  /\ spent \in [edits : Nat, crashes : Nat]

\* A staged claim is of the journalled write, and has its lease.
ReceiptsAreOwn == store.receipt # NoReceipt => store.receipt = Mine("hsin") /\ store.lease

\* Between the proof and the transaction nothing is stored yet, and what the
\* proof saw was the journalled write with the backup that belongs to it.
ProofStands ==
  claim.pc \in {"print", "stage"} =>
    /\ store.receipt = NoReceipt /\ ~store.lease
    /\ claim.seen.config = "hsin"
    /\ backup \in {"none", "plain"}

\* A fingerprint of other contents is of files that were edited since the proof.
PrintIsOfProof ==
  claim.pc = "stage" /\ files = claim.seen => claim.print = "hsin"

\* A claim is published with its receipt, and forgotten with its record.
ClaimIsStored ==
  /\ claim.pc \in {"publish", "forget"} => store.receipt # NoReceipt
  /\ claim.pc = "forget" => record = store.receipt

ClaimInv ==
  /\ ShapesOK
  /\ AdoptsOnlyItsWrite /\ RecordIsBacked /\ ReboundWithLease /\ LeaseIsAccounted
  /\ ReceiptsAreOwn /\ ProofStands /\ PrintIsOfProof /\ ClaimIsStored

-----------------------------------------------------------------------------
LEMMA NoReceiptIs ==
  /\ NoReceipt \in Receipts /\ Mine("hsin") \in Receipts /\ Mine("hsin") # NoReceipt
  /\ NoReceipt.owner = "none" /\ NoRecord = NoReceipt
  /\ \A print \in Prints : Mine(print) \in Receipts /\ Mine(print).owner = "me"
                           /\ Mine(print).print = print /\ Mine(print) # NoReceipt
BY DEF NoReceipt, Receipts, Mine, NoRecord, Prints, NoPrint, Configs

LEMMA InitClaimInv == LegacyInit => ClaimInv
BY NoReceiptIs
DEF LegacyInit, ClaimInv, ShapesOK, FileStates, ClaimSteps, Blocks, Prints, NoPrint,
    AdoptsOnlyItsWrite, RecordIsBacked, ReboundWithLease, LeaseIsAccounted,
    ReceiptsAreOwn, ProofStands, PrintIsOfProof, ClaimIsStored

\* The proof ends the migration of the client, or goes on with what it saw.
LEMMA Proved ==
  ASSUME ProveClaim
  PROVE  /\ UNCHANGED <<legacy, files, backup, record, spent>>
         /\ \/ /\ Proof = "none" /\ claim' = [claim EXCEPT !.pc = "print", !.seen = files]
               /\ UNCHANGED <<store, status>>
            \/ \E block \in Blocks : Outcome(block)
            \/ LockedOut
<1>1. Proof \in Blocks /\ "none" \in Blocks
  BY DEF Proof, Blocks
<1> QED
  BY <1>1 DEF ProveClaim

\* The transaction stores receipt, lease and rebound backup of what was proved.
LEMMA Staged ==
  ASSUME ClaimInv, StageClaim, files = claim.seen
  PROVE  /\ UNCHANGED <<legacy, files, record, status, spent>>
         /\ claim' = [claim EXCEPT !.pc = "publish"]
         /\ \/ /\ backup = "none" /\ backup' = "none"
               /\ store' = [store EXCEPT !.receipt = Mine("hsin"), !.lease = TRUE, !.required = FALSE]
            \/ /\ backup = "plain" /\ backup' = "bound"
               /\ store' = [store EXCEPT !.receipt = Mine("hsin"), !.lease = TRUE, !.required = TRUE]
<1>1. claim.print = "hsin" /\ backup \in {"none", "plain"}
  BY DEF ClaimInv, ProofStands, PrintIsOfProof, StageClaim, ClaimAt
<1>2. CASE backup = "none"
  <2>1. (backup # "none") = FALSE /\ backup # "plain"
    BY <1>2
  <2> QED
    BY <1>1, <1>2, <2>1, Zenon DEF StageClaim, ClaimGoto
<1>3. CASE backup = "plain"
  <2>1. (backup # "none") = TRUE
    BY <1>3
  <2> QED
    BY <1>1, <1>3, <2>1, Zenon DEF StageClaim, ClaimGoto
<1> QED
  BY <1>1, <1>2, <1>3

\* Every variable keeps its shape.
LEMMA ShapesStep == ClaimInv /\ [LegacyNext]_legacyVars => ShapesOK'
<1> SUFFICES ASSUME ClaimInv, [LegacyNext]_legacyVars PROVE ShapesOK'
  OBVIOUS
<1> USE NoReceiptIs DEF ClaimInv, ShapesOK, ClaimAt, ClaimGoto, Outcome, LockedOut, ClaimSteps
<1>1. CASE LookForLegacy
  BY <1>1 DEF LookForLegacy, Blocks
<1>2. CASE ProveClaim
  <2>1. CASE claim' = [claim EXCEPT !.pc = "print", !.seen = files] /\ UNCHANGED <<store, status>>
    <3>1. claim' \in [pc : ClaimSteps, seen : FileStates, print : Prints]
      BY <2>1
    <3> QED
      BY <1>2, <2>1, <3>1, Proved
  <2>2. CASE LockedOut \/ \E block \in Blocks : Outcome(block)
    BY <1>2, <2>2, Proved
  <2> QED
    BY <1>2, <2>1, <2>2, Proved
<1>3. CASE Fingerprint
  <2>1. files.config \in Prints
    BY DEF FileStates, Prints
  <2> QED
    <3>1. claim' \in [pc : ClaimSteps, seen : FileStates, print : Prints]
      BY <1>3, <2>1 DEF Fingerprint
    <3>2. /\ legacy' = legacy /\ files' = files /\ backup' = backup /\ store' = store
          /\ record' = record /\ status' = status /\ spent' = spent
      BY <1>3 DEF Fingerprint
    <3> QED
      BY <3>1, <3>2
<1>4. CASE StageClaim
  <2>1. CASE files # claim.seen
    BY <1>4, <2>1 DEF StageClaim, Blocks
  <2>2. CASE files = claim.seen
    <3>1. store' \in [receipt : Receipts, lease : BOOLEAN, required : BOOLEAN, block : Blocks]
      BY <1>4, <2>2, Staged
    <3>2. claim' \in [pc : ClaimSteps, seen : FileStates, print : Prints]
      BY <1>4, <2>2, Staged
    <3> QED
      BY <1>4, <2>2, <3>1, <3>2, Staged
  <2> QED
    BY <2>1, <2>2
<1>5. CASE PublishClaim
  BY <1>5 DEF PublishClaim, Blocks
<1>6. CASE ForgetReceipt
  BY <1>6 DEF ForgetReceipt, Blocks
<1>7. CASE UserEdits
  BY <1>7 DEF UserEdits, FileStates
<1>8. CASE PeerClaims
  BY <1>8 DEF PeerClaims, FileStates, Receipts, Prints
<1>9. CASE StopMigration
  BY <1>9 DEF StopMigration
<1>10. CASE MigrateAgain
  BY <1>10 DEF MigrateAgain, Prints
<1>11. CASE UNCHANGED legacyVars
  BY <1>11 DEF legacyVars
<1>12. CASE LockTarget
  BY <1>12 DEF LockTarget, Blocks
<1> QED
  BY <1>1, <1>2, <1>3, <1>4, <1>5, <1>6, <1>7, <1>8, <1>9, <1>10, <1>11, <1>12 DEF LegacyNext

\* What is stored of the claim, and what the record says of it.
LEMMA StoredStep ==
  ClaimInv /\ [LegacyNext]_legacyVars =>
    ReceiptsAreOwn' /\ ProofStands' /\ PrintIsOfProof' /\ ClaimIsStored'
<1> SUFFICES ASSUME ClaimInv, [LegacyNext]_legacyVars
             PROVE  ReceiptsAreOwn' /\ ProofStands' /\ PrintIsOfProof' /\ ClaimIsStored'
  OBVIOUS
<1> USE NoReceiptIs
    DEF ClaimInv, ShapesOK, ClaimAt, ClaimGoto, Outcome, LockedOut,
        ReceiptsAreOwn, ProofStands, PrintIsOfProof, ClaimIsStored
<1>1. CASE LookForLegacy
  BY <1>1 DEF LookForLegacy
<1>2. CASE ProveClaim
  <2>1. CASE Proof = "none" /\ claim' = [claim EXCEPT !.pc = "print", !.seen = files]
             /\ UNCHANGED <<store, status>>
    <3>1. ~store.lease /\ files.config = "hsin" /\ backup # "foreign"
      BY <2>1 DEF Proof, HoldsItsWrite, BackupFits
    <3>2. backup # "bound" /\ store.receipt = NoReceipt
      BY <3>1 DEF ReboundWithLease
    <3> QED
      BY <1>2, <2>1, <3>1, <3>2, Proved
  <2>2. CASE LockedOut \/ \E block \in Blocks : Outcome(block)
    BY <1>2, <2>2, Proved
  <2> QED
    BY <1>2, <2>1, <2>2, Proved
<1>3. CASE Fingerprint
  BY <1>3 DEF Fingerprint
<1>4. CASE StageClaim
  <2>1. CASE files # claim.seen
    BY <1>4, <2>1 DEF StageClaim
  <2>2. CASE files = claim.seen
    <3>1. store'.receipt = Mine("hsin") /\ store'.lease /\ claim'.pc = "publish"
      BY <1>4, <2>2, Staged
    <3> QED
      BY <3>1
  <2> QED
    BY <2>1, <2>2
<1>5. CASE PublishClaim
  BY <1>5 DEF PublishClaim
<1>6. CASE ForgetReceipt
  BY <1>6 DEF ForgetReceipt
<1>7. CASE UserEdits
  BY <1>7 DEF UserEdits
<1>8. CASE PeerClaims
  BY <1>8 DEF PeerClaims
<1>9. CASE StopMigration
  BY <1>9 DEF StopMigration
<1>10. CASE MigrateAgain
  BY <1>10 DEF MigrateAgain
<1>11. CASE UNCHANGED legacyVars
  BY <1>11 DEF legacyVars
<1>12. CASE LockTarget
  BY <1>12 DEF LockTarget
<1> QED
  BY <1>1, <1>2, <1>3, <1>4, <1>5, <1>6, <1>7, <1>8, <1>9, <1>10, <1>11, <1>12 DEF LegacyNext

\* What the claim promises.
LEMMA PromisesStep ==
  ClaimInv /\ [LegacyNext]_legacyVars =>
    AdoptsOnlyItsWrite' /\ RecordIsBacked' /\ ReboundWithLease' /\ LeaseIsAccounted'
<1> SUFFICES ASSUME ClaimInv, [LegacyNext]_legacyVars
             PROVE  AdoptsOnlyItsWrite' /\ RecordIsBacked' /\ ReboundWithLease' /\ LeaseIsAccounted'
  OBVIOUS
<1> USE NoReceiptIs
    DEF ClaimInv, ShapesOK, ClaimAt, ClaimGoto, Outcome, LockedOut, Codex,
        AdoptsOnlyItsWrite, RecordIsBacked, ReboundWithLease, LeaseIsAccounted
<1>1. CASE LookForLegacy
  BY <1>1 DEF LookForLegacy
<1>2. CASE ProveClaim
  BY <1>2 DEF ProveClaim
<1>3. CASE Fingerprint
  BY <1>3 DEF Fingerprint
<1>4. CASE StageClaim
  <2>1. CASE files # claim.seen
    BY <1>4, <2>1 DEF StageClaim
  <2>2. CASE files = claim.seen
    <3>1. /\ store'.receipt = Mine("hsin") /\ store'.lease
          /\ record' = record /\ legacy' = legacy
          /\ backup' = "bound" => store'.required
      BY <1>4, <2>2, Staged
    <3>2. store'.required => backup' = "bound"
      BY <1>4, <2>2, Staged
    <3>3. Mine("hsin").print = "hsin"
      BY DEF Mine
    <3> QED
      BY <3>1, <3>2, <3>3
  <2> QED
    BY <2>1, <2>2
<1>5. CASE PublishClaim
  BY <1>5 DEF PublishClaim, ReceiptsAreOwn, ClaimIsStored
<1>6. CASE ForgetReceipt
  <2>1. record = Mine("hsin")
    BY <1>6 DEF ForgetReceipt, ClaimIsStored, ReceiptsAreOwn
  <2>2. record.owner = "me"
    BY <2>1 DEF Mine
  <2> QED
    BY <1>6, <2>2 DEF ForgetReceipt
<1>7. CASE UserEdits
  BY <1>7 DEF UserEdits
<1>8. CASE PeerClaims
  BY <1>8 DEF PeerClaims
<1>9. CASE StopMigration
  BY <1>9 DEF StopMigration
<1>10. CASE MigrateAgain
  BY <1>10 DEF MigrateAgain
<1>11. CASE UNCHANGED legacyVars
  BY <1>11 DEF legacyVars
<1>12. CASE LockTarget
  BY <1>12 DEF LockTarget
<1> QED
  BY <1>1, <1>2, <1>3, <1>4, <1>5, <1>6, <1>7, <1>8, <1>9, <1>10, <1>11, <1>12 DEF LegacyNext

LEMMA ClaimInvariance == LegacySpec => []ClaimInv
<1>1. ClaimInv /\ [LegacyNext]_legacyVars => ClaimInv'
  BY ShapesStep, StoredStep, PromisesStep DEF ClaimInv
<1> QED
  BY InitClaimInv, <1>1, PTL DEF LegacySpec

-----------------------------------------------------------------------------
\* A legacy configuration is adopted only as hsin wrote it, with the lease and the
\* backup that a release needs, whatever is edited and wherever the daemon stops.
THEOREM ClaimsStaySound == LegacySpec => []ClaimsAreSound
<1>1. ClaimInv => ClaimsAreSound
  BY DEF ClaimInv, ShapesOK, ClaimsAreSound, LegacyTypeOK, Receipts
<1> QED
  BY <1>1, ClaimInvariance, PTL

\* The record of another instance is never replaced (publish_claim).
THEOREM PeersRecordStays == LegacySpec => PeerRecordIsKept
<1>1. ClaimInv /\ [LegacyNext]_legacyVars =>
        [record.owner = "peer" => record' = record]_legacyVars
  <2> SUFFICES ASSUME ClaimInv, LegacyNext, record.owner = "peer" PROVE record' = record
    BY DEF legacyVars
  <2>1. record # NoRecord /\ record # store.receipt
    BY NoReceiptIs DEF ClaimInv, ReceiptsAreOwn, Mine
  <2> QED
    BY <2>1
    DEF LegacyNext, LookForLegacy, LockTarget, ProveClaim, Fingerprint, StageClaim, PublishClaim,
        ForgetReceipt, UserEdits, PeerClaims, StopMigration, MigrateAgain
<1> QED
  BY <1>1, ClaimInvariance, PTL DEF LegacySpec, PeerRecordIsKept

-----------------------------------------------------------------------------
(* NativeLocks                                                             *)

Directories == [ino : Inodes, stamp : Nat, made : Nat, by : Lockers, stale : BOOLEAN]
Handles == [path : Paths, ino : Inodes, made : Nat, by : Lockers]
LockerSteps == {"idle", "make", "look", "again", "rmdir", "remake", "stat", "open", "undo",
                "unmake", "held", "drop", "unlink"}
LockerStates == [pc : LockerSteps, next : DOMAIN LockPaths, held : SUBSET Handles,
                 seen : Directories \cup {NoDir}, compromised : BOOLEAN]

LocksTypeOK ==
  /\ locks \in [Paths -> Directories \cup {NoDir}]
  /\ clock \in Nat /\ stalled \in SUBSET Paths
  /\ locker \in [Lockers -> LockerStates]

\* What a path names under the number of an open directory is that directory.
LeasesAreTheirs ==
  \A q \in Lockers : \A h \in locker[q].held :
    Owned(h) => locks[h.path].made = h.made /\ locks[h.path].by = h.by

\* The steps that take one lease after the other.
Taking == {"make", "look", "again", "rmdir", "remake", "stat", "open", "undo", "unmake"}
HasLease(x, i) == \E h \in x.held : h.path = LockPaths[i]

\* Whoever takes the next lease has all before it, and a holder has all.
EarlierAreHeld ==
  \A q \in Lockers : \A i \in DOMAIN LockPaths :
    locker[q].pc = "held" \/ (locker[q].pc \in Taking /\ i < locker[q].next) =>
      HasLease(locker[q], i)

\* No modification time is in the future.
StampsArePast ==
  /\ \A p \in Paths : locks[p] # NoDir => locks[p].stamp <= clock
  /\ \A q \in Lockers : locker[q].pc = "again" =>
       /\ locker[q].seen \in Directories /\ locker[q].seen.stale
       /\ locker[q].seen.stamp <= clock

\* What has the time that was seen has not been touched since: it is still stale.
SeenStaysStale ==
  \A q \in Lockers : locker[q].pc = "again" /\ SameLease(locker[q].seen, AtPath(q)) =>
    AtPath(q).stale

\* Where no directory ever went stale, what there is belongs to the one process
\* that made it, until that process removes it.
MakerKeeps(p, q) ==
  /\ \A h \in locker[q].held : h.path = p =>
       locks[p] # NoDir /\ locks[p].by = q
  /\ NextPath(q) = p =>
       /\ locker[q].pc \notin {"again", "rmdir", "remake"}
       /\ locker[q].pc \in {"stat", "open", "undo", "unmake", "unlink"} =>
            locks[p] # NoDir /\ locks[p].by = q
       /\ locker[q].pc \in {"stat", "open", "undo", "unmake"} =>
            \A h \in locker[q].held : h.path # p

SoundPathsKeep ==
  \A p \in Paths \ stalled : \A q \in Lockers :
    (locks[p] # NoDir => ~locks[p].stale) /\ MakerKeeps(p, q)

LocksInv ==
  /\ LocksTypeOK /\ LeasesAreTheirs /\ EarlierAreHeld /\ StampsArePast /\ SeenStaysStale
  /\ ConfirmedWasStale /\ SoundPathsKeep

-----------------------------------------------------------------------------
LEMMA PathFacts ==
  /\ Len(LockPaths) \in Nat /\ DOMAIN LockPaths = 1..Len(LockPaths) /\ 1 \in DOMAIN LockPaths
  /\ \A i \in DOMAIN LockPaths : LockPaths[i] \in Paths
  /\ \A p \in Paths : \E i \in DOMAIN LockPaths : p = LockPaths[i]
BY LocksAssumption DEF Paths

LEMMA OutsideIs ==
  /\ Outside \in LockerStates
  /\ Outside.pc = "idle" /\ Outside.next = 1 /\ Outside.held = {}
BY PathFacts DEF Outside, LockerStates, LockerSteps

LEMMA InitLocksInv == LocksInit => LocksInv
<1> SUFFICES ASSUME LocksInit PROVE LocksInv
  OBVIOUS
<1>1. LocksTypeOK
  BY OutsideIs DEF LocksInit, LocksTypeOK
<1>2. \A q \in Lockers : locker[q].pc = "idle" /\ locker[q].next = 1 /\ locker[q].held = {}
  BY OutsideIs DEF LocksInit
<1>3. \A p \in Paths : locks[p] = NoDir
  BY DEF LocksInit
<1> QED
  BY <1>1, <1>2, <1>3
  DEF LocksInv, LeasesAreTheirs, EarlierAreHeld, Taking, StampsArePast, SeenStaysStale,
      ConfirmedWasStale, SoundPathsKeep, MakerKeeps

LEMMA NextPathIs == LocksTypeOK => \A q \in Lockers : NextPath(q) \in Paths
BY PathFacts DEF LocksTypeOK, LockerStates, NextPath

-----------------------------------------------------------------------------
(* What the steps do, in kinds.                                            *)

\* Only `q` changes its state, to one of these.
Alone(q) ==
  /\ locker' \in [Lockers -> LockerStates]
  /\ \A r \in Lockers \ {q} : locker'[r] = locker[r]
Stays(q) == locker'[q].held = locker[q].held /\ locker'[q].next = locker[q].next
Leaves(q) ==
  \/ locker'[q].pc = "drop" /\ locker'[q].held \subseteq locker[q].held
  \/ locker'[q].pc = "idle" /\ locker'[q].held = {}
  \/ locker'[q].pc = "make" /\ locker'[q].held = {} /\ locker'[q].next = 1

\* A step of `q` that leaves the paths as they are.
Quiet(q) ==
  /\ UNCHANGED <<locks, clock, stalled>> /\ Alone(q)
  /\ \/ Leaves(q)
     \/ /\ Stays(q)
        /\ \/ locker[q].pc = "make" /\ locker'[q].pc = "look"
           \/ /\ locker[q].pc = "look" /\ locker'[q].pc = "again"
              /\ AtPath(q) # NoDir /\ AtPath(q).stale /\ locker'[q].seen = AtPath(q)
           \/ /\ locker[q].pc = "again" /\ locker'[q].pc = "rmdir"
              /\ SameLease(locker[q].seen, AtPath(q)) /\ locker'[q].seen = AtPath(q)
           \/ locker[q].pc = "stat" /\ locker'[q].pc = "open"
           \/ locker[q].pc = "open" /\ locker'[q].pc = "undo"
           \/ locker[q].pc = "undo" /\ locker'[q].pc = "unmake"
           \/ locker[q].pc = "held" /\ locker'[q].pc = "held"
           \/ /\ locker[q].pc = "drop" /\ locker'[q].pc = "unlink"
              /\ \E h \in locker[q].held : h.path = NextPath(q)

\* `q` opens what it saw.
Opens(q) ==
  /\ UNCHANGED <<locks, clock, stalled>> /\ Alone(q)
  /\ locker[q].pc = "open" /\ AtPath(q) # NoDir
  /\ \E h \in Handles :
       /\ h.path = NextPath(q) /\ h.ino = AtPath(q).ino /\ h.made = AtPath(q).made
       /\ h.by = AtPath(q).by
       /\ locker'[q].held = locker[q].held \cup {h}
  /\ \/ locker[q].next = Len(LockPaths) /\ locker'[q].pc = "held"
     \/ locker'[q].pc = "make" /\ locker'[q].next = locker[q].next + 1

\* `q` makes a directory, with a number that nobody holds.
Makes(q) ==
  /\ UNCHANGED stalled /\ clock' = clock + 1 /\ Alone(q) /\ Stays(q)
  /\ locker[q].pc \in {"make", "remake"} /\ locker'[q].pc = "stat"
  /\ AtPath(q) = NoDir
  /\ \E d \in Directories :
       /\ d.ino \notin OpenInodes /\ d.by = q /\ d.stamp = clock + 1 /\ ~d.stale
       /\ locks' = [locks EXCEPT ![NextPath(q)] = d]

\* `q` removes by name.
Removes(q) ==
  /\ UNCHANGED <<clock, stalled>> /\ Alone(q)
  /\ locks' = [locks EXCEPT ![NextPath(q)] = NoDir]
  /\ \/ /\ locker[q].pc = "rmdir" /\ locker'[q].held = locker[q].held
        /\ locker'[q].pc = "drop" \/ (locker'[q].pc = "remake" /\ locker'[q].next = locker[q].next)
     \/ /\ locker[q].pc = "unmake" /\ locker'[q].pc = "drop"
        /\ locker'[q].held = locker[q].held
     \/ /\ locker[q].pc = "unlink" /\ locker'[q].pc = "drop"
        /\ locker'[q].held = Others(q)

\* `q` touches a directory it holds.
Beats(q) ==
  /\ UNCHANGED stalled /\ clock' = clock + 1 /\ Alone(q)
  /\ locker[q].pc = "held" /\ locker'[q].pc = "held" /\ locker'[q].held = locker[q].held
  /\ \E p \in Paths : \E d \in Directories :
       /\ locks[p] # NoDir /\ d.ino = locks[p].ino /\ d.made = locks[p].made
       /\ d.by = locks[p].by /\ d.stamp = clock + 1 /\ ~d.stale
       /\ locks' = [locks EXCEPT ![p] = d]

\* A directory goes stale.
Stalls(p) ==
  /\ UNCHANGED <<clock, locker>> /\ stalled' = stalled \cup {p}
  /\ locks[p] # NoDir
  /\ \E d \in Directories :
       /\ d.ino = locks[p].ino /\ d.made = locks[p].made /\ d.by = locks[p].by
       /\ d.stamp = locks[p].stamp /\ d.stale
       /\ locks' = [locks EXCEPT ![p] = d]

\* How a process gives itself another state.
LEMMA LockerForms ==
  ASSUME LocksTypeOK, NEW q \in Lockers
  PROVE  /\ locker[q] \in LockerStates /\ locker[q].held \in SUBSET Handles
         /\ locker[q].next \in 1..Len(LockPaths)
         /\ AtPath(q) \in Directories \cup {NoDir}
         /\ \A x \in LockerStates : locker' = [locker EXCEPT ![q] = x] =>
              Alone(q) /\ locker'[q] = x
         /\ \A pc \in LockerSteps : LockerStep(q, pc) =>
              Alone(q) /\ Stays(q) /\ locker'[q].pc = pc /\ locker'[q].seen = locker[q].seen
         /\ \A pc \in LockerSteps : Saw(q, pc) =>
              Alone(q) /\ Stays(q) /\ locker'[q].pc = pc /\ locker'[q].seen = AtPath(q)
         /\ GiveUp(q) => Alone(q) /\ locker'[q].pc = "drop" /\ locker'[q].held = locker[q].held
<1>1. locker \in [Lockers -> LockerStates] /\ locker[q] \in LockerStates
  BY DEF LocksTypeOK
<1>2. AtPath(q) \in Directories \cup {NoDir}
  BY NextPathIs DEF LocksTypeOK, AtPath
<1>3. locker[q].held \in SUBSET Handles /\ locker[q].next \in 1..Len(LockPaths)
  BY <1>1, PathFacts DEF LockerStates
<1>4. ASSUME NEW x \in LockerStates, locker' = [locker EXCEPT ![q] = x]
      PROVE  Alone(q) /\ locker'[q] = x
  BY <1>1, <1>4 DEF Alone
<1>5. ASSUME NEW pc \in LockerSteps, LockerStep(q, pc)
      PROVE  Alone(q) /\ Stays(q) /\ locker'[q].pc = pc /\ locker'[q].seen = locker[q].seen
  <2> DEFINE x == [locker[q] EXCEPT !.pc = pc]
  <2>1. locker' = [locker EXCEPT ![q] = x]
    BY <1>1, <1>5 DEF LockerStep
  <2>2. x \in LockerStates /\ x.pc = pc /\ x.held = locker[q].held /\ x.next = locker[q].next
        /\ x.seen = locker[q].seen
    BY <1>1 DEF LockerStates
  <2> HIDE DEF x
  <2> QED
    BY <1>4, <2>1, <2>2 DEF Stays
<1>6. ASSUME NEW pc \in LockerSteps, Saw(q, pc)
      PROVE  Alone(q) /\ Stays(q) /\ locker'[q].pc = pc /\ locker'[q].seen = AtPath(q)
  <2> DEFINE x == [locker[q] EXCEPT !.pc = pc, !.seen = AtPath(q)]
  <2>1. locker' = [locker EXCEPT ![q] = x]
    BY <1>1, <1>6 DEF Saw
  <2>2. x \in LockerStates /\ x.pc = pc /\ x.held = locker[q].held /\ x.next = locker[q].next
        /\ x.seen = AtPath(q)
    BY <1>1, <1>2 DEF LockerStates
  <2> HIDE DEF x
  <2> QED
    BY <1>4, <2>1, <2>2 DEF Stays
<1>7. ASSUME GiveUp(q)
      PROVE  Alone(q) /\ locker'[q].pc = "drop" /\ locker'[q].held = locker[q].held
  <2> DEFINE x == [locker[q] EXCEPT !.pc = "drop", !.next = 1, !.seen = NoDir]
  <2>1. locker' = [locker EXCEPT ![q] = x]
    BY <1>1, <1>7 DEF GiveUp
  <2>2. x \in LockerStates /\ x.pc = "drop" /\ x.held = locker[q].held
    BY <1>1, PathFacts DEF LockerStates, LockerSteps
  <2> HIDE DEF x
  <2> QED
    BY <1>4, <2>1, <2>2
<1> QED
  BY <1>1, <1>2, <1>3, <1>4, <1>5, <1>6, <1>7

LEMMA OutsideStep ==
  ASSUME LocksTypeOK, NEW q \in Lockers, locker' = [locker EXCEPT ![q] = Outside]
  PROVE  Alone(q) /\ Leaves(q)
BY LockerForms, OutsideIs DEF Leaves

LEMMA MakesIs ==
  ASSUME LocksTypeOK, NEW q \in Lockers, MakeDirectory(q), AtPath(q) = NoDir,
         locker[q].pc \in {"make", "remake"}
  PROVE  Makes(q)
<1>1. PICK ino \in FreeInodes :
        locks' = [locks EXCEPT ![NextPath(q)] =
                    [ino |-> ino, stamp |-> clock + 1, made |-> clock + 1, by |-> q,
                     stale |-> FALSE]]
  BY DEF MakeDirectory
<1> DEFINE d == [ino |-> ino, stamp |-> clock + 1, made |-> clock + 1, by |-> q, stale |-> FALSE]
<1>2. d \in Directories /\ d.ino \notin OpenInodes /\ d.by = q /\ d.stamp = clock + 1 /\ ~d.stale
  BY DEF FreeInodes, LocksTypeOK, Directories
<1>3. locks' = [locks EXCEPT ![NextPath(q)] = d]
  BY <1>1
<1> HIDE DEF d
<1>4. LockerStep(q, "stat") /\ "stat" \in LockerSteps /\ clock' = clock + 1 /\ UNCHANGED stalled
  BY DEF MakeDirectory, LockerSteps
<1>5. Alone(q) /\ Stays(q) /\ locker'[q].pc = "stat"
  BY <1>4, LockerForms
<1> QED
  BY <1>2, <1>3, <1>4, <1>5 DEF Makes

LEMMA OpensIs ==
  ASSUME LocksTypeOK, NEW q \in Lockers, OpenLease(q)
  PROVE  Opens(q) \/ Quiet(q)
<1>0. "undo" \in LockerSteps /\ locker[q].pc = "open" /\ UNCHANGED <<locks, clock, stalled>>
  BY DEF LockerSteps, OpenLease
<1>1. CASE ~SameDirectory(locker[q].seen, AtPath(q))
  <2>1. LockerStep(q, "undo")
    BY <1>1 DEF OpenLease
  <2> QED
    BY <1>0, <2>1, LockerForms DEF Quiet
<1>2. CASE SameDirectory(locker[q].seen, AtPath(q))
  <2> DEFINE h == [path |-> NextPath(q), ino |-> AtPath(q).ino, made |-> AtPath(q).made,
                   by |-> AtPath(q).by]
             held == locker[q].held \cup {h}
             pc == IF locker[q].next = Len(LockPaths) THEN "held" ELSE "make"
             next == IF locker[q].next = Len(LockPaths) THEN 1 ELSE locker[q].next + 1
             x == [locker[q] EXCEPT !.held = held, !.pc = pc, !.next = next, !.seen = NoDir]
  <2>1. AtPath(q) \in Directories /\ AtPath(q) # NoDir
    BY <1>2, LockerForms DEF SameDirectory
  <2>2. h \in Handles /\ h.path = NextPath(q) /\ h.ino = AtPath(q).ino /\ h.made = AtPath(q).made
        /\ h.by = AtPath(q).by
    BY <2>1, NextPathIs DEF Handles, Directories
  <2>3. locker' = [locker EXCEPT ![q] = x]
    BY <1>2 DEF OpenLease, LocksTypeOK
  <2>4. pc \in LockerSteps /\ next \in DOMAIN LockPaths
    BY LockerForms, PathFacts DEF LockerSteps
  <2>5. held \in SUBSET Handles /\ locker[q] \in LockerStates
    BY <2>2, LockerForms
  <2>6. \/ locker[q].next = Len(LockPaths) /\ pc = "held"
        \/ pc = "make" /\ next = locker[q].next + 1
    OBVIOUS
  <2> HIDE DEF h, held, pc, next
  <2>7. x \in LockerStates /\ x.held = held /\ x.pc = pc /\ x.next = next
    BY <2>4, <2>5 DEF LockerStates
  <2> HIDE DEF x
  <2>8. Alone(q) /\ locker'[q] = x
    BY <2>3, <2>7, LockerForms
  <2> QED
    BY <1>0, <2>1, <2>2, <2>6, <2>7, <2>8 DEF Opens, held
<1> QED
  BY <1>1, <1>2

LEMMA BeatsIs ==
  ASSUME LocksTypeOK, NEW q \in Lockers, Heartbeat(q)
  PROVE  Beats(q) \/ Quiet(q)
<1>0. locker[q].pc = "held" /\ UNCHANGED stalled /\ locker[q] \in LockerStates
  BY LockerForms DEF Heartbeat
<1>1. PICK h \in locker[q].held :
       IF Owned(h)
         THEN /\ clock' = clock + 1
              /\ locks' = [locks EXCEPT ![h.path].stamp = clock + 1, ![h.path].stale = FALSE]
              /\ locker' = [locker EXCEPT ![q].next = IF @ = Len(LockPaths) THEN 1 ELSE @ + 1]
         ELSE locker' = [locker EXCEPT ![q].compromised = TRUE] /\ UNCHANGED <<locks, clock>>
  BY DEF Heartbeat
<1>2. CASE ~Owned(h)
  <2> DEFINE x == [locker[q] EXCEPT !.compromised = TRUE]
  <2>1. locker' = [locker EXCEPT ![q] = x]
    BY <1>1, <1>2 DEF LocksTypeOK
  <2>2. x \in LockerStates /\ x.pc = "held" /\ x.held = locker[q].held /\ x.next = locker[q].next
    BY <1>0 DEF LockerStates
  <2> HIDE DEF x
  <2> QED
    BY <1>0, <1>1, <1>2, <2>1, <2>2, LockerForms DEF Quiet, Stays
<1>3. CASE Owned(h)
  <2> DEFINE next == IF locker[q].next = Len(LockPaths) THEN 1 ELSE locker[q].next + 1
             x == [locker[q] EXCEPT !.next = next]
             d == [[locks[h.path] EXCEPT !.stamp = clock + 1] EXCEPT !.stale = FALSE]
  <2>1. next \in DOMAIN LockPaths
    BY LockerForms, PathFacts
  <2>2. locker' = [locker EXCEPT ![q] = x]
    BY <1>1, <1>3 DEF LocksTypeOK
  <2> HIDE DEF next
  <2>3. x \in LockerStates /\ x.pc = "held" /\ x.held = locker[q].held
    BY <1>0, <2>1 DEF LockerStates
  <2> HIDE DEF x
  <2>4. h.path \in Paths /\ locks[h.path] \in Directories /\ locks[h.path] # NoDir
    BY <1>3, LockerForms DEF Owned, SameDirectory, Handles, LocksTypeOK
  <2>5. clock + 1 \in Nat
    BY DEF LocksTypeOK
  <2>6. d \in Directories /\ d.ino = locks[h.path].ino /\ d.made = locks[h.path].made
        /\ d.by = locks[h.path].by /\ d.stamp = clock + 1 /\ ~d.stale
    BY <2>4, <2>5 DEF Directories
  <2>7. locks' = [locks EXCEPT ![h.path] = d]
    BY <1>1, <1>3, <2>4 DEF LocksTypeOK
  <2> HIDE DEF d
  <2>8. Alone(q) /\ locker'[q] = x
    BY <2>2, <2>3, LockerForms
  <2> QED
    BY <1>0, <1>1, <1>3, <2>3, <2>4, <2>6, <2>7, <2>8 DEF Beats
<1> QED
  BY <1>2, <1>3

LEMMA DropIs ==
  ASSUME LocksTypeOK, NEW q \in Lockers, DropLease(q)
  PROVE  Quiet(q)
<1>0. "unlink" \in LockerSteps /\ locker[q].pc = "drop" /\ UNCHANGED <<locks, clock, stalled>>
      /\ locker[q] \in LockerStates
  BY LockerForms DEF LockerSteps, DropLease
<1>1. CASE locker' = [locker EXCEPT ![q] = Outside]
  BY <1>0, <1>1, OutsideStep DEF Quiet
<1>2. ASSUME NEW h \in locker[q].held, h.path = NextPath(q), LockerStep(q, "unlink")
      PROVE  Quiet(q)
  BY <1>0, <1>2, LockerForms DEF Quiet
<1>3. ASSUME NEW h \in locker[q].held,
             locker' = [locker EXCEPT ![q].held = @ \ {h}, ![q].next = After(@)]
      PROVE  Quiet(q)
  <2> DEFINE held == locker[q].held \ {h}
             next == After(locker[q].next)
             x == [locker[q] EXCEPT !.held = held, !.next = next]
  <2>1. next \in DOMAIN LockPaths /\ held \in SUBSET Handles /\ held \subseteq locker[q].held
    BY LockerForms, PathFacts DEF After
  <2>2. locker' = [locker EXCEPT ![q] = x]
    BY <1>3 DEF LocksTypeOK
  <2> HIDE DEF held, next
  <2>3. x \in LockerStates /\ x.pc = "drop" /\ x.held = held
    BY <1>0, <2>1 DEF LockerStates
  <2> HIDE DEF x
  <2> QED
    BY <1>0, <2>1, <2>2, <2>3, LockerForms DEF Quiet, Leaves
<1> QED
  BY <1>1, <1>2, <1>3 DEF DropLease

LEMMA UnlinkIs ==
  ASSUME LocksTypeOK, NEW q \in Lockers, UnlinkLease(q)
  PROVE  Removes(q)
<1> DEFINE next == After(locker[q].next)
           x == [locker[q] EXCEPT !.held = Others(q), !.next = next, !.pc = "drop"]
<1>1. next \in DOMAIN LockPaths /\ Others(q) \in SUBSET Handles /\ "drop" \in LockerSteps
      /\ locker[q] \in LockerStates
  BY LockerForms, PathFacts DEF After, LockerSteps, Others
<1>2. locker' = [locker EXCEPT ![q] = x]
  BY DEF UnlinkLease, LocksTypeOK
<1> HIDE DEF next
<1>4. x \in LockerStates /\ x.pc = "drop" /\ x.held = Others(q)
  BY <1>1 DEF LockerStates
<1> HIDE DEF x
<1>5. Alone(q) /\ locker'[q] = x
  BY <1>2, <1>4, LockerForms
<1> QED
  BY <1>4, <1>5 DEF Removes, UnlinkLease, Removed

\* Every step is of one kind.
LEMMA StepKinds ==
  ASSUME LocksTypeOK, LocksNext
  PROVE  \/ \E q \in Lockers : Quiet(q) \/ Opens(q) \/ Makes(q) \/ Removes(q) \/ Beats(q)
         \/ \E p \in Paths : Stalls(p)
<1> USE DEF LockerSteps
<1>1. ASSUME NEW q \in Lockers, BeginLocks(q) PROVE Quiet(q)
  <2> DEFINE x == [Outside EXCEPT !.pc = "make"]
  <2>1. x \in LockerStates /\ x.pc = "make" /\ x.held = {} /\ x.next = 1
    BY PathFacts DEF Outside, LockerStates
  <2> HIDE DEF x
  <2>2. Alone(q) /\ locker'[q] = x
    BY <1>1, <2>1, LockerForms DEF BeginLocks, x
  <2> QED
    BY <1>1, <2>1, <2>2 DEF Quiet, Leaves, BeginLocks
<1>2. ASSUME NEW q \in Lockers, GiveUp(q), UNCHANGED <<locks, clock, stalled>> PROVE Quiet(q)
  BY <1>2, LockerForms DEF Quiet, Leaves
<1>3. ASSUME NEW q \in Lockers, AcquireLease(q) PROVE Quiet(q) \/ Makes(q)
  BY <1>3, MakesIs, LockerForms DEF AcquireLease, Quiet
<1>4. ASSUME NEW q \in Lockers, ObserveStale(q) PROVE Quiet(q)
  <2>1. CASE AtPath(q) # NoDir /\ AtPath(q).stale
    BY <1>4, <2>1, LockerForms DEF ObserveStale, Quiet
  <2> QED
    BY <1>2, <1>4, <2>1 DEF ObserveStale
<1>5. ASSUME NEW q \in Lockers, ConfirmStale(q) PROVE Quiet(q)
  <2>1. CASE SameLease(locker[q].seen, AtPath(q))
    BY <1>5, <2>1, LockerForms DEF ConfirmStale, Quiet
  <2> QED
    BY <1>2, <1>5, <2>1 DEF ConfirmStale
<1>6. ASSUME NEW q \in Lockers, RemoveStale(q) PROVE Removes(q)
  BY <1>6, LockerForms DEF RemoveStale, Removed, Removes, Stays
<1>7. ASSUME NEW q \in Lockers, RemakeLease(q) PROVE Quiet(q) \/ Makes(q)
  BY <1>2, <1>7, MakesIs DEF RemakeLease
<1>8. ASSUME NEW q \in Lockers, StatLease(q) PROVE Quiet(q)
  <2>1. CASE AtPath(q) # NoDir
    BY <1>8, <2>1, LockerForms DEF StatLease, Quiet
  <2> QED
    BY <1>2, <1>8, <2>1 DEF StatLease
<1>9. ASSUME NEW q \in Lockers, UndoLease(q) PROVE Quiet(q)
  <2>1. CASE SameDirectory(locker[q].seen, AtPath(q))
    BY <1>9, <2>1, LockerForms DEF UndoLease, Quiet
  <2> QED
    BY <1>2, <1>9, <2>1 DEF UndoLease
<1>10. ASSUME NEW q \in Lockers, UnmakeLease(q) PROVE Removes(q)
  BY <1>10, LockerForms DEF UnmakeLease, Removed, Removes
<1>11. ASSUME NEW q \in Lockers, FailLease(q) PROVE Quiet(q)
  <2>1. CASE locker[q].pc = "open" /\ LockerStep(q, "undo")
    BY <1>11, <2>1, LockerForms DEF FailLease, Quiet
  <2> QED
    BY <1>2, <1>11, <2>1 DEF FailLease
<1>12. ASSUME NEW q \in Lockers, ReleaseLocks(q) PROVE Quiet(q)
  BY <1>2, <1>12 DEF ReleaseLocks
<1>13. ASSUME NEW q \in Lockers, LockerDies(q) PROVE Quiet(q)
  BY <1>13, OutsideStep DEF LockerDies, Quiet
<1>14. ASSUME NEW p \in Paths, GoesStale(p) PROVE Stalls(p)
  <2> DEFINE d == [locks[p] EXCEPT !.stale = TRUE]
  <2>1. locks[p] \in Directories /\ locks[p] # NoDir
    BY <1>14 DEF GoesStale, LocksTypeOK
  <2>2. d \in Directories /\ d.ino = locks[p].ino /\ d.made = locks[p].made
        /\ d.by = locks[p].by /\ d.stamp = locks[p].stamp /\ d.stale
    BY <2>1 DEF Directories
  <2>3. locks' = [locks EXCEPT ![p] = d]
    BY <1>14 DEF GoesStale
  <2> HIDE DEF d
  <2> QED
    BY <1>14, <2>1, <2>2, <2>3 DEF GoesStale, Stalls
<1> QED
  BY <1>1, <1>3, <1>4, <1>5, <1>6, <1>7, <1>8, <1>9, <1>10, <1>11, <1>12, <1>13, <1>14,
     OpensIs, BeatsIs, DropIs, UnlinkIs DEF LocksNext

LEMMA LocksTypeStep == LocksTypeOK /\ [LocksNext]_lockVars => LocksTypeOK'
<1> SUFFICES ASSUME LocksTypeOK, LocksNext PROVE LocksTypeOK'
  BY DEF LocksTypeOK, lockVars
<1>1. ASSUME NEW q \in Lockers, Quiet(q) \/ Opens(q) PROVE LocksTypeOK'
  BY <1>1 DEF Quiet, Opens, Alone, LocksTypeOK
<1>2. ASSUME NEW q \in Lockers, Makes(q) \/ Removes(q) \/ Beats(q) PROVE LocksTypeOK'
  <2>1. /\ clock' \in {clock, clock + 1} /\ UNCHANGED stalled
        /\ locker' \in [Lockers -> LockerStates]
        /\ \E p \in Paths, d \in Directories \cup {NoDir} : locks' = [locks EXCEPT ![p] = d]
    BY <1>2, NextPathIs DEF Makes, Removes, Beats, Alone
  <2> QED
    BY <2>1 DEF LocksTypeOK
<1>3. ASSUME NEW p \in Paths, Stalls(p) PROVE LocksTypeOK'
  BY <1>3 DEF Stalls, LocksTypeOK
<1> QED
  BY <1>1, <1>2, <1>3, StepKinds

-----------------------------------------------------------------------------
(* The inductive invariant, one part at a time.                            *)

\* A new directory's number is in no handle: the holder's open handle keeps it.
LEMMA LeasesStep == LocksInv /\ [LocksNext]_lockVars => LeasesAreTheirs'
<1> SUFFICES ASSUME LocksInv, [LocksNext]_lockVars,
                    NEW r \in Lockers, NEW h \in locker'[r].held,
                    locks'[h.path] # NoDir, locks'[h.path].ino = h.ino
             PROVE  locks'[h.path].made = h.made /\ locks'[h.path].by = h.by
  BY DEF LeasesAreTheirs, Owned, SameDirectory
<1>0. /\ LocksTypeOK /\ locks \in [Paths -> Directories \cup {NoDir}]
      /\ \A q \in Lockers : NextPath(q) \in Paths /\ locker[q].held \in SUBSET Handles
  BY NextPathIs, LockerForms DEF LocksInv, LocksTypeOK
\* A handle that was there before: what its path names now it named before.
<1>1. ASSUME h \in locker[r].held,
             /\ locks[h.path] # NoDir /\ locks[h.path].ino = h.ino
             /\ locks'[h.path].made = locks[h.path].made /\ locks'[h.path].by = locks[h.path].by
      PROVE  locks'[h.path].made = h.made /\ locks'[h.path].by = h.by
  BY <1>1 DEF LocksInv, LeasesAreTheirs, Owned, SameDirectory
<1>2. h \in locker[r].held => h.path \in Paths
  BY <1>0 DEF Handles
<1>3. ASSUME UNCHANGED locks, h \in locker[r].held
      PROVE  locks'[h.path].made = h.made /\ locks'[h.path].by = h.by
  BY <1>1, <1>3
<1>4. ASSUME NEW q \in Lockers, Quiet(q)
      PROVE  locks'[h.path].made = h.made /\ locks'[h.path].by = h.by
  BY <1>3, <1>4 DEF Quiet, Alone, Leaves, Stays
<1>5. ASSUME NEW q \in Lockers, Opens(q)
      PROVE  locks'[h.path].made = h.made /\ locks'[h.path].by = h.by
  BY <1>3, <1>5 DEF Opens, Alone, AtPath
<1>6. ASSUME NEW q \in Lockers, Makes(q)
      PROVE  locks'[h.path].made = h.made /\ locks'[h.path].by = h.by
  <2>1. PICK d \in Directories : d.ino \notin OpenInodes /\ locks' = [locks EXCEPT ![NextPath(q)] = d]
    BY <1>6 DEF Makes
  <2>2. h \in locker[r].held
    BY <1>6 DEF Makes, Alone, Stays
  <2>3. h.ino \in OpenInodes
    BY <2>2 DEF OpenInodes
  <2>4. h.path # NextPath(q)
    BY <1>0, <2>1, <2>3
  <2> QED
    BY <1>0, <1>1, <1>2, <2>1, <2>2, <2>4
<1>7. ASSUME NEW q \in Lockers, Removes(q)
      PROVE  locks'[h.path].made = h.made /\ locks'[h.path].by = h.by
  <2>1. h \in locker[r].held
    BY <1>7 DEF Removes, Alone, Others
  <2>2. locks'[h.path] = locks[h.path]
    BY <1>0, <1>2, <1>7, <2>1 DEF Removes
  <2> QED
    BY <1>1, <2>1, <2>2
<1>8. ASSUME NEW p \in Paths, NEW d \in Directories,
             d.ino = locks[p].ino, d.made = locks[p].made, d.by = locks[p].by, locks[p] # NoDir,
             locks' = [locks EXCEPT ![p] = d], locker'[r].held = locker[r].held
      PROVE  locks'[h.path].made = h.made /\ locks'[h.path].by = h.by
  BY <1>0, <1>1, <1>2, <1>8
<1>9. ASSUME NEW q \in Lockers, Beats(q)
      PROVE  locks'[h.path].made = h.made /\ locks'[h.path].by = h.by
  <2>1. locker'[r].held = locker[r].held
    BY <1>9 DEF Beats, Alone
  <2> QED
    BY <1>8, <1>9, <2>1 DEF Beats
<1>10. ASSUME NEW p \in Paths, Stalls(p)
       PROVE  locks'[h.path].made = h.made /\ locks'[h.path].by = h.by
  BY <1>8, <1>10 DEF Stalls
<1>11. CASE UNCHANGED lockVars
  BY <1>3, <1>11 DEF lockVars
<1> QED
  BY <1>0, <1>4, <1>5, <1>6, <1>7, <1>9, <1>10, <1>11, StepKinds

LEMMA EarlierStep == LocksInv /\ [LocksNext]_lockVars => EarlierAreHeld'
<1> SUFFICES ASSUME LocksInv, [LocksNext]_lockVars, NEW r \in Lockers, NEW i \in DOMAIN LockPaths,
                    locker'[r].pc = "held" \/ (locker'[r].pc \in Taking /\ i < locker'[r].next)
             PROVE  HasLease(locker'[r], i)
  BY DEF EarlierAreHeld
<1> USE DEF Taking
<1>0. /\ LocksTypeOK /\ i \in 1..Len(LockPaths) /\ Len(LockPaths) \in Nat
      /\ locker[r].next \in 1..Len(LockPaths)
      /\ locker[r].pc = "held" \/ (locker[r].pc \in Taking /\ i < locker[r].next) =>
           HasLease(locker[r], i)
  BY PathFacts, LockerForms DEF LocksInv, EarlierAreHeld
<1>1. CASE locker'[r].pc = locker[r].pc /\ Stays(r)
  BY <1>0, <1>1 DEF Stays, HasLease
<1>2. ASSUME NEW q \in Lockers, q # r, Alone(q) PROVE HasLease(locker'[r], i)
  BY <1>1, <1>2 DEF Alone, Stays
<1>3. CASE Quiet(r)
  BY <1>0, <1>3 DEF Quiet, Leaves, Stays, HasLease
<1>4. CASE Opens(r)
  <2>1. PICK h \in Handles : /\ h.path = LockPaths[locker[r].next]
                             /\ locker'[r].held = locker[r].held \cup {h}
    BY <1>4 DEF Opens, NextPath
  <2>2. i = locker[r].next => HasLease(locker'[r], i)
    BY <2>1 DEF HasLease
  <2>3. i < locker[r].next => HasLease(locker'[r], i)
    BY <1>0, <1>4, <2>1 DEF HasLease, Opens
  <2>4. i <= locker[r].next
    BY <1>0, <1>4 DEF Opens
  <2> QED
    BY <1>0, <2>2, <2>3, <2>4
<1>5. CASE Makes(r) \/ Removes(r)
  BY <1>0, <1>5 DEF Makes, Removes, Stays, HasLease
<1>6. CASE Beats(r)
  BY <1>0, <1>6 DEF Beats, HasLease
<1>7. ASSUME NEW p \in Paths, Stalls(p) PROVE HasLease(locker'[r], i)
  BY <1>1, <1>7 DEF Stalls, Stays
<1>8. CASE UNCHANGED lockVars
  BY <1>1, <1>8 DEF lockVars, Stays
<1>9. ASSUME NEW q \in Lockers, Quiet(q) \/ Opens(q) \/ Makes(q) \/ Removes(q) \/ Beats(q)
      PROVE  HasLease(locker'[r], i)
  <2>1. CASE q = r
    BY <1>3, <1>4, <1>5, <1>6, <1>9, <2>1
  <2>2. CASE q # r
    BY <1>2, <1>9, <2>2 DEF Quiet, Opens, Makes, Removes, Beats
  <2> QED
    BY <2>1, <2>2
<1> QED
  BY <1>0, <1>7, <1>8, <1>9, StepKinds

\* Who looks again saw the directory in an earlier step, or sees it in this one;
\* who is about to remove confirmed what it saw.
LEMMA SeenSteps ==
  ASSUME LocksTypeOK, [LocksNext]_lockVars, NEW r \in Lockers
  PROVE  /\ locker'[r].pc = "again" =>
              \/ locker'[r] = locker[r]
              \/ /\ UNCHANGED <<locks, clock>> /\ locker'[r].next = locker[r].next
                 /\ locker'[r].seen = AtPath(r) /\ AtPath(r) # NoDir /\ AtPath(r).stale
         /\ locker'[r].pc = "rmdir" =>
              \/ locker'[r] = locker[r]
              \/ /\ locker[r].pc = "again" /\ SameLease(locker[r].seen, AtPath(r))
                 /\ locker'[r].seen = AtPath(r)
<1> DEFINE Goal == /\ locker'[r].pc = "again" =>
                        \/ locker'[r] = locker[r]
                        \/ /\ UNCHANGED <<locks, clock>> /\ locker'[r].next = locker[r].next
                           /\ locker'[r].seen = AtPath(r) /\ AtPath(r) # NoDir /\ AtPath(r).stale
                   /\ locker'[r].pc = "rmdir" =>
                        \/ locker'[r] = locker[r]
                        \/ /\ locker[r].pc = "again" /\ SameLease(locker[r].seen, AtPath(r))
                           /\ locker'[r].seen = AtPath(r)
<1>1. ASSUME NEW q \in Lockers, q # r, Alone(q) PROVE Goal
  BY <1>1 DEF Alone
<1>2. CASE Quiet(r)
  BY <1>2 DEF Quiet, Leaves, Stays
<1>3. CASE Opens(r) \/ Makes(r) \/ Removes(r) \/ Beats(r)
  BY <1>3 DEF Opens, Makes, Removes, Beats
<1>4. ASSUME NEW p \in Paths, Stalls(p) PROVE Goal
  BY <1>4 DEF Stalls
<1>5. CASE UNCHANGED lockVars
  BY <1>5 DEF lockVars
<1>6. ASSUME NEW q \in Lockers, Quiet(q) \/ Opens(q) \/ Makes(q) \/ Removes(q) \/ Beats(q)
      PROVE  Goal
  <2>1. CASE q = r
    BY <1>2, <1>3, <1>6, <2>1
  <2>2. CASE q # r
    BY <1>1, <1>6, <2>2 DEF Quiet, Opens, Makes, Removes, Beats
  <2> QED
    BY <2>1, <2>2
<1> QED
  BY <1>4, <1>5, <1>6, StepKinds

LEMMA StampsStep ==
  LocksInv /\ [LocksNext]_lockVars => StampsArePast' /\ SeenStaysStale' /\ ConfirmedWasStale'
<1> SUFFICES ASSUME LocksInv, [LocksNext]_lockVars
             PROVE  StampsArePast' /\ SeenStaysStale' /\ ConfirmedWasStale'
  OBVIOUS
<1>0. /\ LocksTypeOK /\ clock \in Nat
      /\ locks \in [Paths -> Directories \cup {NoDir}]
      /\ \A q \in Lockers : NextPath(q) \in Paths
  BY NextPathIs DEF LocksInv, LocksTypeOK
<1>1. clock' \in {clock, clock + 1}
  BY <1>0, StepKinds DEF Quiet, Opens, Makes, Removes, Beats, Stalls, lockVars
\* A lock is the one that was there, maybe stale by now, or its time is new.
<1>2. ASSUME NEW p \in Paths, locks'[p] # NoDir
      PROVE  \/ /\ clock' = clock + 1 /\ locks'[p].stamp = clock + 1
             \/ /\ locks[p] # NoDir
                /\ locks'[p].stamp = locks[p].stamp /\ locks'[p].ino = locks[p].ino
                /\ locks[p].stale => locks'[p].stale
  <2>1. ASSUME NEW q \in Lockers, Quiet(q) \/ Opens(q) PROVE locks'[p] = locks[p]
    BY <2>1 DEF Quiet, Opens
  <2>2. ASSUME NEW q \in Lockers, Makes(q) \/ Beats(q)
        PROVE  \/ locks'[p] = locks[p]
               \/ clock' = clock + 1 /\ locks'[p].stamp = clock + 1
    <3>1. PICK x \in Paths, d \in Directories :
            d.stamp = clock + 1 /\ locks' = [locks EXCEPT ![x] = d] /\ clock' = clock + 1
      BY <1>0, <2>2 DEF Makes, Beats
    <3> QED
      BY <1>0, <3>1
  <2>3. ASSUME NEW q \in Lockers, Removes(q) PROVE locks'[p] = locks[p]
    BY <1>0, <1>2, <2>3 DEF Removes
  <2>4. ASSUME NEW x \in Paths, Stalls(x)
        PROVE  /\ locks[p] # NoDir
               /\ locks'[p].stamp = locks[p].stamp /\ locks'[p].ino = locks[p].ino
               /\ locks[p].stale => locks'[p].stale
    BY <1>0, <1>2, <2>4 DEF Stalls
  <2>5. CASE UNCHANGED lockVars
    BY <1>2, <2>5 DEF lockVars
  <2> QED
    BY <1>0, <1>2, <2>1, <2>2, <2>3, <2>4, <2>5, StepKinds
<1>3. ASSUME NEW p \in Paths, locks'[p] # NoDir PROVE locks'[p].stamp <= clock'
  <2>1. locks[p] # NoDir => locks[p].stamp \in Nat /\ locks[p].stamp <= clock
    BY <1>0 DEF LocksInv, StampsArePast, Directories
  <2> QED
    BY <1>0, <1>1, <1>2, <1>3, <2>1
<1>4. ASSUME NEW r \in Lockers, locker'[r].pc = "again"
      PROVE  /\ locker'[r].seen \in Directories /\ locker'[r].seen.stale
             /\ locker'[r].seen.stamp <= clock'
             /\ SameLease(locker'[r].seen, AtPath(r)') => AtPath(r)'.stale
  <2>1. CASE locker'[r] = locker[r]
    <3>1. /\ locker[r].seen \in Directories /\ locker[r].seen.stale
          /\ locker[r].seen.stamp \in Nat /\ locker[r].seen.stamp <= clock
      BY <1>4, <2>1 DEF LocksInv, StampsArePast, Directories
    <3>2. AtPath(r)' = locks'[NextPath(r)] /\ NextPath(r) \in Paths
      BY <1>0, <2>1 DEF NextPath, AtPath
    <3>3. SameLease(locker[r].seen, locks'[NextPath(r)]) => locks'[NextPath(r)].stale
      <4> SUFFICES ASSUME SameLease(locker[r].seen, locks'[NextPath(r)])
                   PROVE  locks'[NextPath(r)].stale
        OBVIOUS
      <4>1. /\ locks'[NextPath(r)] # NoDir
            /\ locks'[NextPath(r)].stamp = locker[r].seen.stamp
            /\ locks'[NextPath(r)].ino = locker[r].seen.ino
        BY DEF SameLease, SameDirectory
      <4>2. /\ locks[NextPath(r)] # NoDir
            /\ locks'[NextPath(r)].stamp = locks[NextPath(r)].stamp
            /\ locks'[NextPath(r)].ino = locks[NextPath(r)].ino
            /\ locks[NextPath(r)].stale => locks'[NextPath(r)].stale
        BY <1>0, <1>2, <3>1, <3>2, <4>1
      <4>3. SameLease(locker[r].seen, AtPath(r))
        BY <4>1, <4>2 DEF SameLease, SameDirectory, AtPath
      <4> QED
        BY <1>4, <2>1, <4>2, <4>3 DEF LocksInv, SeenStaysStale, AtPath
    <3> QED
      BY <1>0, <1>1, <2>1, <3>1, <3>2, <3>3
  <2>2. CASE /\ UNCHANGED <<locks, clock>> /\ locker'[r].next = locker[r].next
             /\ locker'[r].seen = AtPath(r) /\ AtPath(r) # NoDir /\ AtPath(r).stale
    <3>1. AtPath(r)' = AtPath(r) /\ NextPath(r) \in Paths
      BY <1>0, <2>2 DEF NextPath, AtPath
    <3>2. AtPath(r) \in Directories /\ AtPath(r).stamp <= clock
      BY <1>0, <2>2, <3>1 DEF LocksInv, StampsArePast, AtPath
    <3> QED
      BY <2>2, <3>1, <3>2
  <2> QED
    BY <1>0, <1>4, <2>1, <2>2, SeenSteps
<1>5. ConfirmedWasStale'
  <2> SUFFICES ASSUME NEW r \in Lockers, locker'[r].pc = "rmdir" PROVE locker'[r].seen.stale
    BY DEF ConfirmedWasStale
  <2>1. CASE locker'[r] = locker[r]
    BY <2>1 DEF LocksInv, ConfirmedWasStale
  <2>2. CASE /\ locker[r].pc = "again" /\ SameLease(locker[r].seen, AtPath(r))
             /\ locker'[r].seen = AtPath(r)
    BY <2>2 DEF LocksInv, SeenStaysStale
  <2> QED
    BY <1>0, <2>1, <2>2, SeenSteps
<1> QED
  BY <1>3, <1>4, <1>5 DEF StampsArePast, SeenStaysStale

\* A process that keeps its place keeps what the paths hold for it.
LEMMA MakerSame ==
  ASSUME NEW p \in Paths, NEW r \in Lockers, MakerKeeps(p, r),
         locks[p] # NoDir => locks'[p] # NoDir /\ locks'[p].by = locks[p].by,
         locker'[r].held = locker[r].held,
         locker'[r].next = locker[r].next /\ locker'[r].pc = locker[r].pc
  PROVE  MakerKeeps(p, r)'
BY DEF MakerKeeps, NextPath

\* Where nothing ever went stale, only the maker of a directory removes it.
LEMMA SoundStep == LocksInv /\ [LocksNext]_lockVars => SoundPathsKeep'
<1> SUFFICES ASSUME LocksInv, [LocksNext]_lockVars, NEW p \in Paths \ stalled',
                    NEW r \in Lockers
             PROVE  (locks'[p] # NoDir => ~locks'[p].stale) /\ MakerKeeps(p, r)'
  BY DEF SoundPathsKeep
<1> DEFINE Goal == (locks'[p] # NoDir => ~locks'[p].stale) /\ MakerKeeps(p, r)'
<1> HIDE DEF Goal
<1>g. SUFFICES Goal
  BY DEF Goal
<1>0. /\ LocksTypeOK /\ locks \in [Paths -> Directories \cup {NoDir}]
      /\ \A q \in Lockers : NextPath(q) \in Paths
      /\ p \in Paths
  BY NextPathIs DEF LocksInv, LocksTypeOK
<1>1. p \notin stalled
  <2>1. ASSUME NEW q \in Lockers, Quiet(q) \/ Opens(q) \/ Makes(q) \/ Removes(q) \/ Beats(q)
        PROVE  UNCHANGED stalled
    BY <2>1 DEF Quiet, Opens, Makes, Removes, Beats
  <2>2. stalled \subseteq stalled'
    BY <1>0, <2>1, StepKinds DEF Stalls, lockVars
  <2> QED
    BY <2>2
<1>2. (locks[p] # NoDir => ~locks[p].stale) /\ \A q \in Lockers : MakerKeeps(p, q)
  BY <1>0, <1>1 DEF LocksInv, SoundPathsKeep
\* The two conditions that suffice: what lies there, and what `r` may rely on.
<1>3. ASSUME locks'[p] # NoDir => ~locks'[p].stale, MakerKeeps(p, r)' PROVE Goal
  BY <1>3 DEF Goal
<1>4. ASSUME UNCHANGED locks, MakerKeeps(p, r)' PROVE Goal
  BY <1>2, <1>3, <1>4
<1>5. ASSUME NEW q \in Lockers, Quiet(q) PROVE Goal
  <2>1. CASE r # q
    BY <1>2, <1>4, <1>5, <2>1, MakerSame DEF Quiet, Alone
  <2>2. CASE r = q
    <3>1. MakerKeeps(p, r)'
      BY <1>2, <1>5, <2>2
      DEF Quiet, MakerKeeps, NextPath, Leaves, Stays, AtPath
    <3> QED
      BY <1>4, <1>5, <3>1 DEF Quiet
  <2> QED
    BY <2>1, <2>2
<1>6. ASSUME NEW q \in Lockers, Opens(q) PROVE Goal
  <2>1. CASE r # q
    BY <1>2, <1>4, <1>6, <2>1, MakerSame DEF Opens, Alone
  <2>2. CASE r = q
    <3>1. PICK h : /\ h.path = NextPath(q) /\ locker'[q].held = locker[q].held \cup {h}
                   /\ locker[q].pc = "open" /\ locker'[q].pc \in {"held", "make"}
                   /\ UNCHANGED locks
      BY <1>6 DEF Opens
    <3>2. MakerKeeps(p, r)'
      BY <1>2, <2>2, <3>1 DEF MakerKeeps
    <3> QED
      BY <1>4, <3>1, <3>2
  <2> QED
    BY <2>1, <2>2
<1>7. ASSUME NEW q \in Lockers, Makes(q) PROVE Goal
  <2>1. PICK d \in Directories : /\ d.by = q /\ ~d.stale
                                 /\ locks' = [locks EXCEPT ![NextPath(q)] = d]
    BY <1>7 DEF Makes
  <2>2. CASE p # NextPath(q)
    <3>1. locks'[p] = locks[p]
      BY <1>0, <2>1, <2>2
    <3>2. CASE r # q
      BY <1>2, <1>3, <1>7, <3>1, <3>2, MakerSame DEF Makes, Alone
    <3>3. CASE r = q
      <4>1. MakerKeeps(p, r)'
        BY <1>2, <1>7, <2>2, <3>1, <3>3 DEF MakerKeeps, NextPath, Makes, Stays
      <4> QED
        BY <1>2, <1>3, <3>1, <4>1
    <3> QED
      BY <3>2, <3>3
  <2>3. CASE p = NextPath(q)
    <3>0. d # NoDir
      BY LocksAssumption DEF Directories
    <3>1. locks'[p] = d
      BY <1>0, <2>1, <2>3
    <3>2. locks[p] = NoDir
      BY <1>7, <2>3 DEF Makes, AtPath
    <3>3. \A h \in locker[r].held : h.path # p
      BY <1>2, <3>2 DEF MakerKeeps
    <3>4. CASE r # q
      <4>1. locker'[r] = locker[r]
        BY <1>7, <3>4 DEF Makes, Alone
      <4>2. MakerKeeps(p, r)'
        BY <1>2, <3>2, <3>3, <4>1 DEF MakerKeeps, NextPath
      <4> QED
        BY <1>3, <2>1, <3>1, <4>2
    <3>5. CASE r = q
      <4>1. MakerKeeps(p, r)'
        BY <3>0, <1>7, <2>1, <3>1, <3>3, <3>5 DEF MakerKeeps, Makes, Stays
      <4> QED
        BY <1>3, <2>1, <3>1, <4>1
    <3> QED
      BY <3>4, <3>5
  <2> QED
    BY <2>2, <2>3
<1>8. ASSUME NEW q \in Lockers, Removes(q) PROVE Goal
  <2>1. CASE p # NextPath(q)
    <3>1. locks'[p] = locks[p]
      BY <1>0, <1>8, <2>1 DEF Removes
    <3>2. CASE r # q
      BY <1>2, <1>3, <1>8, <3>1, <3>2, MakerSame DEF Removes, Alone
    <3>3. CASE r = q
      <4>1. MakerKeeps(p, r)'
        BY <1>2, <1>8, <2>1, <3>1, <3>3 DEF MakerKeeps, NextPath, Removes, Others
      <4> QED
        BY <1>2, <1>3, <3>1, <4>1
    <3> QED
      BY <3>2, <3>3
  <2>2. CASE p = NextPath(q)
    <3>1. locks'[p] = NoDir
      BY <1>0, <1>8, <2>2 DEF Removes
    <3>2. locker[q].pc \in {"unmake", "unlink"} /\ locks[p] # NoDir /\ locks[p].by = q
      BY <1>2, <1>8, <2>2 DEF Removes, MakerKeeps
    <3>3. CASE r # q
      <4>1. locker'[r] = locker[r]
        BY <1>8, <3>3 DEF Removes, Alone
      <4>2. MakerKeeps(p, r)'
        BY <1>2, <3>2, <3>3, <4>1 DEF MakerKeeps, NextPath
      <4> QED
        BY <1>3, <3>1, <4>2
    <3>4. CASE r = q
      <4>1. locker'[r].pc = "drop" /\ \A h \in locker'[r].held : h.path # p
        BY <1>2, <1>8, <2>2, <3>2, <3>4 DEF Removes, MakerKeeps, Others
      <4>2. MakerKeeps(p, r)'
        BY <4>1 DEF MakerKeeps
      <4> QED
        BY <1>3, <3>1, <4>2
    <3> QED
      BY <3>3, <3>4
  <2> QED
    BY <2>1, <2>2
<1>9. ASSUME NEW q \in Lockers, Beats(q) PROVE Goal
  <2>1. /\ locks[p] # NoDir => locks'[p].by = locks[p].by
        /\ locks'[p] = locks[p] \/ (locks[p] # NoDir /\ locks'[p] \in Directories /\ ~locks'[p].stale)
    BY <1>0, <1>9 DEF Beats
  <2>2. (locks[p] # NoDir => locks'[p] # NoDir) /\ (locks'[p] # NoDir => ~locks'[p].stale)
    BY <1>2, <2>1, LocksAssumption DEF Directories
  <2>3. CASE r # q
    BY <1>2, <1>3, <1>9, <2>1, <2>2, <2>3, MakerSame DEF Beats, Alone
  <2>4. CASE r = q
    <3>1. MakerKeeps(p, r)'
      BY <1>2, <1>9, <2>1, <2>2, <2>4 DEF Beats, MakerKeeps
    <3> QED
      BY <1>3, <2>2, <3>1
  <2> QED
    BY <2>3, <2>4
<1>10. ASSUME NEW x \in Paths, Stalls(x) PROVE Goal
  <2>1. locks'[p] = locks[p]
    BY <1>0, <1>10 DEF Stalls
  <2> QED
    BY <1>2, <1>3, <1>10, <2>1, MakerSame DEF Stalls
<1>11. CASE UNCHANGED lockVars
  BY <1>2, <1>4, <1>11, MakerSame DEF lockVars
<1> QED
  BY <1>0, <1>5, <1>6, <1>7, <1>8, <1>9, <1>10, <1>11, StepKinds

LEMMA LocksInvariance == LocksSpec => []LocksInv
<1>1. LocksInv /\ [LocksNext]_lockVars => LocksInv'
  BY LocksTypeStep, LeasesStep, EarlierStep, StampsStep, SoundStep DEF LocksInv
<1> QED
  BY InitLocksInv, <1>1, PTL DEF LocksSpec

-----------------------------------------------------------------------------
\* Two handles that both own what a path names are on one directory, which one
\* process made; and where nothing went stale each would have made it.
LEMMA SharedLease == LocksInv => SharedLeaseWasAbandoned
<1> SUFFICES ASSUME LocksInv, NEW q \in Lockers, NEW r \in Lockers, q # r,
                    NEW h \in locker[q].held, NEW k \in locker[r].held, h.path = k.path,
                    Owned(h), Owned(k)
             PROVE  h.path \in stalled /\ (h.by # q \/ k.by # r)
  BY DEF SharedLeaseWasAbandoned
<1>1. h.by = locks[h.path].by /\ k.by = locks[h.path].by
  BY DEF LocksInv, LeasesAreTheirs
<1>2. h.path \in Paths
  BY DEF LocksInv, LocksTypeOK, LockerStates, Handles
<1>3. h.path \in stalled
  BY <1>2 DEF LocksInv, SoundPathsKeep, MakerKeeps
<1> QED
  BY <1>1, <1>3

LEMMA OneSoundLock == LocksInv => OneSoundLockExcludes
<1> SUFFICES ASSUME LocksInv, NEW q \in Lockers, NEW r \in Lockers, q # r, Passes(q), Passes(r),
                    NEW p \in Paths
             PROVE  /\ p \in stalled
                    /\ \E x \in {q, r} : \E h \in locker[x].held : h.path = p /\ h.by # x
  BY DEF OneSoundLockExcludes
<1>1. PICK i \in DOMAIN LockPaths : p = LockPaths[i]
  BY PathFacts
<1>2. PICK h \in locker[q].held : h.path = p
  BY <1>1 DEF LocksInv, EarlierAreHeld, Passes, HasLease
<1>3. PICK k \in locker[r].held : k.path = p
  BY <1>1 DEF LocksInv, EarlierAreHeld, Passes, HasLease
<1>4. h.by = locks[p].by /\ k.by = locks[p].by
  BY <1>2, <1>3 DEF LocksInv, LeasesAreTheirs, Passes
<1>5. p \in stalled
  BY <1>2, <1>3 DEF LocksInv, SoundPathsKeep, MakerKeeps
<1> QED
  BY <1>2, <1>3, <1>4, <1>5

\* Two processes write the credential store at once only if a directory was
\* abandoned on every lock path and taken over by one that did not make it; a
\* lease that was removed is noticed though its number is used again, and what is
\* removed was found stale twice (acquire, check and remove_stale_directory).
THEOREM LocksExclude == LocksSpec => []LocksAreExclusive
<1>1. LocksInv => LocksAreExclusive
  BY SharedLease, OneSoundLock DEF LocksInv, LocksAreExclusive, LeasesAreTheirs, LostLeaseIsNoticed
<1> QED
  BY <1>1, LocksInvariance, PTL

\* Every lock, handle and process keeps its shape.
THEOREM LocksTypeCorrect == LocksSpec => []LocksTypeOK
<1>1. LocksInv => LocksTypeOK
  BY DEF LocksInv
<1> QED
  BY <1>1, LocksInvariance, PTL
=============================================================================
