----------------------------- MODULE NativeLocks -----------------------------
(***************************************************************************)
(* The directory leases of Claude Code's proper-lockfile protocol as       *)
(* native_auth/locks.rs takes them: mkdir is the lock, its mtime the       *)
(* heartbeat, a stale one is removed and made again.  Every system call is *)
(* a step of its own, and each names a path: what it finds there may be    *)
(* another directory than the call before it found.  Inode numbers can be  *)
(* reused, too, except while a process keeps the directory open.           *)
(***************************************************************************)
EXTENDS Naturals, Sequences

CONSTANTS
  Lockers,    \* processes that run this protocol: daemons of two instances
  LockPaths,  \* sequence of lock paths in the order they are acquired
  Inodes,     \* inode numbers of the file system
  MaxStamp,   \* bound on modification times
  NoDir

\* The code locks a fixed list of paths, which is not empty;
\* no directory is what a free path names.
ASSUME LocksAssumption ==
  /\ MaxStamp \in Nat
  /\ LockPaths \in Seq(STRING) /\ LockPaths # <<>>
  /\ NoDir \notin [ino : Inodes, stamp : Nat, made : Nat, by : Lockers, stale : BOOLEAN]

VARIABLES
  locks,    \* what each lock path names, and (seen by nobody) when and by whom it was made
  clock,    \* the last modification time given
  locker,   \* each process
  stalled   \* the paths where a directory has ever gone stale

lockVars == <<locks, clock, locker, stalled>>

Paths == {LockPaths[i] : i \in DOMAIN LockPaths}
Outside == [pc |-> "idle", next |-> 1, held |-> {}, seen |-> NoDir,
            compromised |-> FALSE]

LocksInit ==
  /\ locks = [p \in Paths |-> NoDir] /\ clock = 0 /\ stalled = {}
  /\ locker = [q \in Lockers |-> Outside]

\* Mutant: a lease does not keep its directory open.
OpenInodes_Closed == {}

\* A DirectoryLease keeps its directory open, which keeps the inode from reuse.
OpenInodes == UNION {{h.ino : h \in locker[q].held} : q \in Lockers}
UsedInodes == {locks[p].ino : p \in {x \in Paths : locks[x] # NoDir}}
FreeInodes == Inodes \ (OpenInodes \cup UsedInodes)

NextPath(q) == LockPaths[locker[q].next]
AtPath(q) == locks[NextPath(q)]
SameDirectory(a, d) == d # NoDir /\ d.ino = a.ino
Owned(h) == SameDirectory(h, locks[h.path])
Others(q) == {h \in locker[q].held : h.path # NextPath(q)}
After(i) == IF i = Len(LockPaths) THEN i ELSE i + 1

LockerStep(q, pc) == locker' = [locker EXCEPT ![q].pc = pc]
Saw(q, pc) == locker' = [locker EXCEPT ![q].pc = pc, ![q].seen = AtPath(q)]
\* An error on the way: the leases are dropped in the order they were taken.
GiveUp(q) == locker' = [locker EXCEPT ![q].pc = "drop", ![q].next = 1, ![q].seen = NoDir]
Removed(p) == locks' = [locks EXCEPT ![p] = NoDir]

-----------------------------------------------------------------------------
(* Acquisition, one path after the other.                                  *)

BeginLocks(q) ==
  /\ locker[q].pc = "idle"
  /\ locker' = [locker EXCEPT ![q] = [Outside EXCEPT !.pc = "make"]]
  /\ UNCHANGED <<locks, clock, stalled>>

\* create_dir succeeds.
MakeDirectory(q) ==
  /\ clock < MaxStamp /\ clock' = clock + 1
  /\ \E ino \in FreeInodes :
       locks' = [locks EXCEPT ![NextPath(q)] =
                   [ino |-> ino, stamp |-> clock + 1, made |-> clock + 1, by |-> q,
                    stale |-> FALSE]]
  /\ LockerStep(q, "stat") /\ UNCHANGED stalled

AcquireLease(q) ==
  /\ locker[q].pc = "make"
  /\ IF AtPath(q) = NoDir THEN MakeDirectory(q)
     ELSE LockerStep(q, "look") /\ UNCHANGED <<locks, clock, stalled>>

\* remove_stale_directory: look, look again, rmdir by name.
ObserveStale(q) ==
  /\ locker[q].pc = "look"
  /\ IF AtPath(q) # NoDir /\ AtPath(q).stale THEN Saw(q, "again") ELSE GiveUp(q)
  /\ UNCHANGED <<locks, clock, stalled>>

SameLease(seen, d) == SameDirectory(seen, d) /\ d.stamp = seen.stamp

ConfirmStale(q) ==
  /\ locker[q].pc = "again"
  /\ IF SameLease(locker[q].seen, AtPath(q)) THEN Saw(q, "rmdir") ELSE GiveUp(q)
  /\ UNCHANGED <<locks, clock, stalled>>

RemoveStale(q) ==
  /\ locker[q].pc = "rmdir" /\ Removed(NextPath(q))
  /\ IF AtPath(q) = NoDir THEN GiveUp(q) ELSE LockerStep(q, "remake")
  /\ UNCHANGED <<clock, stalled>>

RemakeLease(q) ==
  /\ locker[q].pc = "remake"
  /\ IF AtPath(q) = NoDir THEN MakeDirectory(q)
     ELSE GiveUp(q) /\ UNCHANGED <<locks, clock, stalled>>

\* The identity the lease will have is what its path names by now.
StatLease(q) ==
  /\ locker[q].pc = "stat"
  /\ IF AtPath(q) = NoDir THEN GiveUp(q) ELSE Saw(q, "open")
  /\ UNCHANGED <<locks, clock, stalled>>

\* What is opened must be what was seen.
OpenLease(q) ==
  /\ locker[q].pc = "open"
  /\ IF SameDirectory(locker[q].seen, AtPath(q))
       THEN locker' = [locker EXCEPT
              ![q].held = @ \cup {[path |-> NextPath(q), ino |-> AtPath(q).ino,
                                   made |-> AtPath(q).made, by |-> AtPath(q).by]},
              ![q].pc = IF locker[q].next = Len(LockPaths) THEN "held" ELSE "make",
              ![q].next = IF @ = Len(LockPaths) THEN 1 ELSE @ + 1,
              ![q].seen = NoDir]
       ELSE LockerStep(q, "undo")
  /\ UNCHANGED <<locks, clock, stalled>>

\* A failed open removes the directory if it is there still: look, rmdir by name.
UndoLease(q) ==
  /\ locker[q].pc = "undo"
  /\ IF SameDirectory(locker[q].seen, AtPath(q)) THEN LockerStep(q, "unmake") ELSE GiveUp(q)
  /\ UNCHANGED <<locks, clock, stalled>>

UnmakeLease(q) ==
  /\ locker[q].pc = "unmake" /\ Removed(NextPath(q)) /\ GiveUp(q)
  /\ UNCHANGED <<clock, stalled>>

\* Any other error of a system call; before the open it leaves a directory behind.
FailLease(q) ==
  /\ \/ locker[q].pc \in {"make", "look", "again", "rmdir", "remake", "stat", "undo"} /\ GiveUp(q)
     \/ locker[q].pc = "open" /\ LockerStep(q, "undo")
  /\ UNCHANGED <<locks, clock, stalled>>

-----------------------------------------------------------------------------
(* The leases while they are held.                                         *)

\* Every two seconds the worker touches its leases one after the other, and
\* stops at the first it has lost.
Heartbeat(q) ==
  /\ locker[q].pc = "held" /\ ~locker[q].compromised
  /\ \E h \in locker[q].held :
       /\ h.path = NextPath(q)
       /\ IF Owned(h)
            THEN /\ clock < MaxStamp /\ clock' = clock + 1
                 /\ locks' = [locks EXCEPT ![h.path].stamp = clock + 1, ![h.path].stale = FALSE]
                 /\ locker' = [locker EXCEPT ![q].next = IF @ = Len(LockPaths) THEN 1 ELSE @ + 1]
            ELSE /\ locker' = [locker EXCEPT ![q].compromised = TRUE]
                 /\ UNCHANGED <<locks, clock>>
  /\ UNCHANGED stalled

\* check(), asked before every write of the credential store.
Passes(q) ==
  /\ locker[q].pc = "held" /\ ~locker[q].compromised
  /\ \A h \in locker[q].held : Owned(h)

ReleaseLocks(q) ==
  /\ locker[q].pc = "held" /\ GiveUp(q)
  /\ UNCHANGED <<locks, clock, stalled>>

\* Drop: a directory whose identity still matches is removed, by name.
DropLease(q) ==
  /\ locker[q].pc = "drop"
  /\ IF locker[q].held = {} THEN locker' = [locker EXCEPT ![q] = Outside]
     ELSE \E h \in locker[q].held :
            /\ h.path = NextPath(q)
            /\ IF Owned(h) THEN LockerStep(q, "unlink")
               ELSE locker' = [locker EXCEPT ![q].held = @ \ {h}, ![q].next = After(@)]
  /\ UNCHANGED <<locks, clock, stalled>>

UnlinkLease(q) ==
  /\ locker[q].pc = "unlink" /\ Removed(NextPath(q))
  /\ locker' = [locker EXCEPT ![q].held = Others(q),
                              ![q].next = After(@), ![q].pc = "drop"]
  /\ UNCHANGED <<clock, stalled>>

\* The process dies and leaves its directories behind.
LockerDies(q) ==
  /\ locker[q].pc # "idle"
  /\ locker' = [locker EXCEPT ![q] = Outside]
  /\ UNCHANGED <<locks, clock, stalled>>

\* Nobody touched the lease for the time after which others may remove it.
GoesStale(p) ==
  /\ locks[p] # NoDir /\ ~locks[p].stale
  /\ stalled' = stalled \cup {p}
  /\ locks' = [locks EXCEPT ![p].stale = TRUE]
  /\ UNCHANGED <<clock, locker>>

LocksNext ==
  \/ \E q \in Lockers :
       \/ BeginLocks(q) \/ AcquireLease(q) \/ ObserveStale(q) \/ ConfirmStale(q) \/ RemoveStale(q)
       \/ RemakeLease(q) \/ StatLease(q) \/ OpenLease(q) \/ UndoLease(q) \/ UnmakeLease(q)
       \/ FailLease(q) \/ Heartbeat(q) \/ ReleaseLocks(q) \/ DropLease(q) \/ UnlinkLease(q)
       \/ LockerDies(q)
  \/ \E p \in Paths : GoesStale(p)

LocksSpec == LocksInit /\ [][LocksNext]_lockVars

-----------------------------------------------------------------------------
(* Properties *)

\* What the lock is for, which the code does not keep: a directory is removed and
\* identified by its name, so that of two processes that find one stale, one can
\* remove what the other has just made, make it again, and both take the identity
\* of the last one.  No run claims it; the next says how far it holds.
CheckedIsExclusive ==
  \A q, r \in Lockers : Passes(q) /\ Passes(r) => q = r

\* Two processes find the same directory to be theirs only where one was abandoned,
\* and one of the two did not make it: it is where removal and identity go by name.
SharedLeaseWasAbandoned ==
  \A q, r \in Lockers : q # r =>
    \A h \in locker[q].held, k \in locker[r].held :
      h.path = k.path /\ Owned(h) /\ Owned(k) =>
        h.path \in stalled /\ (h.by # q \/ k.by # r)

\* Two processes pass check() together only if a directory was abandoned on every
\* path, and one of the two holds one that it did not make: a single path whose
\* directory was never stale keeps all the others out, however the removals, the
\* failures and the deaths of the processes fall between the calls.
OneSoundLockExcludes ==
  \A q, r \in Lockers : q # r /\ Passes(q) /\ Passes(r) =>
    \A p \in Paths :
      /\ p \in stalled
      /\ \E x \in {q, r} : \E h \in locker[x].held : h.path = p /\ h.by # x

\* is_owned is not deceived by a directory made later under the same number: a
\* lease that was taken away is never found again.
LostLeaseIsNoticed ==
  \A q \in Lockers : \A h \in locker[q].held :
    Owned(h) => locks[h.path].made = h.made

\* Who goes on to remove a directory has found it stale at the second look, too,
\* though it was touched, removed or made again since the first.
ConfirmedWasStale ==
  \A q \in Lockers : locker[q].pc = "rmdir" => locker[q].seen.stale

\* A process that passes check() has its credentials for itself as far as one sound
\* lock path can promise, and never by mistaking another's directory for its own.
LocksAreExclusive ==
  SharedLeaseWasAbandoned /\ OneSoundLockExcludes /\ LostLeaseIsNoticed /\ ConfirmedWasStale
=============================================================================
