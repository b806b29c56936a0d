-------------------------- MODULE OfficialLoginProofs --------------------------
(***************************************************************************)
(* Proofs about OfficialLogin: for any set of logins, any number of faults *)
(* and any interleaving of the workers, their clients, the callers and the *)
(* deaths of the daemon, no login leaves a process, a home or an account   *)
(* behind that nobody knows of.                                            *)
(*                                                                         *)
(* The properties speak of trees, homes, markers and accounts; what keeps  *)
(* them is where the worker of the login stands.  LoginInv(l) ties the two *)
(* together, for one login at a time: no step disturbs two logins except   *)
(* those of the daemon itself.                                             *)
(***************************************************************************)
EXTENDS OfficialLogin, TLAPS

States == {"none", "starting", "browser", "completed", "cancelled", "failed", "forgotten"}
Sessions == [state : States, cancel : BOOLEAN, account : BOOLEAN, inbox : 0 .. MaxCodes]
Places == {"none", "prepare", "probe", "spawnprobe", "recordprobe", "startprobe", "run",
           "stop", "probed", "spawnlogin", "recordlogin", "startlogin", "login",
           "capture", "save", "clean"}
Workers == [pc : Places, seen : BOOLEAN, probes : 0 .. 2, allowed : BOOLEAN,
            outcome : {"none", "error", "cancelled", "account", "unread"}]
Markers == [pending : BOOLEAN, pid : BOOLEAN, start : BOOLEAN, terminated : BOOLEAN]
Homes == [exists : BOOLEAN, marker : Markers]
Trees == {"none", "alive", "dead"}
Callers == {"idle", "waiting", "busy"} \cup States
Daemons == {"up", "stopping", "down", "refused"}

LoginTypes ==
  /\ session \in [Logins -> Sessions] /\ worker \in [Logins -> Workers]
  /\ home \in [Logins -> Homes] /\ tree \in [Logins -> Trees]
  /\ caller \in [Logins -> Callers] /\ daemon \in Daemons
  /\ saved \subseteq Logins /\ faults \in 0 .. LoginFaults

Working(l) == worker[l].pc # "none"
Recorded(l) == (home[l].marker.pending \/ home[l].marker.pid) /\ ~home[l].marker.terminated

\* A worker runs under a daemon, for a session that is active, in a home that
\* exists once it was prepared.
WorkerHasHome(l) ==
  /\ Working(l) => daemon \in {"up", "stopping"}
  /\ Working(l) <=> IsActive(l)
  /\ Working(l) => (worker[l].pc = "prepare" <=> ~home[l].exists)

\* A living tree has a home and a marker that names it or announces it, and no
\* worker that believes that it may clean up.
TreeHasHome(l) ==
  /\ tree[l] = "alive" => home[l].exists /\ Recorded(l)
  /\ Working(l) /\ worker[l].allowed => tree[l] # "alive"
  /\ worker[l].pc \in {"spawnprobe", "spawnlogin"} => Recorded(l)

\* An account is saved by a worker that has one, and stays with its session.
AccountHasSession(l) ==
  /\ worker[l].pc \in {"capture", "save"} => worker[l].outcome = "account"
  /\ l \in saved => /\ session[l].state \notin {"none", "cancelled"}
                    /\ Working(l) => /\ worker[l].pc = "clean"
                                     /\ worker[l].outcome \in {"account", "unread"}
                    /\ Over(l) => \/ session[l].account
                                  \/ session[l].state = "failed" /\ worker[l].outcome = "unread"
  /\ caller[l] = "cancelled" => session[l].state = "cancelled"

LoginInv(l) == WorkerHasHome(l) /\ TreeHasHome(l) /\ AccountHasSession(l)
LoginsInv == LoginTypes /\ \A l \in Logins : LoginInv(l)

-----------------------------------------------------------------------------
(* What one step changes *)

\* Nothing of login k changes.
Untouched(k) ==
  /\ session'[k] = session[k] /\ worker'[k] = worker[k] /\ home'[k] = home[k]
  /\ tree'[k] = tree[k] /\ caller'[k] = caller[k] /\ (k \in saved' <=> k \in saved)

\* The parts of a step of login l that its proof needs: the next values have
\* their types, the other logins keep theirs and the daemon its state.
StepOf(l) ==
  /\ LoginTypes' /\ daemon' = daemon
  /\ \A k \in Logins \ {l} : Untouched(k)

LEMMA UntouchedKeeps ==
  ASSUME NEW k \in Logins, LoginInv(k), Untouched(k),
         daemon' = daemon \/ daemon' \in {"up", "stopping"}
  PROVE  LoginInv(k)'
BY DEF LoginInv, WorkerHasHome, TreeHasHome, AccountHasSession, Working, Recorded,
       Over, IsActive, Untouched

LEMMA InitKeeps == LoginInit => LoginsInv
<1> SUFFICES ASSUME LoginInit PROVE LoginsInv
  OBVIOUS
<1>1. LoginTypes
  BY LoginAssumption DEF LoginInit, LoginTypes, Sessions, Workers, Homes, Markers, Trees, Callers,
         Daemons, States, Places, Unused, NoWorker, NoHome, NoMarker
<1>2. ASSUME NEW l \in Logins PROVE LoginInv(l)
  BY DEF LoginInit, LoginInv, WorkerHasHome, TreeHasHome, AccountHasSession, Working,
         Recorded, Over, IsActive, Unused, NoWorker, NoHome, NoMarker
<1> QED
  BY <1>1, <1>2 DEF LoginsInv

Outcomes == {"none", "error", "cancelled", "account", "unread"}

\* The worker sees the cancellation, once, and ends.
Interrupted(l, outcome, pc) ==
  worker' = [worker EXCEPT ![l].seen = TRUE, ![l].outcome = outcome, ![l].pc = pc]

LEMMA WorkerMoves ==
  ASSUME LoginTypes, NEW l \in Logins, NEW outcome \in Outcomes, NEW pc \in Places,
         Ends(l, outcome, pc) \/ WorkerGoto(l, pc) \/ Interrupted(l, outcome, pc)
  PROVE  /\ worker' \in [Logins -> Workers]
         /\ \A k \in Logins \ {l} : worker'[k] = worker[k]
<1>1. CASE Ends(l, outcome, pc)
  <2>1. worker' = [worker EXCEPT ![l] = [worker[l] EXCEPT !.outcome = outcome, !.pc = pc]]
    BY <1>1 DEF Ends, LoginTypes
  <2>2. [worker[l] EXCEPT !.outcome = outcome, !.pc = pc] \in Workers
    BY DEF LoginTypes, Workers, Outcomes
  <2> QED
    BY <2>1, <2>2 DEF LoginTypes
<1>2. CASE WorkerGoto(l, pc)
  <2>1. worker' = [worker EXCEPT ![l] = [worker[l] EXCEPT !.pc = pc]]
    BY <1>2 DEF WorkerGoto, LoginTypes
  <2>2. [worker[l] EXCEPT !.pc = pc] \in Workers
    BY DEF LoginTypes, Workers
  <2> QED
    BY <2>1, <2>2 DEF LoginTypes
<1>3. CASE Interrupted(l, outcome, pc)
  <2>1. worker' = [worker EXCEPT ![l] =
                     [worker[l] EXCEPT !.seen = TRUE, !.outcome = outcome, !.pc = pc]]
    BY <1>3 DEF Interrupted, LoginTypes
  <2>2. [worker[l] EXCEPT !.seen = TRUE, !.outcome = outcome, !.pc = pc] \in Workers
    BY DEF LoginTypes, Workers, Outcomes
  <2> QED
    BY <2>1, <2>2 DEF LoginTypes
<1> QED
  BY <1>1, <1>2, <1>3

LEMMA MarkerMoves ==
  ASSUME LoginTypes, NEW l \in Logins, NEW marker \in Markers, WriteMarker(l, marker)
  PROVE  /\ home' = [home EXCEPT ![l] = [exists |-> home[l].exists, marker |-> marker]]
         /\ home' \in [Logins -> Homes]
<1>1. home[l] \in Homes /\ home \in [Logins -> Homes]
  BY DEF LoginTypes
<1>2. home' = [home EXCEPT ![l] = [home[l] EXCEPT !.marker = marker]]
  BY <1>1 DEF WriteMarker
<1>3. [home[l] EXCEPT !.marker = marker] = [exists |-> home[l].exists, marker |-> marker]
  BY <1>1 DEF Homes
<1>4. [exists |-> home[l].exists, marker |-> marker] \in Homes
  BY <1>1 DEF Homes
<1> QED
  BY <1>1, <1>2, <1>3, <1>4

\* The three markers of record_child_marker announce or name a process.
Names(marker) == marker \in Markers /\ (marker.pending \/ marker.pid) /\ ~marker.terminated

LEMMA MarkerRecords ==
  ASSUME LoginTypes, NEW l \in Logins, NEW marker, Names(marker), WriteMarker(l, marker)
  PROVE  /\ home' \in [Logins -> Homes]
         /\ home'[l].exists = home[l].exists /\ Recorded(l)'
<1>1. /\ home' = [home EXCEPT ![l] = [exists |-> home[l].exists, marker |-> marker]]
      /\ home' \in [Logins -> Homes]
  BY MarkerMoves DEF Names
<1>2. home'[l] = [exists |-> home[l].exists, marker |-> marker]
  BY <1>1 DEF LoginTypes
<1> QED
  BY <1>1, <1>2 DEF Recorded, Names

LEMMA MarkersAre ==
  /\ Names([NoMarker EXCEPT !.pending = TRUE])
  /\ Names([NoMarker EXCEPT !.pending = TRUE, !.pid = TRUE])
  /\ Names([NoMarker EXCEPT !.pid = TRUE, !.start = TRUE])
<1>1. NoMarker \in Markers /\ NoMarker.terminated = FALSE
  BY DEF NoMarker, Markers
<1>2. Names([NoMarker EXCEPT !.pending = TRUE])
  BY <1>1 DEF Names, Markers
<1>3. Names([NoMarker EXCEPT !.pending = TRUE, !.pid = TRUE])
  BY <1>1 DEF Names, Markers
<1>4. Names([NoMarker EXCEPT !.pid = TRUE, !.start = TRUE])
  BY <1>1 DEF Names, Markers
<1> QED
  BY <1>2, <1>3, <1>4

LEMMA PrepareStep ==
  ASSUME LoginsInv, NEW l \in Logins, Prepare(l)
  PROVE  StepOf(l) /\ LoginInv(l)'
<1>1. LoginTypes'
  <2>1. worker' \in [Logins -> Workers]
    BY WorkerMoves DEF LoginsInv, Prepare, Outcomes, Places
  <2>2. home' \in [Logins -> Homes]
    BY DEF LoginsInv, LoginTypes, Prepare, Homes, Markers, NoMarker
  <2>3. faults' \in 0 .. LoginFaults
    BY LoginAssumption DEF LoginsInv, LoginTypes, Prepare, Fault
  <2> QED
    BY <2>1, <2>2, <2>3 DEF LoginsInv, LoginTypes, Prepare
<1>2. \A k \in Logins \ {l} : Untouched(k)
  BY DEF LoginsInv, LoginTypes, Prepare, Ends, WorkerGoto, Untouched
<1>3. LoginInv(l)'
  BY DEF LoginsInv, LoginTypes, Prepare, Ends, WorkerGoto, WorkerAt, Workers, Homes, NoMarker,
         LoginInv, WorkerHasHome, TreeHasHome, AccountHasSession, Working, Recorded, Over, IsActive
<1> QED
  BY <1>1, <1>2, <1>3 DEF StepOf, Prepare

LEMMA ProbeStep ==
  ASSUME LoginsInv, NEW l \in Logins, Probe(l)
  PROVE  StepOf(l) /\ LoginInv(l)'
<1>1. home' \in [Logins -> Homes] /\ home'[l].exists = home[l].exists
      /\ (Recorded(l) => Recorded(l)')
      /\ (worker'[l].pc = "spawnprobe" => Recorded(l)')
  <2>1. CASE WriteMarker(l, [NoMarker EXCEPT !.pending = TRUE])
    BY <2>1, MarkerRecords, MarkersAre DEF LoginsInv
  <2>2. CASE UNCHANGED home /\ worker'[l].pc # "spawnprobe"
    BY <2>2 DEF LoginsInv, LoginTypes, Recorded
  <2> QED
    BY <2>1, <2>2 DEF Probe, LoginsInv, LoginTypes, Workers, Ends, WorkerGoto
<1>2. worker' \in [Logins -> Workers]
  <2>1. CASE Ends(l, "error", "probed")
    BY <2>1, WorkerMoves DEF LoginsInv, Outcomes, Places
  <2>2. CASE WorkerGoto(l, "spawnprobe")
    BY <2>2, WorkerMoves DEF LoginsInv, Outcomes, Places
  <2> QED
    BY <2>1, <2>2 DEF Probe
<1>3. faults' \in 0 .. LoginFaults
  BY DEF LoginsInv, LoginTypes, Probe
<1>4. LoginTypes'
  BY <1>1, <1>2, <1>3 DEF LoginsInv, LoginTypes, Probe
<1>5. \A k \in Logins \ {l} : Untouched(k)
  BY DEF LoginsInv, LoginTypes, Untouched, Probe, Ends, WorkerGoto, WriteMarker
<1>6. LoginInv(l)'
  BY <1>1, <1>4 DEF LoginsInv, LoginTypes, Probe, Ends, WorkerGoto, WorkerAt, Workers, LoginInv,
         WorkerHasHome, TreeHasHome, AccountHasSession, Working, Recorded, Over, IsActive
<1> QED
  BY <1>4, <1>5, <1>6 DEF StepOf, Probe

LEMMA RecordPidStep ==
  ASSUME LoginsInv, NEW l \in Logins, NEW from, NEW to, RecordPid(l, from, to),
         from \in {"recordprobe", "recordlogin"}, to \in {"startprobe", "startlogin"}
  PROVE  StepOf(l) /\ LoginInv(l)'
<1>1. home' \in [Logins -> Homes] /\ home'[l].exists = home[l].exists
      /\ (Recorded(l) => Recorded(l)')
  <2>1. CASE WriteMarker(l, [NoMarker EXCEPT !.pending = TRUE, !.pid = TRUE])
    BY <2>1, MarkerRecords, MarkersAre DEF LoginsInv
  <2>2. CASE UNCHANGED home
    BY <2>2 DEF LoginsInv, LoginTypes, Recorded
  <2> QED
    BY <2>1, <2>2 DEF RecordPid
<1>2. worker' \in [Logins -> Workers]
  <2>1. CASE WorkerGoto(l, to)
    BY <2>1, WorkerMoves DEF LoginsInv, Outcomes, Places
  <2>2. CASE Ends(l, "error", "stop")
    BY <2>2, WorkerMoves DEF LoginsInv, Outcomes, Places
  <2> QED
    BY <2>1, <2>2 DEF RecordPid
<1>3. faults' \in 0 .. LoginFaults
  BY LoginAssumption DEF LoginsInv, LoginTypes, RecordPid, Fault
<1>4. LoginTypes'
  BY <1>1, <1>2, <1>3 DEF LoginsInv, LoginTypes, RecordPid
<1>5. \A k \in Logins \ {l} : Untouched(k)
  BY DEF LoginsInv, LoginTypes, Untouched, RecordPid, Ends, WorkerGoto, WriteMarker
<1>6. LoginInv(l)'
  BY <1>1, <1>4 DEF LoginsInv, LoginTypes, RecordPid, Ends, WorkerGoto, WorkerAt, Workers, LoginInv,
         WorkerHasHome, TreeHasHome, AccountHasSession, Working, Recorded, Over, IsActive
<1> QED
  BY <1>4, <1>5, <1>6 DEF StepOf, RecordPid

LEMMA RecordStartStep ==
  ASSUME LoginsInv, NEW l \in Logins, NEW from, NEW to, RecordStart(l, from, to),
         from \in {"startprobe", "startlogin"}, to \in {"run", "login"}
  PROVE  StepOf(l) /\ LoginInv(l)'
<1>1. home' \in [Logins -> Homes] /\ home'[l].exists = home[l].exists
      /\ (Recorded(l) => Recorded(l)')
  <2>1. CASE WriteMarker(l, [NoMarker EXCEPT !.pid = TRUE, !.start = TRUE])
    BY <2>1, MarkerRecords, MarkersAre DEF LoginsInv
  <2>2. CASE UNCHANGED home
    BY <2>2 DEF LoginsInv, LoginTypes, Recorded
  <2> QED
    BY <2>1, <2>2 DEF RecordStart
<1>2. worker' \in [Logins -> Workers]
  <2>1. CASE WorkerGoto(l, to)
    BY <2>1, WorkerMoves DEF LoginsInv, Outcomes, Places
  <2>2. CASE Ends(l, "error", "stop")
    BY <2>2, WorkerMoves DEF LoginsInv, Outcomes, Places
  <2> QED
    BY <2>1, <2>2 DEF RecordStart
<1>3. faults' \in 0 .. LoginFaults
  BY LoginAssumption DEF LoginsInv, LoginTypes, RecordStart, Fault
<1>4. LoginTypes'
  BY <1>1, <1>2, <1>3 DEF LoginsInv, LoginTypes, RecordStart
<1>5. \A k \in Logins \ {l} : Untouched(k)
  BY DEF LoginsInv, LoginTypes, Untouched, RecordStart, Ends, WorkerGoto, WriteMarker
<1>6. LoginInv(l)'
  BY <1>1, <1>4 DEF LoginsInv, LoginTypes, RecordStart, Ends, WorkerGoto, WorkerAt, Workers, LoginInv,
         WorkerHasHome, TreeHasHome, AccountHasSession, Working, Recorded, Over, IsActive
<1> QED
  BY <1>4, <1>5, <1>6 DEF StepOf, RecordStart

LEMMA ProbedStep ==
  ASSUME LoginsInv, NEW l \in Logins, Probed(l)
  PROVE  StepOf(l) /\ LoginInv(l)'
<1>1. home' \in [Logins -> Homes] /\ home'[l].exists = home[l].exists
      /\ (Recorded(l) => Recorded(l)')
      /\ (worker'[l].pc = "spawnlogin" => Recorded(l)')
  <2>1. CASE WriteMarker(l, [NoMarker EXCEPT !.pending = TRUE])
    BY <2>1, MarkerRecords, MarkersAre DEF LoginsInv
  <2>2. CASE UNCHANGED home /\ worker'[l].pc # "spawnlogin"
    BY <2>2 DEF LoginsInv, LoginTypes, Recorded
  <2> QED
    BY <2>1, <2>2 DEF Probed, LoginsInv, LoginTypes, Workers, Ends, WorkerGoto
<1>2. worker' \in [Logins -> Workers]
  <2>1. CASE Ends(l, "cancelled", "clean")
    BY <2>1, WorkerMoves DEF LoginsInv, Outcomes, Places
  <2>2. CASE WorkerGoto(l, "clean")
    BY <2>2, WorkerMoves DEF LoginsInv, Outcomes, Places
  <2>3. CASE WorkerGoto(l, "spawnlogin")
    BY <2>3, WorkerMoves DEF LoginsInv, Outcomes, Places
  <2> QED
    BY <2>1, <2>2, <2>3 DEF Probed
<1>3. faults' \in 0 .. LoginFaults
  BY DEF LoginsInv, LoginTypes, Probed
<1>4. LoginTypes'
  BY <1>1, <1>2, <1>3 DEF LoginsInv, LoginTypes, Probed
<1>5. \A k \in Logins \ {l} : Untouched(k)
  BY DEF LoginsInv, LoginTypes, Untouched, Probed, Ends, WorkerGoto, WriteMarker
<1>6. LoginInv(l)'
  BY <1>1, <1>4 DEF LoginsInv, LoginTypes, Probed, Ends, WorkerGoto, WorkerAt, Workers, LoginInv,
         WorkerHasHome, TreeHasHome, AccountHasSession, Working, Recorded, Over, IsActive
<1> QED
  BY <1>4, <1>5, <1>6 DEF StepOf, Probed

LEMMA ProbeEndsStep ==
  ASSUME LoginsInv, NEW l \in Logins, ProbeEnds(l)
  PROVE  StepOf(l) /\ LoginInv(l)'
<1>1. LoginTypes'
  <2>1. worker' \in [Logins -> Workers]
    BY WorkerMoves DEF LoginsInv, ProbeEnds, Interrupted, Outcomes, Places
  <2>2. faults' \in 0 .. LoginFaults
    BY LoginAssumption DEF LoginsInv, LoginTypes, ProbeEnds, Fault
  <2> QED
    BY <2>1, <2>2 DEF LoginsInv, LoginTypes, ProbeEnds
<1>2. \A k \in Logins \ {l} : Untouched(k)
  BY DEF LoginsInv, LoginTypes, Untouched, ProbeEnds, Ends, WorkerGoto
<1>3. LoginInv(l)'
  BY <1>1 DEF LoginsInv, LoginTypes, ProbeEnds, Ends, WorkerGoto, WorkerAt, Workers, LoginInv,
         WorkerHasHome, TreeHasHome, AccountHasSession, Working, Recorded, Over, IsActive
<1> QED
  BY <1>1, <1>2, <1>3 DEF StepOf, ProbeEnds

LEMMA LoginEndsStep ==
  ASSUME LoginsInv, NEW l \in Logins, LoginEnds(l)
  PROVE  StepOf(l) /\ LoginInv(l)'
<1>1. LoginTypes'
  <2>1. worker' \in [Logins -> Workers]
    BY WorkerMoves DEF LoginsInv, LoginEnds, Interrupted, Outcomes, Places
  <2>2. faults' \in 0 .. LoginFaults
    BY LoginAssumption DEF LoginsInv, LoginTypes, LoginEnds, Fault
  <2> QED
    BY <2>1, <2>2 DEF LoginsInv, LoginTypes, LoginEnds
<1>2. \A k \in Logins \ {l} : Untouched(k)
  BY DEF LoginsInv, LoginTypes, Untouched, LoginEnds, Ends, WorkerGoto
<1>3. LoginInv(l)'
  BY <1>1 DEF LoginsInv, LoginTypes, LoginEnds, Ends, WorkerGoto, WorkerAt, Workers, LoginInv,
         WorkerHasHome, TreeHasHome, AccountHasSession, Working, Recorded, Over, IsActive
<1> QED
  BY <1>1, <1>2, <1>3 DEF StepOf, LoginEnds

LEMMA CaptureLoginStep ==
  ASSUME LoginsInv, NEW l \in Logins, CaptureLogin(l)
  PROVE  StepOf(l) /\ LoginInv(l)'
<1>1. LoginTypes'
  <2>1. worker' \in [Logins -> Workers]
    BY WorkerMoves DEF LoginsInv, CaptureLogin, Interrupted, Outcomes, Places
  <2>2. faults' \in 0 .. LoginFaults
    BY LoginAssumption DEF LoginsInv, LoginTypes, CaptureLogin, Fault
  <2> QED
    BY <2>1, <2>2 DEF LoginsInv, LoginTypes, CaptureLogin
<1>2. \A k \in Logins \ {l} : Untouched(k)
  BY DEF LoginsInv, LoginTypes, Untouched, CaptureLogin, Ends, WorkerGoto
<1>3. LoginInv(l)'
  BY <1>1 DEF LoginsInv, LoginTypes, CaptureLogin, Ends, WorkerGoto, WorkerAt, Workers, LoginInv,
         WorkerHasHome, TreeHasHome, AccountHasSession, Working, Recorded, Over, IsActive
<1> QED
  BY <1>1, <1>2, <1>3 DEF StepOf, CaptureLogin

LEMMA SaveLoginStep ==
  ASSUME LoginsInv, NEW l \in Logins, SaveLogin(l)
  PROVE  StepOf(l) /\ LoginInv(l)'
<1>1. LoginTypes'
  <2>1. worker' \in [Logins -> Workers]
    BY WorkerMoves DEF LoginsInv, SaveLogin, Interrupted, Outcomes, Places
  <2>2. saved' \subseteq Logins /\ faults' \in 0 .. LoginFaults
    BY LoginAssumption DEF LoginsInv, LoginTypes, SaveLogin, Fault
  <2> QED
    BY <2>1, <2>2 DEF LoginsInv, LoginTypes, SaveLogin
<1>2. \A k \in Logins \ {l} : Untouched(k)
  BY DEF LoginsInv, LoginTypes, Untouched, SaveLogin, Ends, WorkerGoto
<1>3. LoginInv(l)'
  BY <1>1 DEF LoginsInv, LoginTypes, SaveLogin, Ends, WorkerGoto, WorkerAt, Workers, LoginInv,
         WorkerHasHome, TreeHasHome, AccountHasSession, Working, Recorded, Over, IsActive
<1> QED
  BY <1>1, <1>2, <1>3 DEF StepOf, SaveLogin

LEMMA SpawnStep ==
  ASSUME LoginsInv, NEW l \in Logins, NEW from \in {"spawnprobe", "spawnlogin"},
         NEW to \in {"recordprobe", "recordlogin"}, NEW failed \in {"probed", "clean"},
         Spawn(l, from, to, failed)
  PROVE  StepOf(l) /\ LoginInv(l)'
<1>1. worker' \in [Logins -> Workers]
  <2>1. CASE worker' = [worker EXCEPT ![l].allowed = FALSE, ![l].pc = to]
    <3>1. worker' = [worker EXCEPT ![l] = [worker[l] EXCEPT !.allowed = FALSE, !.pc = to]]
      BY <2>1 DEF LoginsInv, LoginTypes
    <3>2. worker[l] \in Workers /\ to \in Places
      BY DEF LoginsInv, LoginTypes, Places
    <3>3. [worker[l] EXCEPT !.allowed = FALSE, !.pc = to] \in Workers
      BY <3>2 DEF Workers
    <3> QED
      BY <3>1, <3>3 DEF LoginsInv, LoginTypes
  <2>2. CASE Ends(l, "error", failed)
    BY <2>2, WorkerMoves DEF LoginsInv, Outcomes, Places
  <2> QED
    BY <2>1, <2>2 DEF Spawn
<1>2. tree' \in [Logins -> Trees] /\ faults' \in 0 .. LoginFaults
  BY LoginAssumption DEF LoginsInv, LoginTypes, Spawn, Trees, Fault
<1>3. LoginTypes'
  BY <1>1, <1>2 DEF LoginsInv, LoginTypes, Spawn
<1>4. \A k \in Logins \ {l} : Untouched(k)
  BY DEF LoginsInv, LoginTypes, Untouched, Spawn, Ends
<1>5. LoginInv(l)'
  BY <1>3 DEF LoginsInv, LoginTypes, Spawn, Ends, WorkerAt, Workers, LoginInv,
         WorkerHasHome, TreeHasHome, AccountHasSession, Working, Recorded, Over, IsActive
<1> QED
  BY <1>3, <1>4, <1>5 DEF StepOf, Spawn

LEMMA StopTreeStep ==
  ASSUME LoginsInv, NEW l \in Logins, StopTree(l)
  PROVE  StepOf(l) /\ LoginInv(l)'
<1> DEFINE probing == worker[l].probes > 0
           more == worker[l].probes > 1 /\ worker[l].outcome = "none"
           probes == IF probing THEN worker[l].probes - 1 ELSE 0
           pc == IF probing THEN IF more THEN "probe" ELSE "probed"
                 ELSE IF worker[l].outcome = "account" THEN "capture" ELSE "clean"
           marker == [home[l].marker EXCEPT !.terminated = TRUE, !.pending = FALSE]
<1>0. /\ worker[l] \in Workers /\ home[l] \in Homes
      /\ worker \in [Logins -> Workers] /\ home \in [Logins -> Homes]
  BY DEF LoginsInv, LoginTypes
<1>1. probes \in 0 .. 2 /\ pc \in Places
  BY <1>0 DEF Workers, Places
<1>2. CASE /\ tree' = [tree EXCEPT ![l] = "dead"] /\ WriteMarker(l, marker)
           /\ worker' = [worker EXCEPT ![l].allowed = TRUE, ![l].probes = probes, ![l].pc = pc]
           /\ UNCHANGED faults
  <2>1. worker' = [worker EXCEPT ![l] =
                     [worker[l] EXCEPT !.allowed = TRUE, !.probes = probes, !.pc = pc]]
    BY <1>0, <1>2
  <2>2. [worker[l] EXCEPT !.allowed = TRUE, !.probes = probes, !.pc = pc] \in Workers
    BY <1>0, <1>1 DEF Workers
  <2>3. worker' \in [Logins -> Workers]
    BY <1>0, <2>1, <2>2
  <2>4. marker \in Markers
    BY <1>0 DEF Homes, Markers
  <2>5. /\ home' = [home EXCEPT ![l] = [exists |-> home[l].exists, marker |-> marker]]
        /\ home' \in [Logins -> Homes]
    BY <1>2, <2>4, MarkerMoves DEF LoginsInv
  <2>6. home'[l].exists = home[l].exists
    BY <1>0, <2>5
  <2>7. LoginTypes'
    BY <1>2, <2>3, <2>5 DEF LoginsInv, LoginTypes, StopTree, Trees
  <2>8. \A k \in Logins \ {l} : Untouched(k)
    BY <1>2, <2>1, <2>5 DEF LoginsInv, LoginTypes, Untouched, StopTree
  <2>9. /\ worker'[l].pc = pc /\ worker'[l].outcome = worker[l].outcome
        /\ tree'[l] = "dead"
    BY <1>0, <1>2, <2>1 DEF LoginsInv, LoginTypes, Workers
  <2>10. LoginInv(l)'
    <3>1. l \notin saved
      BY DEF LoginsInv, LoginInv, AccountHasSession, StopTree, WorkerAt, Working
    <3>2. worker[l].pc = "stop" /\ pc \in {"probe", "probed", "capture", "clean"}
      BY DEF StopTree, WorkerAt
    <3>3. pc = "capture" => worker[l].outcome = "account"
      OBVIOUS
    <3> HIDE DEF pc
    <3> QED
      BY <2>6, <2>9, <3>1, <3>2, <3>3 DEF LoginsInv, LoginInv, StopTree, WorkerHasHome,
         TreeHasHome, AccountHasSession, Working, Recorded, Over, IsActive
  <2> QED
    BY <2>7, <2>8, <2>10 DEF StepOf, StopTree
<1>3. CASE /\ Fault /\ UNCHANGED <<tree, home>>
           /\ Ends(l, "error", IF probing THEN "probed" ELSE "clean")
  <2>1. worker' \in [Logins -> Workers]
    BY <1>3, WorkerMoves DEF LoginsInv, Outcomes, Places
  <2>2. LoginTypes'
    BY <1>3, <2>1, LoginAssumption DEF LoginsInv, LoginTypes, StopTree, Fault
  <2>3. \A k \in Logins \ {l} : Untouched(k)
    BY <1>3 DEF LoginsInv, LoginTypes, Untouched, StopTree, Ends
  <2>4. LoginInv(l)'
    BY <1>0, <1>3 DEF LoginsInv, LoginInv, StopTree, Ends, WorkerAt, Workers, WorkerHasHome,
       TreeHasHome, AccountHasSession, Working, Recorded, Over, IsActive
  <2> QED
    BY <2>2, <2>3, <2>4 DEF StepOf, StopTree
<1> QED
  BY <1>2, <1>3 DEF StopTree

\* A session changes its state, its inbox or its flag and stays a session.
LEMMA SessionMoves ==
  ASSUME LoginTypes, NEW l \in Logins, NEW s \in Sessions, session' = [session EXCEPT ![l] = s]
  PROVE  /\ session' \in [Logins -> Sessions] /\ session'[l] = s
         /\ \A k \in Logins \ {l} : session'[k] = session[k]
BY DEF LoginTypes

LEMMA StartLoginStep ==
  ASSUME LoginsInv, NEW l \in Logins, StartLogin(l)
  PROVE  StepOf(l) /\ LoginInv(l)'
<1> DEFINE started == [session[l] EXCEPT !.state = "starting"]
           fresh == [NoWorker EXCEPT !.pc = "prepare", !.probes = IF ClaudeLogin THEN 2 ELSE 1]
<1>0. session[l] \in Sessions /\ session \in [Logins -> Sessions] /\ worker \in [Logins -> Workers]
  BY DEF LoginsInv, LoginTypes
<1>1. started \in Sessions /\ fresh \in Workers
  <2>1. started \in Sessions
    BY <1>0 DEF Sessions, States
  <2>2. NoWorker \in Workers
    BY DEF NoWorker, Workers, Places
  <2>3. ASSUME NEW n \in 0 .. 2
        PROVE  [NoWorker EXCEPT !.pc = "prepare", !.probes = n] \in Workers
    BY <2>2 DEF Workers, Places
  <2>4. (IF ClaudeLogin THEN 2 ELSE 1) \in 0 .. 2
    OBVIOUS
  <2> QED
    BY <2>1, <2>3, <2>4
<1>2. session' = [session EXCEPT ![l] = started] /\ worker' = [worker EXCEPT ![l] = fresh]
  BY <1>0 DEF StartLogin
<1>3. session' \in [Logins -> Sessions] /\ worker' \in [Logins -> Workers]
  BY <1>0, <1>1, <1>2
<1>4. LoginTypes'
  BY <1>3 DEF LoginsInv, LoginTypes, StartLogin
<1>5. \A k \in Logins \ {l} : Untouched(k)
  BY <1>2 DEF LoginsInv, LoginTypes, Untouched, StartLogin
<1>6. session'[l].state = "starting" /\ worker'[l].pc = "prepare"
  BY <1>0, <1>2 DEF Sessions, NoWorker
<1>7. LoginInv(l)'
  BY <1>6 DEF LoginsInv, StartLogin, LoginInv, WorkerHasHome,
         TreeHasHome, AccountHasSession, Working, Recorded, Over, IsActive
<1> QED
  BY <1>4, <1>5, <1>7 DEF StepOf, StartLogin

LEMMA ShowBrowserStep ==
  ASSUME LoginsInv, NEW l \in Logins, ShowBrowser(l)
  PROVE  StepOf(l) /\ LoginInv(l)'
<1>1. session' = [session EXCEPT ![l] = [session[l] EXCEPT !.state = "browser"]]
  BY DEF LoginsInv, LoginTypes, ShowBrowser
<1>2. [session[l] EXCEPT !.state = "browser"] \in Sessions
  BY DEF LoginsInv, LoginTypes, Sessions, States
<1>3. LoginTypes'
  BY <1>1, <1>2, SessionMoves DEF LoginsInv, LoginTypes, ShowBrowser
<1>4. \A k \in Logins \ {l} : Untouched(k)
  BY <1>1 DEF LoginsInv, LoginTypes, Untouched, ShowBrowser
<1>5. session'[l].state = "browser"
  BY <1>1 DEF LoginsInv, LoginTypes, Sessions
<1>6. LoginInv(l)'
  BY <1>5 DEF LoginsInv, ShowBrowser, WorkerAt, LoginInv, WorkerHasHome,
         TreeHasHome, AccountHasSession, Working, Recorded, Over, IsActive
<1> QED
  BY <1>3, <1>4, <1>6 DEF StepOf, ShowBrowser

\* A code that waits in the inbox or leaves it changes nothing that matters here.
LEMMA CodeStep ==
  ASSUME LoginsInv, NEW l \in Logins, PasteCode(l) \/ ForwardCode(l)
  PROVE  StepOf(l) /\ LoginInv(l)'
<1>1. PICK n \in 0 .. MaxCodes :
        session' = [session EXCEPT ![l] = [session[l] EXCEPT !.inbox = n]]
  <2>1. session[l] \in Sessions /\ session \in [Logins -> Sessions]
    BY DEF LoginsInv, LoginTypes
  <2>2. CASE PasteCode(l)
    <3>1. session[l].inbox + 1 \in 0 .. MaxCodes
      BY <2>1, <2>2, LoginAssumption DEF PasteCode, Sessions
    <3>2. session' = [session EXCEPT ![l] = [session[l] EXCEPT !.inbox = session[l].inbox + 1]]
      BY <2>1, <2>2 DEF PasteCode
    <3> QED
      BY <3>1, <3>2
  <2>3. CASE ForwardCode(l)
    <3>1. session[l].inbox - 1 \in 0 .. MaxCodes
      BY <2>1, <2>3, LoginAssumption DEF ForwardCode, Sessions
    <3>2. session' = [session EXCEPT ![l] = [session[l] EXCEPT !.inbox = session[l].inbox - 1]]
      BY <2>1, <2>3 DEF ForwardCode
    <3> QED
      BY <3>1, <3>2
  <2> QED
    BY <2>2, <2>3
<1>2. [session[l] EXCEPT !.inbox = n] \in Sessions
  BY DEF LoginsInv, LoginTypes, Sessions
<1>3. LoginTypes'
  BY <1>1, <1>2, SessionMoves DEF LoginsInv, LoginTypes, PasteCode, ForwardCode
<1>4. \A k \in Logins \ {l} : Untouched(k)
  BY <1>1 DEF LoginsInv, LoginTypes, Untouched, PasteCode, ForwardCode
<1>5. session'[l].state = session[l].state /\ session'[l].account = session[l].account
  BY <1>1 DEF LoginsInv, LoginTypes, Sessions
<1>6. LoginInv(l)'
  BY <1>5 DEF LoginsInv, PasteCode, ForwardCode, LoginInv, WorkerHasHome,
         TreeHasHome, AccountHasSession, Working, Recorded, Over, IsActive
<1> QED
  BY <1>3, <1>4, <1>6 DEF StepOf, PasteCode, ForwardCode

LEMMA CleanHomeStep ==
  ASSUME LoginsInv, NEW l \in Logins, CleanHome(l)
  PROVE  StepOf(l) /\ LoginInv(l)'
<1> DEFINE End(cleaned) == IF cleaned /\ worker[l].outcome = "account" THEN "completed"
                           ELSE IF cleaned /\ worker[l].outcome = "cancelled" THEN "cancelled"
                           ELSE "failed"
<1>0. /\ session[l] \in Sessions /\ session \in [Logins -> Sessions]
      /\ worker[l] \in Workers /\ worker \in [Logins -> Workers]
      /\ home[l] \in Homes /\ home \in [Logins -> Homes]
      /\ worker[l].pc = "clean" /\ daemon \in {"up", "stopping"}
  BY DEF LoginsInv, LoginTypes, CleanHome, WorkerAt
<1>1. PICK cleaned \in BOOLEAN, account \in BOOLEAN :
        /\ account <=> worker[l].outcome = "account"
        /\ session' = [session EXCEPT ![l] =
                         [session[l] EXCEPT !.state = End(cleaned), !.account = account]]
        /\ cleaned => worker[l].allowed /\ home' = [home EXCEPT ![l] = NoHome]
        /\ ~cleaned => UNCHANGED home
  <2> DEFINE account == worker[l].outcome = "account"
             Reports(cleaned) == session' = [session EXCEPT ![l].state = End(cleaned),
                                                            ![l].account = account]
  <2>1. ASSUME NEW cleaned \in BOOLEAN, Reports(cleaned)
        PROVE  session' = [session EXCEPT ![l] =
                             [session[l] EXCEPT !.state = End(cleaned), !.account = account]]
    BY <1>0, <2>1
  <2>2. CASE /\ worker[l].allowed /\ home' = [home EXCEPT ![l] = NoHome] /\ Reports(TRUE)
    BY <2>1, <2>2
  <2>3. CASE UNCHANGED home /\ Reports(FALSE)
    BY <2>1, <2>3
  <2> QED
    BY <2>2, <2>3 DEF CleanHome
<1>2. [session[l] EXCEPT !.state = End(cleaned), !.account = account] \in Sessions
  BY <1>0 DEF Sessions, States
<1>3. worker' \in [Logins -> Workers] /\ worker'[l].pc = "none"
  BY <1>0, WorkerMoves DEF CleanHome, LoginsInv, LoginTypes, Places, WorkerGoto, Outcomes, Workers
<1>4. home' \in [Logins -> Homes] /\ faults' \in 0 .. LoginFaults
  <2>1. NoHome \in Homes
    BY DEF NoHome, NoMarker, Homes, Markers
  <2>2. faults' \in 0 .. LoginFaults
    BY LoginAssumption DEF CleanHome, LoginsInv, LoginTypes, Fault
  <2> QED
    BY <1>0, <1>1, <2>1, <2>2
<1>5. LoginTypes'
  BY <1>1, <1>2, <1>3, <1>4, SessionMoves DEF LoginsInv, LoginTypes, CleanHome
<1>6. \A k \in Logins \ {l} : Untouched(k)
  BY <1>0, <1>1 DEF LoginsInv, LoginTypes, Untouched, CleanHome, WorkerGoto
<1>7. session'[l].state = End(cleaned) /\ session'[l].account = account
  BY <1>0, <1>1 DEF Sessions
<1>8. tree'[l] = "alive" => home'[l].exists /\ Recorded(l)'
  BY <1>0, <1>1 DEF LoginsInv, LoginInv, TreeHasHome, Working, Recorded, CleanHome
<1>9. WorkerHasHome(l)' /\ TreeHasHome(l)'
  BY <1>0, <1>1, <1>3, <1>7, <1>8 DEF LoginsInv, CleanHome, LoginInv, WorkerHasHome,
         TreeHasHome, Working, Recorded, IsActive
<1>10. AccountHasSession(l)'
  <2>1. worker'[l].outcome = worker[l].outcome
    BY <1>0 DEF CleanHome, WorkerGoto, Workers
  <2>2. saved' = saved /\ caller' = caller
    BY DEF CleanHome
  <2>3. l \in saved => worker[l].outcome \in {"account", "unread"}
    BY <1>0 DEF LoginsInv, LoginInv, AccountHasSession, Working
  <2>4. caller[l] # "cancelled"
    BY <1>0 DEF LoginsInv, LoginInv, AccountHasSession, WorkerHasHome, Working, IsActive
  <2>5. l \in saved => End(cleaned) \notin {"none", "cancelled"}
    BY <2>3
  <2>6. l \in saved => account \/ (End(cleaned) = "failed" /\ worker[l].outcome = "unread")
    BY <1>1, <2>3
  <2> QED
    BY <1>3, <1>7, <2>1, <2>2, <2>4, <2>5, <2>6 DEF AccountHasSession, Working, Over
<1> QED
  BY <1>5, <1>6, <1>9, <1>10 DEF StepOf, LoginInv, CleanHome

LEMMA WorkStep ==
  ASSUME LoginsInv, NEW l \in Logins, Work(l)
  PROVE  StepOf(l) /\ LoginInv(l)'
<1>1. CASE RecordChild(l)
  BY <1>1, RecordPidStep, RecordStartStep DEF RecordChild
<1>2. CASE SpawnProbe(l) \/ SpawnLogin(l)
  BY <1>2, SpawnStep DEF SpawnProbe, SpawnLogin
<1>3. CASE \/ Prepare(l) \/ Probe(l) \/ ProbeEnds(l) \/ Probed(l) \/ LoginEnds(l)
           \/ StopTree(l) \/ CaptureLogin(l) \/ SaveLogin(l) \/ CleanHome(l)
  BY <1>3, PrepareStep, ProbeStep, ProbeEndsStep, ProbedStep, LoginEndsStep, StopTreeStep,
     CaptureLoginStep, SaveLoginStep, CleanHomeStep
<1>4. CASE ShowBrowser(l) \/ ForwardCode(l)
  BY <1>4, ShowBrowserStep, CodeStep
<1> QED
  BY <1>1, <1>2, <1>3, <1>4 DEF Work

LEMMA AskCancelStep ==
  ASSUME LoginsInv, NEW l \in Logins, AskCancel(l)
  PROVE  StepOf(l) /\ LoginInv(l)'
<1>0. session[l] \in Sessions /\ session \in [Logins -> Sessions] /\ caller \in [Logins -> Callers]
  BY DEF LoginsInv, LoginTypes
<1>1. CASE IsActive(l)
  <2>1. session' = [session EXCEPT ![l] = [session[l] EXCEPT !.cancel = TRUE]]
    BY <1>0, <1>1 DEF AskCancel
  <2>2. [session[l] EXCEPT !.cancel = TRUE] \in Sessions
    BY <1>0 DEF Sessions
  <2>3. caller' = [caller EXCEPT ![l] = "waiting"]
    BY <1>1 DEF AskCancel
  <2>4. LoginTypes'
    BY <2>1, <2>2, <2>3, SessionMoves DEF LoginsInv, LoginTypes, AskCancel, Callers
  <2>5. \A k \in Logins \ {l} : Untouched(k)
    BY <1>0, <2>1, <2>3 DEF LoginsInv, LoginTypes, Untouched, AskCancel
  <2>6. session'[l].state = session[l].state /\ caller'[l] = "waiting"
    BY <1>0, <2>1, <2>3 DEF Sessions
  <2>7. LoginInv(l)'
    BY <1>1, <2>6 DEF LoginsInv, AskCancel, LoginInv, WorkerHasHome,
         TreeHasHome, AccountHasSession, Working, Recorded, Over, IsActive
  <2> QED
    BY <2>4, <2>5, <2>7 DEF StepOf, AskCancel
<1>2. CASE ~IsActive(l)
  <2>1. caller' = [caller EXCEPT ![l] = session[l].state] /\ session' = session
    BY <1>2 DEF AskCancel
  <2>2. session[l].state \in Callers
    BY <1>0 DEF Sessions, Callers
  <2>3. LoginTypes'
    BY <1>0, <2>1, <2>2 DEF LoginsInv, LoginTypes, AskCancel
  <2>4. \A k \in Logins \ {l} : Untouched(k)
    BY <1>0, <2>1 DEF LoginsInv, LoginTypes, Untouched, AskCancel
  <2>5. LoginInv(l)'
    BY <1>0, <1>2, <2>1 DEF LoginsInv, AskCancel, LoginInv, WorkerHasHome,
         TreeHasHome, AccountHasSession, Working, Recorded, Over, IsActive
  <2> QED
    BY <2>3, <2>4, <2>5 DEF StepOf, AskCancel
<1> QED
  BY <1>1, <1>2

LEMMA CancelAnsweredStep ==
  ASSUME LoginsInv, NEW l \in Logins, CancelAnswered(l)
  PROVE  StepOf(l) /\ LoginInv(l)'
<1>1. PICK answer \in Callers :
        /\ caller' = [caller EXCEPT ![l] = answer]
        /\ answer = session[l].state \/ answer = "busy"
  BY DEF CancelAnswered, LoginsInv, LoginTypes, Sessions, Callers
<1>2. LoginTypes'
  BY <1>1, LoginAssumption DEF LoginsInv, LoginTypes, CancelAnswered, Fault
<1>3. \A k \in Logins \ {l} : Untouched(k)
  BY <1>1 DEF LoginsInv, LoginTypes, Untouched, CancelAnswered
<1>4. LoginInv(l)'
  BY <1>1 DEF LoginsInv, LoginTypes, CancelAnswered, LoginInv, WorkerHasHome,
         TreeHasHome, AccountHasSession, Working, Recorded, Over, IsActive
<1> QED
  BY <1>2, <1>3, <1>4 DEF StepOf, CancelAnswered

LEMMA TreeExitsStep ==
  ASSUME LoginsInv, NEW l \in Logins, TreeExits(l)
  PROVE  StepOf(l) /\ LoginInv(l)'
<1>1. LoginTypes'
  BY DEF LoginsInv, LoginTypes, TreeExits, Trees
<1>2. \A k \in Logins \ {l} : Untouched(k)
  BY DEF LoginsInv, LoginTypes, Untouched, TreeExits
<1>3. LoginInv(l)'
  BY DEF LoginsInv, LoginTypes, TreeExits, LoginInv, WorkerHasHome,
         TreeHasHome, AccountHasSession, Working, Recorded, Over, IsActive
<1> QED
  BY <1>1, <1>2, <1>3 DEF StepOf, TreeExits

-----------------------------------------------------------------------------
(* The steps of the daemon, which concern every login *)

LEMMA BeginShutdownStep == LoginsInv /\ BeginShutdown => LoginsInv'
<1> SUFFICES ASSUME LoginsInv, BeginShutdown PROVE LoginsInv'
  OBVIOUS
<1>1. ASSUME NEW l \in Logins
      PROVE  /\ session'[l] \in Sessions /\ session'[l].state = session[l].state
             /\ session'[l].account = session[l].account
  BY <1>1 DEF BeginShutdown, LoginsInv, LoginTypes, Sessions
<1>2. LoginTypes'
  <2>1. session' = [l \in Logins |-> session'[l]]
    BY DEF BeginShutdown
  <2>2. session' \in [Logins -> Sessions]
    BY <1>1, <2>1
  <2> QED
    BY <2>2 DEF BeginShutdown, LoginsInv, LoginTypes, Daemons
<1>3. ASSUME NEW l \in Logins PROVE LoginInv(l)'
  BY <1>1, <1>3 DEF BeginShutdown, LoginsInv, LoginInv, WorkerHasHome,
         TreeHasHome, AccountHasSession, Working, Recorded, Over, IsActive
<1> QED
  BY <1>2, <1>3 DEF LoginsInv

LEMMA ProcessEndsStep ==
  ASSUME LoginsInv, ProcessEnds, UNCHANGED tree, faults' \in 0 .. LoginFaults
  PROVE  LoginsInv'
<1>1. ASSUME NEW l \in Logins
      PROVE  /\ session'[l] \in Sessions /\ session'[l].state \in {"none", "forgotten"}
             /\ session'[l].state = "none" <=> session[l].state = "none"
  <2>1. Unused \in Sessions /\ Unused.state = "none"
    BY LoginAssumption DEF Unused, Sessions, States
  <2>2. /\ [Unused EXCEPT !.state = "forgotten"] \in Sessions
        /\ [Unused EXCEPT !.state = "forgotten"].state = "forgotten"
    BY <2>1 DEF Sessions, States
  <2>3. session'[l] = IF session[l].state = "none" THEN Unused
                      ELSE [Unused EXCEPT !.state = "forgotten"]
    BY DEF ProcessEnds
  <2> QED
    BY <2>1, <2>2, <2>3
<1>2. LoginTypes'
  <2>1. session' = [l \in Logins |-> session'[l]]
    BY DEF ProcessEnds
  <2>2. session' \in [Logins -> Sessions]
    BY <1>1, <2>1
  <2>3. NoWorker \in Workers
    BY DEF NoWorker, Workers, Places
  <2> QED
    BY <2>2, <2>3 DEF ProcessEnds, LoginsInv, LoginTypes, Daemons, Callers
<1>3. ASSUME NEW l \in Logins PROVE LoginInv(l)'
  <2>1. worker'[l].pc = "none" /\ caller'[l] = "idle"
    BY DEF ProcessEnds, NoWorker
  <2> QED
    BY <1>1, <2>1 DEF ProcessEnds, LoginsInv, LoginInv, WorkerHasHome,
         TreeHasHome, AccountHasSession, Working, Recorded, Over, IsActive
<1> QED
  BY <1>2, <1>3 DEF LoginsInv

\* The next start kills what the markers name before it removes a home.
LEMMA StartDaemonStep == LoginsInv /\ StartDaemon => LoginsInv'
<1> SUFFICES ASSUME LoginsInv, StartDaemon PROVE LoginsInv'
  OBVIOUS
<1>1. PICK first \in SUBSET {l \in Logins : home[l].exists /\ Stoppable(l)} :
        /\ home' = [l \in Logins |-> IF l \in first THEN NoHome ELSE home[l]]
        /\ tree' = [l \in Logins |-> IF l \in first /\ tree[l] = "alive" THEN "dead"
                                     ELSE tree[l]]
  BY DEF StartDaemon
<1>2. LoginTypes'
  <2>1. NoHome \in Homes
    BY DEF NoHome, NoMarker, Homes, Markers
  <2> QED
    BY <1>1, <2>1 DEF StartDaemon, LoginsInv, LoginTypes, Daemons, Trees
<1>3. ASSUME NEW l \in Logins PROVE LoginInv(l)'
  <2>1. ~Working(l) /\ ~Working(l)'
    BY DEF StartDaemon, LoginsInv, LoginInv, WorkerHasHome, Working
  <2>2. tree'[l] = "alive" => tree[l] = "alive" /\ home'[l] = home[l]
    BY <1>1 DEF LoginsInv, LoginTypes
  <2> QED
    BY <2>1, <2>2 DEF StartDaemon, LoginsInv, LoginInv, WorkerHasHome,
         TreeHasHome, AccountHasSession, Working, Recorded, Over, IsActive
<1> QED
  BY <1>2, <1>3 DEF LoginsInv

LEMMA StartAgainStep == LoginsInv /\ StartAgain => LoginsInv'
<1> SUFFICES ASSUME LoginsInv, StartAgain PROVE LoginsInv'
  OBVIOUS
<1>1. LoginTypes'
  BY DEF StartAgain, LoginsInv, LoginTypes, Daemons
<1>2. ASSUME NEW l \in Logins PROVE LoginInv(l)'
  BY DEF StartAgain, LoginsInv, LoginInv, WorkerHasHome,
         TreeHasHome, AccountHasSession, Working, Recorded, Over, IsActive
<1> QED
  BY <1>1, <1>2 DEF LoginsInv

LEMMA LoginStep == LoginsInv /\ [LoginNext]_loginVars => LoginsInv'
<1> SUFFICES ASSUME LoginsInv, [LoginNext]_loginVars PROVE LoginsInv'
  OBVIOUS
<1>1. ASSUME NEW l \in Logins, StepOf(l), LoginInv(l)' PROVE LoginsInv'
  <2>1. ASSUME NEW k \in Logins \ {l} PROVE LoginInv(k)'
    BY <1>1, UntouchedKeeps DEF LoginsInv, StepOf
  <2> QED
    BY <1>1, <2>1 DEF LoginsInv, StepOf
<1>2. ASSUME NEW l \in Logins,
             \/ StartLogin(l) \/ Work(l) \/ PasteCode(l) \/ AskCancel(l)
             \/ CancelAnswered(l) \/ TreeExits(l)
      PROVE  LoginsInv'
  BY <1>1, <1>2, StartLoginStep, WorkStep, CodeStep, AskCancelStep, CancelAnsweredStep,
     TreeExitsStep
<1>3. CASE EndShutdown \/ DaemonDies
  BY <1>3, LoginAssumption, ProcessEndsStep
     DEF EndShutdown, DaemonDies, Fault, LoginsInv, LoginTypes
<1>4. CASE UNCHANGED loginVars
  <2>1. LoginTypes'
    BY <1>4 DEF loginVars, LoginsInv, LoginTypes
  <2>2. ASSUME NEW l \in Logins PROVE LoginInv(l)'
    BY <1>4, UntouchedKeeps DEF loginVars, LoginsInv, Untouched
  <2> QED
    BY <2>1, <2>2 DEF LoginsInv
<1> QED
  BY <1>2, <1>3, <1>4, BeginShutdownStep, StartDaemonStep, StartAgainStep DEF LoginNext

-----------------------------------------------------------------------------
(* The theorems *)

\* An official login leaves no process, home or account behind that nobody knows of:
\* the home with its credentials outlives the processes that write there, a process
\* that outlives its daemon is named by a marker, what was reported as cancelled
\* saved nothing, and a saved account is reported (run_official_login, login_child,
\* cleanup_official_logins).
THEOREM LoginsStayClean == LoginsSpec => []LoginsAreClean
<1>1. LoginsInv => LoginsAreClean
  <2> SUFFICES ASSUME LoginsInv PROVE LoginsAreClean
    OBVIOUS
  <2>1. LoginTypeOK
    BY DEF LoginsInv, LoginTypes, LoginTypeOK, Sessions, Workers, Daemons
  <2>2. HomeOutlivesTree /\ TreeIsRecorded
    BY DEF LoginsInv, LoginInv, TreeHasHome, Recorded, HomeOutlivesTree, TreeIsRecorded
  <2>3. CancelledIsNotSaved /\ SavedIsReported
    BY DEF LoginsInv, LoginInv, AccountHasSession, CancelledIsNotSaved, SavedIsReported
  <2> QED
    BY <2>1, <2>2, <2>3 DEF LoginsAreClean
<1> QED
  BY <1>1, InitKeeps, LoginStep, PTL DEF LoginsSpec
=============================================================================
