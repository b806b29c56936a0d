---------------------------- MODULE OfficialLogin ----------------------------
(***************************************************************************)
(* Isolated official-client logins (app/official_login.rs, its transport   *)
(* and process_identity): a worker prepares a marked home, probes the      *)
(* client, runs its login, stops the process tree, captures the account    *)
(* and removes the home, while the user asks, pastes a code and cancels.   *)
(* The daemon may die at any step; the next start stops what the markers   *)
(* name and removes their homes.                                           *)
(***************************************************************************)
EXTENDS Naturals, FiniteSets

CONSTANTS
  Logins,     \* logins of one client
  ClaudeLogin,   \* it is Claude Code: two probes, pasted codes
  MaxCodes,   \* room of the input channel
  LoginFaults \* faults that may happen: failed spawn, record, stop, clean, read, timeout

ASSUME LoginAssumption ==
  ClaudeLogin \in BOOLEAN /\ MaxCodes \in Nat /\ LoginFaults \in Nat

VARIABLES
  session,   \* LoginSession in memory: state, saved account, cancel, inbox
  worker,    \* run_official_login of each session
  home,      \* the isolated home and the marker in it
  tree,      \* the process group started for a login
  caller,    \* a cancel_official_login call
  daemon,    \* up, stopping, down, or unable to start
  saved,     \* logins whose account is in the vault
  faults     \* faults so far

loginVars == <<session, worker, home, tree, caller, daemon, saved, faults>>

NoMarker == [pending |-> FALSE, pid |-> FALSE, start |-> FALSE, terminated |-> FALSE]
NoHome == [exists |-> FALSE, marker |-> NoMarker]
Unused == [state |-> "none", cancel |-> FALSE, account |-> FALSE, inbox |-> 0]
NoWorker == [pc |-> "none", seen |-> FALSE, probes |-> 0, allowed |-> TRUE,
             outcome |-> "none"]

LoginInit ==
  /\ session = [l \in Logins |-> Unused] /\ worker = [l \in Logins |-> NoWorker]
  /\ home = [l \in Logins |-> NoHome] /\ tree = [l \in Logins |-> "none"]
  /\ caller = [l \in Logins |-> "idle"] /\ daemon = "up"
  /\ saved = {} /\ faults = 0

IsActive(l) == session[l].state \in {"starting", "browser"}
Over(l) == session[l].state \in {"completed", "cancelled", "failed"}
WorkerAt(l, pc) == worker[l].pc = pc /\ daemon \in {"up", "stopping"}
WorkerGoto(l, pc) == worker' = [worker EXCEPT ![l].pc = pc]
Fault == faults < LoginFaults /\ faults' = faults + 1
Ends(l, outcome, pc) == worker' = [worker EXCEPT ![l].outcome = outcome, ![l].pc = pc]
WriteMarker(l, marker) == home' = [home EXCEPT ![l].marker = marker]

\* start_official_login: one active login of a client.
StartLogin(l) ==
  /\ daemon = "up" /\ session[l].state = "none" /\ ~home[l].exists
  /\ \A k \in Logins : ~IsActive(k)
  /\ session' = [session EXCEPT ![l].state = "starting"]
  /\ worker' = [worker EXCEPT ![l] = [NoWorker EXCEPT !.pc = "prepare",
                                         !.probes = IF ClaudeLogin THEN 2 ELSE 1]]
  /\ UNCHANGED <<home, tree, caller, daemon, saved, faults>>

\* prepare_login_home and the login policy copied into it.
Prepare(l) ==
  /\ WorkerAt(l, "prepare")
  /\ home' = [home EXCEPT ![l] = [exists |-> TRUE, marker |-> NoMarker]]
  /\ \/ /\ session[l].cancel /\ Ends(l, "cancelled", "clean") /\ UNCHANGED faults
     \/ /\ ~session[l].cancel /\ WorkerGoto(l, "probe") /\ UNCHANGED faults
     \/ /\ Fault /\ Ends(l, "error", "clean")
  /\ UNCHANGED <<session, tree, caller, daemon, saved>>

\* capability_output, once or twice: looks at the cancellation and records that
\* a process is about to be spawned.
Probe(l) ==
  /\ WorkerAt(l, "probe")
  /\ IF session[l].cancel
       THEN Ends(l, "error", "probed") /\ UNCHANGED home
       ELSE WriteMarker(l, [NoMarker EXCEPT !.pending = TRUE]) /\ WorkerGoto(l, "spawnprobe")
  /\ UNCHANGED <<session, tree, caller, daemon, saved, faults>>

\* A failed launch needs no cleanup, so cleanup_allowed keeps its value.
Spawn(l, from, to, failed) ==
  /\ WorkerAt(l, from)
  /\ \/ /\ tree' = [tree EXCEPT ![l] = "alive"]
        /\ worker' = [worker EXCEPT ![l].allowed = FALSE, ![l].pc = to]
        /\ UNCHANGED faults
     \/ /\ Fault /\ Ends(l, "error", failed) /\ UNCHANGED tree
  /\ UNCHANGED <<session, home, caller, daemon, saved>>

SpawnProbe(l) == Spawn(l, "spawnprobe", "recordprobe", "probed")
SpawnLogin(l) == Spawn(l, "spawnlogin", "recordlogin", "clean")

\* record_child_marker with a pid: first the pid, then, once the creation time
\* was read, that the spawn is no longer pending.
RecordPid(l, from, to) ==
  /\ WorkerAt(l, from)
  /\ \/ /\ WriteMarker(l, [NoMarker EXCEPT !.pending = TRUE, !.pid = TRUE])
        /\ WorkerGoto(l, to) /\ UNCHANGED faults
     \/ Fault /\ Ends(l, "error", "stop") /\ UNCHANGED home
  /\ UNCHANGED <<session, tree, caller, daemon, saved>>

RecordStart(l, from, to) ==
  /\ WorkerAt(l, from)
  /\ \/ /\ tree[l] = "alive"
        /\ WriteMarker(l, [NoMarker EXCEPT !.pid = TRUE, !.start = TRUE])
        /\ WorkerGoto(l, to) /\ UNCHANGED faults
     \/ tree[l] = "dead" /\ from = "startprobe" /\ WorkerGoto(l, to) /\ UNCHANGED <<home, faults>>
     \/ tree[l] = "dead" /\ from = "startlogin" /\ Ends(l, "error", "stop")
          /\ UNCHANGED <<home, faults>>
  /\ UNCHANGED <<session, tree, caller, daemon, saved>>

RecordChild(l) ==
  \/ RecordPid(l, "recordprobe", "startprobe") \/ RecordStart(l, "startprobe", "run")
  \/ RecordPid(l, "recordlogin", "startlogin") \/ RecordStart(l, "startlogin", "login")

\* The select between the probe's output and the cancellation, which is seen once.
ProbeEnds(l) ==
  /\ WorkerAt(l, "run")
  /\ \/ /\ tree[l] = "dead" /\ WorkerGoto(l, "stop") /\ UNCHANGED faults
     \/ /\ session[l].cancel /\ ~worker[l].seen
        /\ worker' = [worker EXCEPT ![l].seen = TRUE, ![l].outcome = "error",
                                    ![l].pc = "stop"]
        /\ UNCHANGED faults
     \/ /\ Fault /\ Ends(l, "error", "stop")
  /\ UNCHANGED <<session, home, tree, caller, daemon, saved>>

\* login_child after the probes: the cancellation before the probe's error.
Probed(l) ==
  /\ WorkerAt(l, "probed")
  /\ IF session[l].cancel THEN Ends(l, "cancelled", "clean") /\ UNCHANGED home
     ELSE IF worker[l].outcome = "error" THEN WorkerGoto(l, "clean") /\ UNCHANGED home
     ELSE WriteMarker(l, [NoMarker EXCEPT !.pending = TRUE]) /\ WorkerGoto(l, "spawnlogin")
  /\ UNCHANGED <<session, tree, caller, daemon, saved, faults>>

\* codex_login and claude_login: the client asks for the browser, then reports.
ShowBrowser(l) ==
  /\ WorkerAt(l, "login") /\ tree[l] = "alive" /\ session[l].state = "starting"
  /\ session' = [session EXCEPT ![l].state = "browser"]
  /\ UNCHANGED <<worker, home, tree, caller, daemon, saved, faults>>

PasteCode(l) ==
  /\ daemon = "up" /\ ClaudeLogin /\ session[l].state = "browser"
  /\ session[l].inbox < MaxCodes /\ worker[l].pc = "login"
  /\ session' = [session EXCEPT ![l].inbox = @ + 1]
  /\ UNCHANGED <<worker, home, tree, caller, daemon, saved, faults>>

ForwardCode(l) ==
  /\ WorkerAt(l, "login") /\ session[l].inbox > 0
  /\ session' = [session EXCEPT ![l].inbox = @ - 1]
  /\ UNCHANGED <<worker, home, tree, caller, daemon, saved, faults>>

\* Mutant: a cancellation does not wake the worker that waits for the login.
LoginEnds_Uncancelled(l) ==
  /\ WorkerAt(l, "login")
  /\ \/ /\ session[l].state = "browser" /\ (ClaudeLogin => tree[l] = "dead")
        /\ Ends(l, "account", "stop")
     \/ tree[l] = "dead" /\ Ends(l, "error", "stop")
  /\ UNCHANGED <<session, home, tree, caller, daemon, saved, faults>>

LoginEnds(l) ==
  /\ WorkerAt(l, "login")
  /\ \/ /\ session[l].state = "browser" /\ (ClaudeLogin => tree[l] = "dead")
        /\ Ends(l, "account", "stop") /\ UNCHANGED faults
     \/ /\ tree[l] = "dead" /\ Ends(l, "error", "stop") /\ UNCHANGED faults
     \/ /\ session[l].cancel /\ ~worker[l].seen
        /\ worker' = [worker EXCEPT ![l].seen = TRUE, ![l].outcome = "cancelled",
                                    ![l].pc = "stop"]
        /\ UNCHANGED faults
     \/ /\ Fault /\ Ends(l, "error", "stop")
  /\ UNCHANGED <<session, home, tree, caller, daemon, saved>>

\* terminate_login_child: kill the group, see it gone, say so in the marker.
StopTree(l) ==
  LET probing == worker[l].probes > 0
      more == worker[l].probes > 1 /\ worker[l].outcome = "none"
  IN /\ WorkerAt(l, "stop")
     /\ \/ /\ tree' = [tree EXCEPT ![l] = "dead"]
           /\ WriteMarker(l, [home[l].marker EXCEPT !.terminated = TRUE, !.pending = FALSE])
           /\ worker' = [worker EXCEPT ![l].allowed = TRUE,
                ![l].probes = IF probing THEN @ - 1 ELSE 0,
                ![l].pc = IF probing THEN IF more THEN "probe" ELSE "probed"
                          ELSE IF worker[l].outcome = "account" THEN "capture"
                          ELSE "clean"]
           /\ UNCHANGED faults
        \/ /\ Fault /\ UNCHANGED <<tree, home>>
           /\ Ends(l, "error", IF probing THEN "probed" ELSE "clean")
     /\ UNCHANGED <<session, caller, daemon, saved>>

\* The last look at the cancellation, then the account is saved.
CaptureLogin(l) ==
  /\ WorkerAt(l, "capture")
  /\ IF session[l].cancel THEN Ends(l, "cancelled", "clean") /\ UNCHANGED faults
     ELSE \/ WorkerGoto(l, "save") /\ UNCHANGED faults
          \/ Fault /\ Ends(l, "error", "clean")
  /\ UNCHANGED <<session, home, tree, caller, daemon, saved>>

\* The account is committed, then the provider is read again for the status.
SaveLogin(l) ==
  /\ WorkerAt(l, "save")
  /\ saved' = saved \cup {l}
  /\ \/ WorkerGoto(l, "clean") /\ UNCHANGED faults
     \/ Fault /\ Ends(l, "unread", "clean")
  /\ UNCHANGED <<session, home, tree, caller, daemon>>

\* Mutant: the home is removed whether or not its processes are known to be gone.
CleanHome_Always(l) ==
  /\ WorkerAt(l, "clean") /\ home' = [home EXCEPT ![l] = NoHome] /\ WorkerGoto(l, "none")
  /\ session' = [session EXCEPT ![l].state = "failed", ![l].account = worker[l].outcome = "account"]
  /\ UNCHANGED <<tree, caller, daemon, saved, faults>>

\* clean_home, only when the process tree is known to be gone; then the status.
CleanHome(l) ==
  LET outcome == worker[l].outcome
      End(cleaned) == IF cleaned /\ outcome = "account" THEN "completed"
                      ELSE IF cleaned /\ outcome = "cancelled" THEN "cancelled"
                      ELSE "failed"
      Finished(cleaned) ==
        session' = [session EXCEPT ![l].state = End(cleaned),
                                   ![l].account = outcome = "account"]
  IN /\ WorkerAt(l, "clean")
     /\ \/ /\ worker[l].allowed /\ home' = [home EXCEPT ![l] = NoHome]
           /\ Finished(TRUE) /\ UNCHANGED faults
        \/ /\ ~worker[l].allowed /\ Finished(FALSE) /\ UNCHANGED <<home, faults>>
        \/ /\ worker[l].allowed /\ Fault /\ Finished(FALSE) /\ UNCHANGED home
     /\ WorkerGoto(l, "none")
     /\ UNCHANGED <<tree, caller, daemon, saved>>

Work(l) ==
  \/ Prepare(l) \/ Probe(l) \/ SpawnProbe(l) \/ RecordChild(l) \/ ProbeEnds(l)
  \/ Probed(l) \/ SpawnLogin(l) \/ ShowBrowser(l) \/ ForwardCode(l)
  \/ LoginEnds(l) \/ StopTree(l) \/ CaptureLogin(l) \/ SaveLogin(l) \/ CleanHome(l)

-----------------------------------------------------------------------------
(* cancel_official_login waits up to twenty seconds for the worker. *)

AskCancel(l) ==
  /\ daemon = "up" /\ caller[l] = "idle" /\ session[l].state # "none"
  /\ IF IsActive(l)
       THEN /\ session' = [session EXCEPT ![l].cancel = TRUE]
            /\ caller' = [caller EXCEPT ![l] = "waiting"]
       ELSE caller' = [caller EXCEPT ![l] = session[l].state] /\ UNCHANGED session
  /\ UNCHANGED <<worker, home, tree, daemon, saved, faults>>

CancelAnswered(l) ==
  /\ daemon # "down" /\ caller[l] = "waiting"
  /\ \/ Over(l) /\ caller' = [caller EXCEPT ![l] = session[l].state] /\ UNCHANGED faults
     \/ Fault /\ caller' = [caller EXCEPT ![l] = "busy"]
  /\ UNCHANGED <<session, worker, home, tree, daemon, saved>>

\* cancel_all_official_logins at shutdown: every active session, then each in turn.
BeginShutdown ==
  /\ daemon = "up" /\ daemon' = "stopping"
  /\ session' = [l \in Logins |-> IF IsActive(l) THEN [session[l] EXCEPT !.cancel = TRUE]
                                  ELSE session[l]]
  /\ UNCHANGED <<worker, home, tree, caller, saved, faults>>

ProcessEnds ==
  /\ session' = [l \in Logins |-> IF session[l].state = "none" THEN Unused
                                  ELSE [Unused EXCEPT !.state = "forgotten"]]
  /\ worker' = [l \in Logins |-> NoWorker]
  /\ caller' = [l \in Logins |-> "idle"] /\ daemon' = "down"
  /\ UNCHANGED <<home, saved>>

\* Dropped at the end of the process, kill_on_drop takes the direct child along.
EndShutdown ==
  /\ daemon = "stopping"
  /\ \/ UNCHANGED faults /\ \A l \in Logins : ~IsActive(l)
     \/ Fault
  /\ ProcessEnds /\ UNCHANGED tree

DaemonDies ==
  /\ daemon \in {"up", "stopping"} /\ Fault /\ ProcessEnds /\ UNCHANGED tree

\* stop_marked_child as cleanup_official_logins runs it at startup.
Stoppable(l) ==
  LET m == home[l].marker IN
  \/ m.terminated
  \/ ~m.pid /\ ~m.pending
  \/ m.pid /\ m.start

StartDaemon ==
  /\ daemon = "down"
  /\ daemon' = IF \A l \in Logins : home[l].exists => Stoppable(l) THEN "up" ELSE "refused"
  /\ \E first \in SUBSET {l \in Logins : home[l].exists /\ Stoppable(l)} :
       /\ daemon' = "up" => first = {l \in Logins : home[l].exists}
       /\ home' = [l \in Logins |-> IF l \in first THEN NoHome ELSE home[l]]
       /\ tree' = [l \in Logins |-> IF l \in first /\ tree[l] = "alive" THEN "dead"
                                    ELSE tree[l]]
  /\ UNCHANGED <<session, worker, caller, saved, faults>>

StartAgain ==
  /\ daemon = "refused" /\ daemon' = "down"
  /\ UNCHANGED <<session, worker, home, tree, caller, saved, faults>>

\* A probe or a login client ends by itself.
TreeExits(l) ==
  /\ tree[l] = "alive" /\ tree' = [tree EXCEPT ![l] = "dead"]
  /\ UNCHANGED <<session, worker, home, caller, daemon, saved, faults>>

LoginNext ==
  \/ \E l \in Logins :
       \/ StartLogin(l) \/ Work(l) \/ PasteCode(l) \/ AskCancel(l)
       \/ CancelAnswered(l) \/ TreeExits(l)
  \/ BeginShutdown \/ EndShutdown \/ DaemonDies \/ StartDaemon \/ StartAgain

\* The tasks of a running daemon are scheduled, and every await in them has a
\* timeout: the probes ten seconds, the login fifteen minutes, the stop five.  A
\* select polls its branches in random order, so pasted codes do not hide a
\* cancellation for ever.
LoginFairness ==
  \A l \in Logins : WF_loginVars(Work(l)) /\ WF_loginVars(LoginEnds(l))

LoginsSpec == LoginInit /\ [][LoginNext]_loginVars

-----------------------------------------------------------------------------
(* Properties *)

LoginTypeOK ==
  /\ \A l \in Logins : session[l].inbox \in 0 .. MaxCodes /\ worker[l].probes \in 0 .. 2
  /\ saved \subseteq Logins /\ faults \in 0 .. LoginFaults
  /\ daemon \in {"up", "stopping", "down", "refused"}

\* The home of a login, with the credentials in it, is removed only after every
\* process that could still write there is gone.
HomeOutlivesTree == \A l \in Logins : tree[l] = "alive" => home[l].exists

\* A process that outlives its daemon is named in a marker, or the marker says
\* that there may be one: no start removes its home unseen.
TreeIsRecorded ==
  \A l \in Logins : tree[l] = "alive" =>
    /\ home[l].marker.pending \/ home[l].marker.pid
    /\ ~home[l].marker.terminated

\* A login reported as cancelled saved no account, whoever asked and whenever.
CancelledIsNotSaved ==
  \A l \in Logins :
    session[l].state = "cancelled" \/ caller[l] = "cancelled" => l \notin saved

\* A saved account is reported: even if the cleanup after it failed, the status
\* names the account.  Only a database that fails right after the commit leaves one
\* in the vault whose login is reported as failed.
SavedIsReported ==
  \A l \in Logins : l \in saved /\ Over(l) =>
    session[l].account \/ (session[l].state = "failed" /\ worker[l].outcome = "unread")

\* The comment on clean_home says that startup retries the removal that failed.
\* A marker that names no process while one may have been spawned ends the start.
StartupRetriesRemoval == daemon # "refused"

\* A cancelled login comes to an end, and so does the call that asked for it,
\* unless the daemon does.
CancelEnds ==
  \A l \in Logins :
    session[l].cancel ~> (Over(l) \/ session[l].state = "forgotten")

\* An official login leaves no process, home or account behind that nobody knows of:
\* a home outlives the processes that write there, they are recorded, a cancelled
\* login saves nothing, and a saved account is reported if it can be read.
LoginsAreClean ==
  LoginTypeOK /\ HomeOutlivesTree /\ TreeIsRecorded /\ CancelledIsNotSaved /\ SavedIsReported
=============================================================================
