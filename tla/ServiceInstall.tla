--------------------------- MODULE ServiceInstall ---------------------------
(***************************************************************************)
(* The daemon as a service: installing, starting, stopping and removing    *)
(* it, and the terminal client's way to a daemon it can talk to, which     *)
(* installs one on its own.  Every command is a process of its own; they   *)
(* meet in the files they write and in the instance lock.  A command asks  *)
(* whether a daemon runs by taking that lock for a moment.  Of the service *)
(* managers only what differs is kept: whether a daemon that failed is     *)
(* started again.  A system service has its master key sealed beside it.   *)
(***************************************************************************)
EXTENDS Naturals, FiniteSets

CONSTANTS Callers,     \* commands
          Release,     \* caller -> the release it belongs to, a number
          Does,        \* caller -> what it may be asked for
          Wire,        \* release -> the protocol it speaks
          Restarting,  \* the manager starts a failed daemon again
          Free,        \* nobody holds the instance lock
          Polls, CommandsMax, DeathsMax \* bounds

ASSUME ServiceConstants ==
  /\ Release \in [Callers -> Nat \ {0}] /\ Free \notin Callers \cup {"daemon"}
  /\ "daemon" \notin Callers
  /\ \A c \in Callers : Does[c] \subseteq {"use", "install", "stop", "uninstall", "import"}

VARIABLES scope,      \* "user" or "system"
          bin,        \* release of the installed binary
          definition, \* of the service: the version of the key it loads
          sealed,     \* key versions sealed for a system service
          database,   \* its schema, and the key version its secrets need
          process,     \* the process: its state, release and key version
          instance,   \* who holds the instance lock
          calls,      \* what each command is doing
          worked,     \* a daemon has served with the key its database needs
          budgets
serviceVars == <<scope, bin, definition, sealed, database, process, instance, calls, worked, budgets>>

Missing == 0  \* no binary, no definition: releases and key versions are positive
NoProcess == [state |-> "none", release |-> 0, key |-> 0]
FailedProcess == [NoProcess EXCEPT !.state = "failed"]
NewCall == [pc |-> "idle", op |-> "use", after |-> "idle", polls |-> 0, alone |-> TRUE, told |-> 0]
DaemonHolds == instance = "daemon"
Serves == process.state = "ready"

\* There is no database yet, or one restored from another host: its key is then of
\* a later version.
RestoredKey == 2
Databases == {[schema |-> 0, key |-> 0], [schema |-> 1, key |-> RestoredKey]}

ServiceInit ==
  /\ scope \in {"user", "system"} /\ bin = Missing /\ definition = Missing /\ sealed = {} /\ database \in Databases
  /\ process = NoProcess /\ instance = Free /\ worked = FALSE
  /\ calls = [c \in Callers |-> NewCall] /\ budgets = [commands |-> 0, deaths |-> 0, restarts |-> 0]

Files == <<scope, bin, definition, sealed, database>>
Under(c) == calls[c].pc \notin {"idle", "done", "failed"}
\* A step of c: the others are no longer alone.
Now(c, call) ==
  calls' = [x \in Callers |-> IF x = c THEN call ELSE IF Under(x) THEN [calls[x] EXCEPT !.alone = FALSE] ELSE calls[x]]
Continue(c, pc) == Now(c, [calls[c] EXCEPT !.pc = pc])
\* Ask whether a daemon runs, then go on.
Asking(call, after) == [call EXCEPT !.pc = "ask", !.after = after]

\* A command begins; install is asked to start the service too.  Nobody removes the
\* service while another command runs, imports a key its database does not need, or
\* uses the daemon of a system service that was not installed.
Begin(c, op) ==
  /\ ~Under(c) /\ budgets.commands < CommandsMax /\ budgets' = [budgets EXCEPT !.commands = @ + 1]
  /\ \A x \in Callers \ {c} : Under(x) => op # "uninstall" /\ calls[x].op # "uninstall"
  /\ op = "import" => scope = "system" /\ database.key = RestoredKey
  /\ op = "use" /\ scope = "system" => definition # Missing
  /\ LET call == [NewCall EXCEPT !.op = op, !.alone = \A x \in Callers \ {c} : ~Under(x)]
     IN Now(c, CASE op = "use" -> [call EXCEPT !.pc = "connect"]
                 [] op \in {"install", "import"} -> Asking(call, "stop")
                 [] OTHER -> [call EXCEPT !.pc = "stop"])
  /\ UNCHANGED <<Files, process, instance, worked>>

\* lock_file_held: the lock is taken for a moment when it is free.
Probe(c) ==
  /\ calls[c].pc = "ask"
  /\ IF instance = Free THEN instance' = c /\ Continue(c, "unlock")
     ELSE Now(c, [calls[c] EXCEPT !.pc = calls[c].after, !.told = 1]) /\ UNCHANGED instance
  /\ UNCHANGED <<Files, process, worked, budgets>>
ProbeEnds(c) ==
  /\ calls[c].pc = "unlock" /\ instance' = Free
  /\ Now(c, [calls[c] EXCEPT !.pc = calls[c].after, !.told = 0])
  /\ UNCHANGED <<Files, process, worked, budgets>>

\* stop: the manager ends the daemon and waits for it; then the lock is asked for.
Stop(c) ==
  /\ calls[c].pc = "stop"
  /\ process' = NoProcess /\ instance' = (IF DaemonHolds THEN Free ELSE instance)
  /\ Now(c, Asking([calls[c] EXCEPT !.polls = 0], "stopped"))
  /\ UNCHANGED <<Files, worked, budgets>>
Stopped(c) ==
  /\ calls[c].pc = "stopped"
  /\ LET next == CASE calls[c].op = "stop" -> "done" [] calls[c].op = "uninstall" -> "undefine" [] OTHER -> "copy"
     IN IF calls[c].told = 0 THEN Continue(c, next)
        ELSE IF calls[c].polls = Polls THEN Continue(c, "failed")
        ELSE Now(c, Asking([calls[c] EXCEPT !.polls = @ + 1], "stopped"))
  /\ UNCHANGED <<Files, process, instance, worked, budgets>>

\* install: the binary, then the definition.  The key of a system service is sealed
\* once: its version is the recovery key's, else 1.  The keys of a user service are in
\* the key store of the platform, all of them.
PutBinary(c) ==
  /\ calls[c].pc = "copy" /\ bin' = Release[c] /\ Continue(c, "define")
  /\ UNCHANGED <<scope, definition, sealed, database, process, instance, worked, budgets>>
KeyVersion(c) == IF calls[c].op = "import" THEN RestoredKey ELSE 1
Define(c) ==
  /\ calls[c].pc = "define"
  /\ IF calls[c].op = "import" /\ KeyVersion(c) \in sealed
     THEN Continue(c, "failed") /\ UNCHANGED <<definition, sealed>>
     ELSE /\ sealed' = sealed \cup {KeyVersion(c)} /\ definition' = KeyVersion(c)
          /\ Now(c, Asking(calls[c], "start"))
  /\ UNCHANGED <<scope, bin, database, process, instance, worked, budgets>>

\* start: nothing is done while a daemon runs.
StartDaemon(c) ==
  /\ calls[c].pc = "start"
  /\ IF calls[c].told = 1 THEN Continue(c, IF calls[c].op = "use" THEN "ready?" ELSE "done") /\ UNCHANGED process
     ELSE /\ process' = IF bin = Missing \/ process.state \notin {"none", "failed"} THEN process
                       ELSE [state |-> "forked", release |-> bin, key |-> definition]
          /\ Now(c, Asking([calls[c] EXCEPT !.polls = 0], "started"))
  /\ UNCHANGED <<Files, instance, worked, budgets>>
Started(c) ==
  /\ calls[c].pc = "started"
  /\ IF calls[c].told = 1 THEN Now(c, [calls[c] EXCEPT !.pc = IF calls[c].op = "use" THEN "ready?" ELSE "done", !.polls = 0])
     ELSE IF calls[c].polls = Polls THEN Continue(c, "failed")
     ELSE Now(c, Asking([calls[c] EXCEPT !.polls = @ + 1], "started"))
  /\ UNCHANGED <<Files, process, instance, worked, budgets>>

\* uninstall: the definition, then the binary.
Undefine(c) ==
  /\ calls[c].pc = "undefine" /\ definition' = Missing /\ Continue(c, "delete")
  /\ UNCHANGED <<scope, bin, sealed, database, process, instance, worked, budgets>>
Delete(c) ==
  /\ calls[c].pc = "delete" /\ bin' = Missing /\ Continue(c, "done")
  /\ UNCHANGED <<scope, definition, sealed, database, process, instance, worked, budgets>>

\* connect_or_bootstrap: a daemon of another release is replaced, one that does not
\* answer is waited for, one that does not run is installed.
Compatible(c) == Wire[process.release] = Wire[Release[c]]
\* guard_scope: what a client installs is a user service.
Install(c) ==
  IF scope = "system" /\ definition # Missing THEN Continue(c, "failed") ELSE Now(c, Asking(calls[c], "stop"))
Connect(c) ==
  /\ calls[c].pc = "connect"
  /\ CASE Serves /\ Compatible(c) /\ process.release = Release[c] -> Continue(c, "done")
       [] Serves /\ (~Compatible(c) \/ process.release # Release[c]) -> Install(c)
       [] ~Serves -> Now(c, Asking(calls[c], "bootstrap"))
  /\ UNCHANGED <<Files, process, instance, worked, budgets>>
Bootstrap(c) ==
  /\ calls[c].pc = "bootstrap"
  /\ IF calls[c].told = 1 THEN Now(c, [calls[c] EXCEPT !.pc = "running?", !.polls = 0]) ELSE Install(c)
  /\ UNCHANGED <<Files, process, instance, worked, budgets>>
\* wait_for_running_daemon, wait_until_ready
WaitFor(c) ==
  /\ calls[c].pc \in {"running?", "ready?"}
  /\ CASE Serves /\ Compatible(c) -> Continue(c, "done")
       [] Serves /\ ~Compatible(c) /\ calls[c].pc = "running?" -> Install(c)
       [] OTHER -> IF calls[c].polls = Polls THEN Continue(c, "failed")
                   ELSE Now(c, [calls[c] EXCEPT !.polls = @ + 1])
  /\ UNCHANGED <<Files, process, instance, worked, budgets>>

\* The daemon: InstanceGuard, then the database and the key.  An older daemon does
\* not open a newer database.
Ends == process' = FailedProcess /\ instance' = (IF DaemonHolds THEN Free ELSE instance)
Acquire ==
  /\ process.state = "forked"
  /\ IF instance = Free THEN process' = [process EXCEPT !.state = "starting"] /\ instance' = "daemon"
     ELSE Ends
  /\ UNCHANGED <<Files, calls, worked, budgets>>
Serve ==
  /\ process.state = "starting"
  /\ IF process.release < database.schema THEN Ends /\ UNCHANGED <<database, worked>>
     ELSE LET key == IF database.key = 0 THEN 1 ELSE database.key
          IN /\ process' = [process EXCEPT !.state = "ready"] /\ UNCHANGED instance
             /\ database' = [schema |-> process.release, key |-> key]
             /\ worked' = (worked \/ key = process.key)
  /\ UNCHANGED <<scope, bin, definition, sealed, calls, budgets>>
Restart ==
  /\ Restarting /\ process.state = "failed" /\ definition # Missing /\ bin # Missing
  /\ budgets.restarts < DeathsMax /\ budgets' = [budgets EXCEPT !.restarts = @ + 1]
  /\ process' = [state |-> "forked", release |-> bin, key |-> definition]
  /\ UNCHANGED <<Files, instance, calls, worked>>
DaemonDies ==
  /\ process.state \notin {"none", "failed"} /\ budgets.deaths < DeathsMax /\ budgets' = [budgets EXCEPT !.deaths = @ + 1]
  /\ Ends /\ UNCHANGED <<Files, calls, worked>>
\* A command is interrupted: what it held is released.
Interrupt(c) ==
  /\ Under(c) /\ budgets.deaths < DeathsMax /\ budgets' = [budgets EXCEPT !.deaths = @ + 1]
  /\ instance' = IF instance = c THEN Free ELSE instance
  /\ Continue(c, "idle") /\ UNCHANGED <<Files, process, worked>>

Command(c) ==
  \/ \E op \in Does[c] : Begin(c, op)
  \/ Probe(c) \/ ProbeEnds(c) \/ Stop(c) \/ Stopped(c) \/ PutBinary(c) \/ Define(c) \/ StartDaemon(c) \/ Started(c)
  \/ Undefine(c) \/ Delete(c) \/ Connect(c) \/ Bootstrap(c) \/ WaitFor(c) \/ Interrupt(c)
ServiceNext == (\E c \in Callers : Command(c)) \/ Acquire \/ Serve \/ Restart \/ DaemonDies
-----------------------------------------------------------------------------
\* What is registered with the service manager can be started: its binary and its
\* key are there, whichever command was interrupted where.
DefinitionIsRunnable == definition # Missing => bin # Missing /\ definition \in sealed

\* A command that ends well with no other beside it did what it was asked for: the
\* release it belongs to is installed, or nothing is left.
CommandsDeliver ==
  [][\A c \in Callers : calls[c].pc # "done" /\ calls'[c].pc = "done" /\ calls'[c].alone =>
       CASE calls[c].op = "uninstall" -> definition' = Missing /\ bin' = Missing /\ ~DaemonHolds'
         [] calls[c].op \in {"install", "import"} -> definition' # Missing /\ bin' = Release[c]
         [] calls[c].op = "stop" -> ~DaemonHolds'
         [] OTHER -> Serves' /\ Compatible(c)']_serviceVars

\* A deployment that worked is not stranded by a reinstallation: the daemon is
\* always given the key that opens its database.
KeyIsReachable == scope = "system" /\ worked /\ Serves => database.key = process.key
=============================================================================
