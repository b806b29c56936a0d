---------------------------- MODULE ProxyRuntime ----------------------------
(***************************************************************************)
(* The local proxy of hsind: its settings in the database, the watched     *)
(* runtime configuration, the task that listens (proxy::serve), the        *)
(* handlers that change them under the mutation lock (set_mode and         *)
(* update_settings), and the shutdown of the daemon, whose notification    *)
(* wakes only the loops that are waiting for it.                           *)
(***************************************************************************)
EXTENDS Naturals, Sequences

CONSTANTS Addresses,   \* host and port; 1 is the default one
          RequestsMax, \* bound: handlers that run in one history
          FaultsMax,   \* bound: failed writes of a client configuration
          RestartsMax, \* bound: crashes and restarts of the daemon
          MovesMax     \* bound: times another program takes or leaves a port

Clients == {"codex", "claude"}
None == 0  \* no address
Half == 1000  \* the host of one address with the port of another

ASSUME ProxyRuntimeAssumption ==
  Addresses \subseteq Nat \ {None, Half} /\ 1 \in Addresses

VARIABLES setting,  \* proxy_enabled, and proxy_host with proxy_port
          runtime,  \* the watched ProxyRuntimeConfig
          server,   \* the serve task: pc, the desired configuration, seen revision
          active,   \* proxy_active_address; listening says that it is not None
          failure,  \* a reason is recorded why the listener could not come up
          taken,    \* addresses other programs listen on
          clients,  \* mode, written endpoint and status of each client
          handler,  \* the one that holds the mutation lock
          life,     \* shutdown: asked, the tasks of main, the woken, the deaf
          spent     \* events so far, against the bounds
proxyVars == <<setting, runtime, server, active, failure, taken, clients,
               handler, life, spent>>

Resting == [steps |-> <<>>, goal |-> None, old |-> None, undoing |-> FALSE,
            on |-> FALSE, answer |-> "none"]
Serving(pc, desired, seen) == [pc |-> pc, desired |-> desired, seen |-> seen]
NoDesire == [enabled |-> FALSE, address |-> None, revision |-> 0]
Running == [asked |-> FALSE, main |-> "select", rpc |-> "select",
            woken |-> {}, deaf |-> {}]

ProxyInit ==
  /\ setting = [enabled |-> FALSE, address |-> 1]
  /\ runtime = [enabled |-> FALSE, address |-> 1, revision |-> 0]
  /\ server = Serving("idle", NoDesire, 0)
  /\ active = None /\ failure = FALSE /\ taken \in SUBSET Addresses
  /\ clients = [c \in Clients |->
       [mode |-> "direct", endpoint |-> None, status |-> "synchronized",
        stuck |-> FALSE, orphan |-> FALSE]]
  /\ handler = Resting /\ life = Running
  /\ spent = [requests |-> 0, faults |-> 0, restarts |-> 0, moves |-> 0]

---------------------------------------------------------------------------
(* The wait for shutdown.  A Notified future hears notify_waiters only if  *)
(* it exists when it is called, and a select that finds another branch     *)
(* ready drops it: the notification is then gone.                          *)

Waits(task) ==
  CASE task = "main" -> life.main = "select"
    [] task = "rpc" -> life.rpc = "select"
    [] task = "proxy" -> server.pc \in {"idle", "serve", "retry"}

Alive(task) ==
  CASE task = "main" -> life.main # "done"
    [] task = "rpc" -> life.rpc # "ended"
    [] task = "proxy" -> server.pc # "ended"

Tasks == {"main", "rpc", "proxy"}
Notify(l) ==
  [l EXCEPT !.asked = TRUE,
            !.woken = @ \cup {t \in Tasks : Waits(t)},
            !.deaf = {t \in Tasks : Alive(t) /\ ~Waits(t)}]

\* A loop whose select takes another branch loses a notification it has got.
Misses(l, task) ==
  [l EXCEPT !.woken = @ \ {task},
            !.deaf = IF task \in l.woken THEN @ \cup {task} ELSE @]

---------------------------------------------------------------------------
(* proxy::serve and serve_enabled                                          *)

Changed == runtime.revision # server.seen
ProxyOnly == UNCHANGED <<setting, runtime, taken, clients, handler, spent>>

\* The proxy is disabled: wait for a change; then read the desired state.
LeaveIdle ==
  /\ server.pc = "idle" /\ Changed
  /\ server' = IF runtime.enabled THEN Serving("bind", runtime, runtime.revision)
               ELSE [server EXCEPT !.seen = runtime.revision]
  /\ life' = Misses(life, "proxy")
  /\ ProxyOnly /\ UNCHANGED <<active, failure>>

\* TcpListener::bind is awaited, and nothing else with it.
Bind ==
  /\ server.pc = "bind"
  /\ IF server.desired.address \in taken
       THEN /\ server' = [server EXCEPT !.pc = "retry"]
            /\ active' = None /\ failure' = TRUE
       ELSE /\ server' = [server EXCEPT !.pc = "serve"]
            /\ active' = server.desired.address /\ failure' = FALSE
  /\ ProxyOnly /\ UNCHANGED life

\* A change: leave, unless the configuration is the one served.
SeeChange ==
  /\ server.pc = "serve" /\ Changed
  /\ LET same == runtime = server.desired IN
     /\ server' = IF same THEN [server EXCEPT !.seen = runtime.revision]
                  ELSE IF life.asked
                  THEN [server EXCEPT !.pc = "ended"]
                  ELSE IF runtime.enabled
                  THEN Serving("bind", runtime, runtime.revision)
                  ELSE Serving("idle", NoDesire, runtime.revision)
     /\ active' = IF same THEN active ELSE None
  /\ life' = Misses(life, "proxy")
  /\ ProxyOnly /\ UNCHANGED failure

\* Mutant: after a failure the loop waits for a change.
TryAgain_Waits ==
  /\ server.pc = "retry"
  /\ server' = IF life.asked THEN [server EXCEPT !.pc = "ended"]
               ELSE Serving("idle", NoDesire, runtime.revision)
  /\ life' = Misses(life, "proxy")
  /\ ProxyOnly /\ UNCHANGED <<active, failure>>

\* After a failure: 250 ms or a change, then the loop starts again.
TryAgain ==
  /\ server.pc = "retry"
  /\ \E seen \in {server.seen, runtime.revision} :
       server' = IF life.asked THEN [server EXCEPT !.pc = "ended"]
                 ELSE IF runtime.enabled THEN Serving("bind", runtime, seen)
                 ELSE Serving("idle", NoDesire, seen)
  /\ life' = Misses(life, "proxy")
  /\ ProxyOnly /\ UNCHANGED <<active, failure>>

\* Mutant: a listener that serves does not listen for the shutdown.
HearShutdown_Idle ==
  /\ "proxy" \in life.woken /\ server.pc \in {"idle", "retry"}
  /\ server' = [server EXCEPT !.pc = "ended"]
  /\ life' = [life EXCEPT !.woken = @ \ {"proxy"}]
  /\ ProxyOnly /\ UNCHANGED <<failure, active>>

HearShutdown ==
  /\ "proxy" \in life.woken /\ server.pc \in {"idle", "serve", "retry"}
  /\ server' = [server EXCEPT !.pc = "ended"]
  /\ active' = IF server.pc = "serve" THEN None ELSE active
  /\ life' = [life EXCEPT !.woken = @ \ {"proxy"}]
  /\ ProxyOnly /\ UNCHANGED failure

Serve == LeaveIdle \/ Bind \/ SeeChange \/ TryAgain \/ HearShutdown
---------------------------------------------------------------------------
(* The handlers, one at a time under the mutation lock.  A handler is a    *)
(* list of steps; each is one durable write or one wait.                   *)

Do(s) == handler.steps # <<>> /\ Head(handler.steps)[1] = s
Of(s) == Head(handler.steps)[2]
Then(h) == handler' = [h EXCEPT !.steps = Tail(@)]
Finish(answer) == handler' = [Resting EXCEPT !.answer = answer]
Proceed(h) ==
  IF Tail(h.steps) # <<>> THEN Then(h)
  ELSE handler' = [Resting EXCEPT !.answer =
                     IF h.undoing THEN "error" ELSE IF h.on THEN "on" ELSE "ok"]
Both(step) == << <<step, "codex">>, <<step, "claude">> >>
One(step) == << <<step, None>> >>
Toggle(on) == << <<"toggle", on>> >>

MayStart == handler.steps = <<>> /\ life.rpc # "ended" /\ spent.requests < RequestsMax
StartWith(h) ==
  /\ handler' = h /\ spent' = [spent EXCEPT !.requests = @ + 1]
  /\ UNCHANGED <<setting, runtime, server, active, failure, taken, clients, life>>

\* set_mode: the proxy comes up before the client is sent to it.
SetMode(c, mode) ==
  /\ MayStart
  /\ StartWith([Resting EXCEPT
       !.steps = (IF mode = "proxy" THEN Toggle(TRUE) ELSE <<>>)
                 \o << <<IF mode = "proxy" THEN "join" ELSE "leave", c>> >>,
       !.on = mode = "proxy"])

\* update_settings: off first, then a new binding, on last.
UpdateSettings(enabled, address) ==
  /\ MayStart
  /\ enabled # "keep" \/ address # setting.address
  /\ StartWith([Resting EXCEPT
       !.steps = (IF enabled = "off" THEN Both("direct") \o Toggle(FALSE) ELSE <<>>)
         \o (IF address # setting.address
             THEN One("host") \o One("port") \o Both("sync") \o One("restart") ELSE <<>>)
         \o (IF enabled = "on" THEN Toggle(TRUE) ELSE <<>>),
       !.goal = address, !.old = setting.address, !.on = enabled = "on"])

\* apply_configuration for one client: written, refused, or failed hard.
Outcomes == {"written", "blocked", "hard"}
Costs(outcome) ==
  /\ outcome = "written" \/ spent.faults < FaultsMax
  /\ spent' = [spent EXCEPT !.faults = IF outcome = "written" THEN @ ELSE @ + 1]
HandlerOnly == UNCHANGED <<server, failure, taken, life>>
Endpoint(mode) == IF mode = "proxy" THEN setting.address ELSE None

Write(c, mode) ==
  clients' = [clients EXCEPT ![c] =
    [mode |-> mode, endpoint |-> Endpoint(mode), status |-> "synchronized",
     stuck |-> FALSE, orphan |-> clients[c].orphan /\ mode = "proxy"]]

\* set_mode ends with it; an error leaves the listener as it is.
ApplyMode ==
  /\ Do("join") \/ Do("leave")
  /\ \E outcome \in Outcomes :
       /\ Costs(outcome)
       /\ IF outcome = "written"
          THEN Write(Of("join"), IF Do("join") THEN "proxy" ELSE "direct")
               /\ Proceed(handler)
          ELSE Finish("error") /\ UNCHANGED clients
  /\ HandlerOnly /\ UNCHANGED <<setting, runtime, active>>

\* disable_all_client_proxies_locked
Disable ==
  /\ Do("direct")
  /\ LET c == Of("direct") IN
     IF clients[c].mode = "direct"
     THEN Then(handler) /\ UNCHANGED <<clients, spent>>
     ELSE \E outcome \in Outcomes :
            /\ Costs(outcome)
            /\ IF outcome = "written" THEN Write(c, "direct") /\ Then(handler)
               ELSE Finish("error") /\ UNCHANGED clients
  /\ HandlerOnly /\ UNCHANGED <<setting, runtime, active>>

\* Mutant: the old address is written to the clients, but not stored again.
Undo_KeepsAddress(restarting) ==
  [handler EXCEPT !.steps = Both("sync") \o (IF restarting THEN One("restart") ELSE <<>>),
                  !.undoing = TRUE]

\* reconcile_proxy_configurations: a refusal is only noted in the status, a
\* hard error ends it, and is swallowed when it undoes.
Undo(restarting) ==
  [handler EXCEPT !.steps = One("restore") \o Both("sync")
                            \o (IF restarting THEN One("restart") ELSE <<>>),
                  !.undoing = TRUE]
AfterSyncs(h) ==
  [h EXCEPT !.steps = IF <<"restart", None>> \in {@[i] : i \in DOMAIN @}
                      THEN One("restart") ELSE <<>>]
SyncFailed ==
  IF ~handler.undoing THEN handler' = Undo(FALSE)
  ELSE LET h == AfterSyncs(handler) IN
       IF h.steps = <<>> THEN Finish("error") ELSE handler' = h

Synchronize ==
  /\ Do("sync")
  /\ LET c == Of("sync") IN
     IF clients[c].mode = "direct"
     THEN Proceed(handler) /\ UNCHANGED <<clients, spent>>
     ELSE \E outcome \in Outcomes :
            /\ Costs(outcome)
            /\ CASE outcome = "written" -> Write(c, "proxy") /\ Proceed(handler)
                 [] outcome = "blocked" ->
                      clients' = [clients EXCEPT ![c].status = "blocked"]
                      /\ Proceed(handler)
                 [] outcome = "hard" ->
                      clients' = [d \in Clients |-> IF handler.undoing
                                    THEN [clients[d] EXCEPT !.stuck = TRUE]
                                    ELSE clients[d]]
                      /\ SyncFailed
  /\ HandlerOnly /\ UNCHANGED <<setting, runtime, active>>

\* set_proxy_binding_settings: the host, then the port.
WriteBinding ==
  /\ Do("host") \/ Do("port") \/ Do("restore")
  /\ setting' = [setting EXCEPT !.address =
       IF Do("host") THEN Half ELSE IF Do("port") THEN handler.goal ELSE handler.old]
  /\ Proceed(handler)
  /\ HandlerOnly /\ UNCHANGED <<runtime, active, clients, spent>>

---------------------------------------------------------------------------
(* set_proxy_enabled_locked and restart_proxy_locked                       *)

Replace(on) ==
  runtime' = [enabled |-> on, address |-> setting.address,
              revision |-> runtime.revision + 1]
AwaitFirst(step) == [handler EXCEPT !.steps = <<step>> \o Tail(@)]
Listening == active # None

Enable ==
  /\ Do("toggle")
  /\ LET on == Of("toggle") IN
     IF runtime.enabled = on /\ Listening = on
     THEN Proceed(handler) /\ UNCHANGED <<setting, runtime, clients>>
     ELSE /\ setting' = [setting EXCEPT !.enabled = on]
          /\ Replace(on) /\ handler' = AwaitFirst(<<"await", on>>)
          /\ clients' = [c \in Clients |-> [clients[c] EXCEPT !.orphan = @ /\ ~on]]
  /\ HandlerOnly /\ UNCHANGED <<active, spent>>

\* update_settings restarts the listener only when the proxy is enabled.
Rebind ==
  /\ Do("restart")
  /\ IF runtime.enabled
     THEN Replace(TRUE) /\ handler' = AwaitFirst(<<"rebound", TRUE>>)
     ELSE Proceed(handler) /\ UNCHANGED runtime
  /\ HandlerOnly /\ UNCHANGED <<setting, active, clients, spent>>

\* wait_for_proxy_state: a hundred polls, 20 ms apart.
Awaits == Do("await") \/ Do("rebound")
Ready == IF Of("await") THEN active = runtime.address ELSE ~Listening
PollReady ==
  /\ Awaits /\ Ready /\ Proceed(handler)
  /\ HandlerOnly /\ UNCHANGED <<setting, runtime, active, clients, spent>>

\* The last poll is followed by one more sleep before the wait gives up.
PollLast ==
  /\ Awaits /\ ~Ready
  /\ handler' = AwaitFirst(<<IF Do("await") THEN "late" ELSE "unbound", Of("await")>>)
  /\ HandlerOnly /\ UNCHANGED <<setting, runtime, active, clients, spent>>

GiveUp ==
  /\ Do("late")
  /\ Finish("error")
  /\ IF Of("late")
     THEN /\ setting' = [setting EXCEPT !.enabled = FALSE] /\ Replace(FALSE)
          /\ clients' = [c \in Clients |->
               [clients[c] EXCEPT !.orphan = @ \/ clients[c].mode = "proxy"]]
     ELSE UNCHANGED <<setting, runtime, clients>>
  /\ HandlerOnly /\ UNCHANGED <<active, spent>>

GiveUpRebind ==
  /\ Do("unbound")
  /\ IF handler.undoing THEN Finish("error") ELSE handler' = Undo(TRUE)
  /\ HandlerOnly /\ UNCHANGED <<setting, runtime, active, clients, spent>>

Handle == ApplyMode \/ Disable \/ Synchronize \/ WriteBinding \/ Enable
          \/ Rebind \/ PollReady \/ PollLast \/ GiveUp \/ GiveUpRebind

---------------------------------------------------------------------------
(* The daemon's main, the IPC accept loop, and what is outside             *)

LifeOnly == UNCHANGED <<setting, runtime, server, active, failure, taken,
                        clients, handler>>

\* daemon.shutdown, answered by a connection of its own.
AskShutdown ==
  /\ ~life.asked /\ life' = Notify(life) /\ LifeOnly /\ UNCHANGED spent

Accept ==
  /\ life.rpc = "select"
  /\ life' = [Misses(life, "rpc") EXCEPT !.rpc = "accepting"]
  /\ LifeOnly /\ UNCHANGED spent

Accepted ==
  /\ life.rpc = "accepting" /\ life' = [life EXCEPT !.rpc = "select"]
  /\ LifeOnly /\ UNCHANGED spent

RpcHears ==
  /\ life.rpc = "select" /\ "rpc" \in life.woken
  /\ life' = [life EXCEPT !.rpc = "ended", !.woken = @ \ {"rpc"}]
  /\ LifeOnly /\ UNCHANGED spent

AcceptFails ==
  /\ life.rpc = "select" /\ spent.faults < FaultsMax
  /\ life' = [life EXCEPT !.rpc = "ended", !.woken = @ \ {"rpc"}]
  /\ spent' = [spent EXCEPT !.faults = @ + 1] /\ LifeOnly

\* A signal, a notification, or the end of the IPC task.
MainWakes(signal) ==
  /\ life.main = "select"
  /\ signal \/ "main" \in life.woken \/ life.rpc = "ended"
  /\ life' = [Notify([life EXCEPT !.main = "notified"]) EXCEPT
       !.woken = @ \ {"main"},
       !.main = IF life.rpc = "ended" /\ ~life.asked THEN "done" ELSE "rpc"]
  /\ LifeOnly /\ UNCHANGED spent

MainAwaits ==
  /\ \/ life.main = "rpc" /\ life.rpc = "ended" /\ life' = [life EXCEPT !.main = "proxy"]
     \/ life.main = "proxy" /\ server.pc = "ended" /\ life' = [life EXCEPT !.main = "done"]
  /\ LifeOnly /\ UNCHANGED spent

\* Another program takes or leaves an address.
Move(a) ==
  /\ spent.moves < MovesMax /\ a # active
  /\ taken' = IF a \in taken THEN taken \ {a} ELSE taken \cup {a}
  /\ spent' = [spent EXCEPT !.moves = @ + 1]
  /\ UNCHANGED <<setting, runtime, server, active, failure, clients, handler, life>>

\* The daemon dies, or has ended, and is started again.  Startup repairs the
\* proxied endpoints; a locked key store only skips that.
Restart ==
  /\ spent.restarts < RestartsMax
  /\ \E outcome \in [Clients -> Outcomes] :
       LET failed == {c \in Clients : clients[c].mode = "proxy" /\ outcome[c] # "written"}
       IN /\ failed = {} \/ spent.faults < FaultsMax
          /\ \A c \in Clients : clients[c].mode = "direct" => outcome[c] = "written"
          /\ clients' = [c \in Clients |->
               IF clients[c].mode = "direct" THEN clients[c]
               ELSE CASE outcome[c] = "written" ->
                      [clients[c] EXCEPT !.endpoint = setting.address,
                         !.status = "synchronized", !.stuck = FALSE]
                 [] outcome[c] = "blocked" -> [clients[c] EXCEPT !.status = "blocked"]
                 [] outcome[c] = "hard" -> [clients[c] EXCEPT !.stuck = TRUE]]
          /\ spent' = [spent EXCEPT !.restarts = @ + 1,
                         !.faults = IF failed = {} THEN @ ELSE @ + 1]
  /\ runtime' = [enabled |-> setting.enabled, address |-> setting.address, revision |-> 0]
  /\ server' = IF setting.enabled THEN Serving("bind", runtime', 0)
               ELSE Serving("idle", NoDesire, 0)
  /\ active' = None /\ failure' = FALSE
  /\ handler' = Resting /\ life' = Running
  /\ UNCHANGED <<setting, taken>>

ProxyNext ==
  \/ /\ life.main # "done"
     /\ \/ Serve \/ Handle \/ AskShutdown
        \/ Accept \/ Accepted \/ RpcHears \/ AcceptFails \/ MainAwaits
        \/ \E signal \in BOOLEAN : MainWakes(signal)
        \/ \E c \in Clients, mode \in {"direct", "proxy"} : SetMode(c, mode)
        \/ \E enabled \in {"keep", "on", "off"}, a \in Addresses :
             UpdateSettings(enabled, a)
        \/ \E a \in Addresses : Move(a)
  \/ Restart

\* The tasks of the daemon run; nothing says when others act.
ProxyFairness ==
  /\ WF_proxyVars(Serve) /\ WF_proxyVars(Handle) /\ WF_proxyVars(Accepted)
  /\ WF_proxyVars(RpcHears) /\ WF_proxyVars(MainWakes(FALSE)) /\ WF_proxyVars(MainAwaits)

---------------------------------------------------------------------------
(* Properties                                                              *)

\* The state of the proxy is of its type.
ProxyTypeOK ==
  /\ setting \in [enabled : BOOLEAN, address : Addresses \cup {Half}]
  /\ runtime \in [enabled : BOOLEAN, address : Addresses \cup {Half}, revision : Nat]
  /\ server.pc \in {"idle", "bind", "serve", "retry", "ended"}
  /\ active \in Addresses \cup {None, Half} /\ failure \in BOOLEAN
  /\ life.woken \subseteq Tasks /\ life.deaf \subseteq Tasks

\* When no handler runs, a proxied client whose configuration is reported as
\* synchronized has the endpoint of the settings, however a rebinding failed,
\* unless the rollback's own failure was ignored or startup was locked.
ConfigFollowsSettings ==
  handler.steps = <<>> =>
    \A c \in Clients :
      clients[c].mode = "proxy" /\ clients[c].status = "synchronized" /\ ~clients[c].stuck
      => clients[c].endpoint = setting.address

\* When no handler runs, the listener is told what the database says, after
\* every failure and restart.
RuntimeFollowsSettings ==
  handler.steps = <<>> /\ life.main # "done" =>
    /\ runtime.enabled = setting.enabled
    /\ runtime.enabled => runtime.address = setting.address

\* A client stays in proxy mode with the proxy off only when switching it on
\* for something else failed and switched it off under that client.
ProxiedIsEnabled ==
  handler.steps = <<>> =>
    \A c \in Clients : clients[c].mode = "proxy" => setting.enabled \/ clients[c].orphan

\* The listener reports an address only while it serves what was asked of it,
\* and a recorded failure only while it is not listening.
FailureIsCurrent ==
  /\ Listening => server.pc = "serve" /\ active = server.desired.address /\ ~failure

\* An enabled proxy listens at its address when nothing else does, unless it
\* is changed, ends, or is restarted.
EnabledIsServed ==
  (runtime.enabled /\ runtime.address \notin taken)
    ~> (active = runtime.address \/ ~runtime.enabled \/ runtime.address \in taken
        \/ life.asked)

\* A disabled proxy falls silent, also when its listener comes up late.
DisabledIsSilent == ~runtime.enabled ~> (~Listening \/ runtime.enabled)

\* Every handler that waits for the listener answers.
UpdatesEnd == (handler.steps # <<>>) ~> (handler.steps = <<>> \/ life.main = "done")

\* A shutdown ends the daemon unless a loop that was not waiting missed it.
ShutdownEndsIfHeard == life.asked ~> (life.main = "done" \/ life.deaf # {} \/ ~life.asked)

\* A shutdown ends the daemon.
ShutdownEnds == life.asked ~> (life.main = "done" \/ ~life.asked)

\* The listener, the settings and the configurations of the proxied clients agree
\* after every update, however it failed and was rolled back.
ProxyIsCoherent ==
  ProxyTypeOK /\ ConfigFollowsSettings /\ RuntimeFollowsSettings /\ ProxiedIsEnabled /\ FailureIsCurrent
=============================================================================
