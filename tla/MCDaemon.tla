------------------------------ MODULE MCDaemon ------------------------------
(***************************************************************************)
(* Small instances for TLC of what hsind serves: official logins, the      *)
(* proxy's runtime and its requests, the IPC session and the providers.    *)
(* They share no state in these models: each is checked while the others   *)
(* rest.                                                                   *)
(***************************************************************************)
EXTENDS OfficialLogin, ProxyRuntime, IpcSession, ProxyRequest, Providers, TLC

CONSTANTS l1, l2, r1, r2, u1, u2, builtin, prov1, prov2

VARIABLE part  \* the one that runs
vars == <<loginVars, proxyVars, ipcVars, requestVars, providerVars, part>>

Parts == {"login", "proxy", "ipc", "request", "providers"}

ProxyRests == taken = {}
RequestRests ==
  /\ routes = [active |-> u1, image |-> Absent, locked |-> FALSE, managed |-> FALSE]
  /\ \A u \in Upstreams : ~stored[u].oauth
IpcRests == Connected(Current)
ProvidersRest == kind = "codex"

InitOf(parts) ==
  /\ part \in parts
  /\ LoginInit
  /\ ProxyInit /\ (part = "proxy" \/ ProxyRests)
  /\ IpcInit /\ (part = "ipc" \/ IpcRests)
  /\ RequestInit /\ (part = "request" \/ RequestRests)
  /\ ProvidersInit /\ (part = "providers" \/ ProvidersRest)

LoginRuns == part = "login" /\ LoginNext
             /\ UNCHANGED <<proxyVars, ipcVars, requestVars, providerVars, part>>
ProxyRuns == part = "proxy" /\ ProxyNext
             /\ UNCHANGED <<loginVars, ipcVars, requestVars, providerVars, part>>
IpcRuns == part = "ipc" /\ IpcNext
           /\ UNCHANGED <<loginVars, proxyVars, requestVars, providerVars, part>>
RequestRuns == part = "request" /\ RequestNext
               /\ UNCHANGED <<loginVars, proxyVars, ipcVars, providerVars, part>>
ProvidersRun == part = "providers" /\ ProvidersNext
                /\ UNCHANGED <<loginVars, proxyVars, ipcVars, requestVars, part>>
Next == LoginRuns \/ ProxyRuns \/ IpcRuns \/ RequestRuns \/ ProvidersRun

DaemonSpec == InitOf(Parts) /\ [][Next]_vars
ProgressSpec == InitOf({"login", "proxy"}) /\ [][Next]_vars /\ LoginFairness /\ ProxyFairness
RequestSpec == InitOf({"request"}) /\ [][Next]_vars
ProvidersSpec == InitOf({"providers"}) /\ [][Next]_vars
LoginSpec == InitOf({"login"}) /\ [][Next]_vars

\* A call gets its own answer from a daemon that speaks its protocol, and a proxied
\* request leaves with one revision of one provider and returns its permit.
AnswersAreOwn ==
  /\ OwnAnswer /\ MismatchOnlyReleases /\ HandshakeAgrees
  /\ PermitsAreReturned /\ SentIsOneSnapshot

\* A client that is reported synchronized has a configuration that its daemon stands
\* for: the provider, the mode and the images it names are those of the database; and
\* a revision is given once.
ProvidersAreCoherent ==
  [](ProvidersTypeOK /\ ReferencesResolve /\ SynchronizedResolves /\ ImageAdvertised /\ ModeAgrees)
  /\ RevisionsGrow

\* The listener follows the setting: it comes up when the address is free, goes when
\* the proxy is switched off, and every update ends.
ListenerFollows == EnabledIsServed /\ DisabledIsSilent /\ UpdatesEnd
=============================================================================
