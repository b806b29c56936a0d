---------------------------- MODULE ProxyRequest ----------------------------
(***************************************************************************)
(* One proxied request from its arrival to the end of its stream           *)
(* (proxy::forward): the permit, the caller's authorization, the snapshot  *)
(* of provider, credential and outgoing network proxy, the rewritten image *)
(* body, and what other handlers change meanwhile.  A secret is the        *)
(* revision it belongs to.                                                 *)
(***************************************************************************)
EXTENDS Naturals, FiniteSets

CONSTANTS Requests, Upstreams, \* requests, and the providers of Codex
          Permits,             \* concurrency (128 in the code)
          MaxEdits             \* bound: changes by other handlers

ASSUME RequestAssumption == IsFiniteSet(Requests) /\ Permits \in Nat /\ MaxEdits \in Nat

VARIABLES routes,   \* the active and the image provider, and whether the key is locked
          stored,   \* each provider's row: revision, whether OAuth, image models
          outgoing, \* network proxy settings and the password stored with them
          request,  \* every request
          permits, edits
requestVars == <<routes, stored, outgoing, request, permits, edits>>

Absent == "absent"
Unread == 0
Fresh == [pc |-> "new", image |-> FALSE, caller |-> "none", provider |-> Absent,
          revision |-> Unread, secret |-> Unread, oauth |-> FALSE, models |-> {},
          network |-> Unread, password |-> Unread, model |-> "own", status |-> "none"]
Models == {"allowed", "withdrawn"}
Callers == {"capability", "managed_local", "managed_remote", "none"}

RequestInit ==
  /\ routes \in [active : Upstreams, image : Upstreams \cup {Absent}, locked : BOOLEAN,
                 managed : BOOLEAN]
  /\ stored \in [Upstreams -> [revision : {1}, oauth : BOOLEAN, models : {{"allowed"}}]]
  /\ outgoing = [network |-> 1, password |-> 1]
  /\ request = [r \in Requests |-> Fresh]
  /\ permits = Permits /\ edits = 0

---------------------------------------------------------------------------
(* forward                                                                 *)

At(r, pc) == request[r].pc = pc
Step(r, next) == request' = [request EXCEPT ![r] = next]
RequestOnly == UNCHANGED <<routes, stored, outgoing, edits>>
Held == UNCHANGED permits

\* Mutant: a refused request keeps its permit.
Refuse_KeepsPermit(r, status) ==
  Step(r, [Fresh EXCEPT !.pc = "done", !.status = status]) /\ UNCHANGED permits

\* Every return before the response drops the permit.
Refuse(r, status) ==
  /\ Step(r, [Fresh EXCEPT !.pc = "done", !.status = status])
  /\ permits' = permits + 1

Arrive(r) ==
  /\ At(r, "new")
  /\ \E images \in BOOLEAN, caller \in Callers, model \in Models \cup {"own"} :
       /\ images \/ model = "own"
       /\ IF permits = 0
          THEN Step(r, [Fresh EXCEPT !.pc = "done", !.status = "busy"]) /\ Held
          ELSE /\ Step(r, [Fresh EXCEPT !.pc = "authorize", !.image = images,
                             !.caller = caller, !.model = model])
               /\ permits' = permits - 1
  /\ RequestOnly

\* The capability comes from the master key; the fixed key counts only from a
\* loopback peer while custom authentication is disabled.
Authorized(caller) ==
  caller = "capability" \/ (caller = "managed_local" /\ routes.managed)

Authorize(r) ==
  /\ At(r, "authorize")
  /\ IF routes.locked THEN Refuse(r, "unavailable")
     ELSE IF ~Authorized(request[r].caller) THEN Refuse(r, "unauthorized")
     ELSE Step(r, [request[r] EXCEPT !.pc = "provider"]) /\ Held
  /\ RequestOnly

\* The provider and its encrypted credential are one query.
ReadProvider(r) ==
  /\ At(r, "provider")
  /\ LET p == IF request[r].image THEN routes.image ELSE routes.active IN
     IF p = Absent THEN Refuse(r, "unavailable")
     ELSE IF routes.locked THEN Refuse(r, "unavailable")
     ELSE /\ Step(r, [request[r] EXCEPT !.pc = "network", !.provider = p,
                        !.revision = stored[p].revision, !.secret = stored[p].revision,
                        !.oauth = stored[p].oauth, !.models = stored[p].models])
          /\ Held
  /\ RequestOnly

\* effective_network_proxy: the settings, and in another query the password.
ReadNetwork(r) ==
  /\ At(r, "network")
  /\ Step(r, [request[r] EXCEPT !.pc = "password", !.network = outgoing.network])
  /\ Held /\ RequestOnly

ReadPassword(r) ==
  /\ At(r, "password")
  /\ IF routes.locked THEN Refuse(r, "unavailable")
     ELSE /\ Step(r, [request[r] EXCEPT !.pc = "rewrite", !.password = outgoing.password])
          /\ Held
  /\ RequestOnly

\* rewrite_image_body: the requested model if the provider allows it, else the
\* preferred one; the body may also be too large or no JSON object.
Preferred(models) == IF models = {} THEN Absent ELSE CHOOSE m \in models : TRUE
Selected(q) == IF q.model \in q.models THEN q.model ELSE Preferred(q.models)

Rewrite(r) ==
  /\ At(r, "rewrite")
  /\ LET q == request[r] IN
     IF q.oauth THEN Refuse(r, "bad_gateway")
     ELSE IF ~q.image THEN Step(r, [q EXCEPT !.pc = "send"]) /\ Held
     ELSE \/ Refuse(r, "bad_request")
          \/ IF Selected(q) = Absent THEN Refuse(r, "unavailable")
             ELSE Step(r, [q EXCEPT !.pc = "send", !.model = Selected(q)]) /\ Held
  /\ RequestOnly

\* The network proxy client is built and the request sent, or neither works.
SendUpstream(r) ==
  /\ At(r, "send")
  /\ \/ Refuse(r, "bad_gateway")
     \/ Step(r, [request[r] EXCEPT !.pc = "stream", !.status = "sent"]) /\ Held
  /\ RequestOnly

\* The permit lives in the response body: its end, or its drop, returns it.
EndStream(r) ==
  /\ At(r, "stream")
  /\ Step(r, [request[r] EXCEPT !.pc = "done"]) /\ permits' = permits + 1
  /\ RequestOnly

---------------------------------------------------------------------------
(* Other handlers                                                          *)

Elsewhere == edits < MaxEdits /\ edits' = edits + 1 /\ UNCHANGED <<request, permits>>
SwitchRoute ==
  /\ Elsewhere
  /\ \E p \in Upstreams : routes' \in {[routes EXCEPT !.active = p], [routes EXCEPT !.image = p]}
  /\ UNCHANGED <<stored, outgoing>>
\* Row, credential and provider network proxy change in one transaction.
EditUpstream ==
  /\ Elsewhere
  /\ \E p \in Upstreams, models \in SUBSET Models :
       stored' = [stored EXCEPT ![p].revision = @ + 1, ![p].models = models]
  /\ UNCHANGED <<routes, outgoing>>
EditOutgoing ==
  /\ Elsewhere
  /\ outgoing' = [network |-> outgoing.network + 1, password |-> outgoing.password + 1]
  /\ UNCHANGED <<routes, stored>>

RequestSteps(r) ==
  Arrive(r) \/ Authorize(r) \/ ReadProvider(r) \/ ReadNetwork(r) \/ ReadPassword(r)
  \/ Rewrite(r) \/ SendUpstream(r) \/ EndStream(r)
RequestNext ==
  (\E r \in Requests : RequestSteps(r)) \/ SwitchRoute \/ EditUpstream \/ EditOutgoing

---------------------------------------------------------------------------
(* Properties                                                              *)

\* A permit is held by exactly the requests under way: every early return and
\* every end of a stream gives it back, so the proxy never starves.
PermitsAreReturned ==
  permits + Cardinality({r \in Requests : request[r].pc \notin {"new", "done"}}) = Permits

\* What leaves for an upstream carries the credential of that very revision of
\* the provider, was authorized, never is OAuth, and an image request names a
\* model of that revision, whatever other handlers switched or edited.
SentIsOneSnapshot ==
  \A r \in Requests : request[r].status = "sent" =>
    LET q == request[r] IN
    /\ q.secret = q.revision /\ ~q.oauth
    /\ q.caller \in {"capability", "managed_local"}
    /\ q.image => q.model \in q.models

\* The password a request offers to a network proxy is that proxy's own.
PasswordIsProxys ==
  \A r \in Requests : request[r].status = "sent" => request[r].password = request[r].network
=============================================================================
