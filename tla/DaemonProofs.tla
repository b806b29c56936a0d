----------------------------- MODULE DaemonProofs -----------------------------
(***************************************************************************)
(* Proofs about what hsind serves, composed as in MCDaemon: the requests   *)
(* that pass the proxy, the calls of an IPC session, the proxy's runtime   *)
(* and the providers.  Each part has an inductive invariant of its own,    *)
(* which the steps of the others leave alone.                              *)
(***************************************************************************)
EXTENDS MCDaemon, FiniteSetTheorems, TLAPS

-----------------------------------------------------------------------------
(* Proxied requests: what a request has read so far belongs together, and  *)
(* it is under way exactly while it holds a permit.                        *)

RequestPlaces == {"new", "authorize", "provider", "network", "password", "rewrite",
                  "send", "stream", "done"}
Refusals == {"busy", "unavailable", "unauthorized", "bad_gateway", "bad_request"}
RequestStates ==
  [pc : RequestPlaces, image : BOOLEAN, caller : Callers, provider : Upstreams \cup {Absent},
   revision : Nat, secret : Nat, oauth : BOOLEAN, models : SUBSET Models, network : Nat,
   password : Nat, model : Models \cup {"own"}, status : {"none", "sent"} \cup Refusals]
RequestTypes ==
  /\ routes \in [active : Upstreams, image : Upstreams \cup {Absent}, locked : BOOLEAN,
                 managed : BOOLEAN]
  /\ stored \in [Upstreams -> [revision : Nat, oauth : BOOLEAN, models : SUBSET Models]]
  /\ outgoing \in [network : Nat, password : Nat]
  /\ request \in [Requests -> RequestStates]
  /\ permits \in Nat /\ edits \in Nat

UnderWay(r) == request[r].pc \notin {"new", "done"}
Authorizes(q) == q.caller \in {"capability", "managed_local"}
ReadsOnce(q) == q.secret = q.revision
MaySend(q) == ~q.oauth /\ (q.image => q.model \in q.models)

RequestInvOf(q) ==
  /\ q.pc \notin {"stream", "done"} => q.status # "sent"
  /\ q.pc \in {"provider", "network", "password", "rewrite", "send", "stream"} => Authorizes(q)
  /\ q.pc \in {"network", "password", "rewrite", "send", "stream"} => ReadsOnce(q)
  /\ q.pc \in {"send", "stream"} => MaySend(q)
  /\ q.status = "sent" => Authorizes(q) /\ ReadsOnce(q) /\ MaySend(q)

RequestInv ==
  /\ RequestTypes /\ PermitsAreReturned
  /\ \A r \in Requests : RequestInvOf(request[r])

LEMMA RequestMoves ==
  ASSUME RequestInv, NEW r \in Requests, NEW q \in RequestStates, Step(r, q), RequestOnly,
         RequestInvOf(q),
         \/ permits' = permits /\ (UnderWay(r) <=> q.pc \notin {"new", "done"})
         \/ permits' = permits + 1 /\ UnderWay(r) /\ q.pc = "done"
         \/ permits' = permits - 1 /\ permits # 0 /\ ~UnderWay(r) /\ q.pc \notin {"new", "done"}
  PROVE  RequestInv'
<1> DEFINE U == {k \in Requests : request[k].pc \notin {"new", "done"}}
<1>1. IsFiniteSet(U) /\ Cardinality(U) \in Nat
  BY RequestAssumption, FS_Subset, FS_CardinalityType
<1>2. /\ request' = [request EXCEPT ![r] = q] /\ request' \in [Requests -> RequestStates]
      /\ request'[r] = q /\ \A k \in Requests \ {r} : request'[k] = request[k]
  BY DEF RequestInv, RequestTypes, Step
<1>3. permits' \in Nat
  BY DEF RequestInv, RequestTypes
<1>4. RequestTypes'
  BY <1>2, <1>3 DEF RequestInv, RequestTypes, RequestOnly
<1>5. PermitsAreReturned'
  <2>1. permits + Cardinality(U) = Permits
    BY DEF RequestInv, PermitsAreReturned
  <2>2. CASE permits' = permits /\ (UnderWay(r) <=> q.pc \notin {"new", "done"})
    <3>1. U' = U
      BY <1>2, <2>2 DEF UnderWay
    <3> QED
      BY <2>1, <2>2, <3>1 DEF PermitsAreReturned
  <2>3. CASE permits' = permits + 1 /\ UnderWay(r) /\ q.pc = "done"
    <3>1. U' = U \ {r} /\ r \in U
      BY <1>2, <2>3 DEF UnderWay
    <3>2. Cardinality(U') = Cardinality(U) - 1
      BY <1>1, <3>1, FS_RemoveElement
    <3> QED
      BY <1>1, <2>1, <2>3, <3>2, RequestAssumption DEF PermitsAreReturned, RequestInv, RequestTypes
  <2>4. CASE permits' = permits - 1 /\ permits # 0 /\ ~UnderWay(r) /\ q.pc \notin {"new", "done"}
    <3>1. U' = U \cup {r} /\ r \notin U
      BY <1>2, <2>4 DEF UnderWay
    <3>2. Cardinality(U') = Cardinality(U) + 1
      BY <1>1, <3>1, FS_AddElement
    <3> QED
      BY <1>1, <2>1, <2>4, <3>2, RequestAssumption DEF PermitsAreReturned, RequestInv, RequestTypes
  <2> QED
    BY <2>2, <2>3, <2>4
<1>6. ASSUME NEW k \in Requests PROVE RequestInvOf(request'[k])
  BY <1>2 DEF RequestInv
<1> QED
  BY <1>4, <1>5, <1>6 DEF RequestInv

LEMMA FreshIs == Fresh \in RequestStates /\ RequestInvOf(Fresh)
<1>1. Fresh \in RequestStates
  BY DEF Fresh, RequestStates, RequestPlaces, Callers, Unread, Refusals
<1> QED
  BY <1>1 DEF Fresh, RequestInvOf

LEMMA RefuseStep ==
  ASSUME RequestInv, NEW r \in Requests, NEW status \in Refusals,
         UnderWay(r), Refuse(r, status), RequestOnly
  PROVE  RequestInv'
<1> DEFINE q == [Fresh EXCEPT !.pc = "done", !.status = status]
<1>1. q \in RequestStates
  BY FreshIs DEF RequestStates, RequestPlaces
<1>2. q.pc = "done" /\ q.status = status
  BY FreshIs DEF RequestStates
<1>3. RequestInvOf(q)
  BY <1>2 DEF RequestInvOf, Refusals
<1> QED
  BY <1>1, <1>2, <1>3, RequestMoves DEF Refuse

LEMMA ArriveStep ==
  ASSUME RequestInv, NEW r \in Requests, Arrive(r)
  PROVE  RequestInv'
<1>1. PICK images \in BOOLEAN, who \in Callers, model \in Models \cup {"own"} :
        IF permits = 0
        THEN Step(r, [Fresh EXCEPT !.pc = "done", !.status = "busy"]) /\ Held
        ELSE /\ Step(r, [Fresh EXCEPT !.pc = "authorize", !.image = images,
                           !.caller = who, !.model = model])
             /\ permits' = permits - 1
  BY DEF Arrive
<1>2. CASE permits = 0
  <2> DEFINE q == [Fresh EXCEPT !.pc = "done", !.status = "busy"]
  <2>1. q \in RequestStates /\ q.pc = "done" /\ q.status = "busy"
    BY FreshIs DEF RequestStates, RequestPlaces, Refusals
  <2>2. RequestInvOf(q)
    BY <2>1 DEF RequestInvOf
  <2> QED
    BY <1>1, <1>2, <2>1, <2>2, RequestMoves DEF Arrive, At, Held, UnderWay
<1>3. CASE permits # 0
  <2> DEFINE q == [Fresh EXCEPT !.pc = "authorize", !.image = images,
                                !.caller = who, !.model = model]
  <2>1. q \in RequestStates
    BY FreshIs DEF RequestStates, RequestPlaces
  <2>2. q.pc = "authorize" /\ q.status = "none"
    BY FreshIs DEF RequestStates, Fresh
  <2>3. RequestInvOf(q)
    BY <2>2 DEF RequestInvOf
  <2> QED
    BY <1>1, <1>3, <2>1, <2>2, <2>3, RequestMoves DEF Arrive, At, UnderWay
<1> QED
  BY <1>2, <1>3

LEMMA AuthorizeStep ==
  ASSUME RequestInv, NEW r \in Requests, Authorize(r)
  PROVE  RequestInv'
<1> DEFINE q == [request[r] EXCEPT !.pc = "provider"]
<1>0. request[r] \in RequestStates /\ RequestInvOf(request[r]) /\ request[r].pc = "authorize"
  BY DEF RequestInv, RequestTypes, Authorize, At
<1>1. q \in RequestStates /\ q.pc = "provider" /\ q.status = request[r].status
      /\ q.caller = request[r].caller
  BY <1>0 DEF RequestStates, RequestPlaces
<1>2. CASE Authorized(request[r].caller) /\ Step(r, q) /\ Held
  <2>1. RequestInvOf(q)
    BY <1>0, <1>1, <1>2 DEF RequestInvOf, Authorizes, Authorized
  <2> QED
    BY <1>0, <1>1, <1>2, <2>1, RequestMoves DEF Authorize, Held, UnderWay
<1>3. CASE Refuse(r, "unavailable") \/ Refuse(r, "unauthorized")
  BY <1>0, <1>3, RefuseStep DEF Refusals, UnderWay, Authorize
<1> QED
  BY <1>2, <1>3 DEF Authorize

LEMMA ReadProviderStep ==
  ASSUME RequestInv, NEW r \in Requests, ReadProvider(r)
  PROVE  RequestInv'
<1> DEFINE p == IF request[r].image THEN routes.image ELSE routes.active
           q == [request[r] EXCEPT !.pc = "network", !.provider = p,
                   !.revision = stored[p].revision, !.secret = stored[p].revision,
                   !.oauth = stored[p].oauth, !.models = stored[p].models]
<1>0. request[r] \in RequestStates /\ RequestInvOf(request[r]) /\ request[r].pc = "provider"
  BY DEF RequestInv, RequestTypes, ReadProvider, At
<1>1. CASE p # Absent /\ Step(r, q) /\ Held
  <2>1. p \in Upstreams
    BY <1>1 DEF RequestInv, RequestTypes
  <2>2. /\ stored[p].revision \in Nat /\ stored[p].oauth \in BOOLEAN
        /\ stored[p].models \in SUBSET Models
    BY <2>1 DEF RequestInv, RequestTypes
  <2> HIDE DEF p
  <2>3. q \in RequestStates
    BY <1>0, <2>1, <2>2 DEF RequestStates, RequestPlaces
  <2>4. /\ q.pc = "network" /\ q.status = request[r].status /\ q.caller = request[r].caller
        /\ q.secret = q.revision
    BY <1>0 DEF RequestStates
  <2>5. RequestInvOf(q)
    BY <1>0, <2>4 DEF RequestInvOf, Authorizes, ReadsOnce
  <2> QED
    BY <1>0, <1>1, <2>3, <2>4, <2>5, RequestMoves DEF ReadProvider, Held, UnderWay
<1>2. CASE Refuse(r, "unavailable")
  BY <1>0, <1>2, RefuseStep DEF Refusals, UnderWay, ReadProvider
<1> QED
  BY <1>1, <1>2 DEF ReadProvider

LEMMA ReadNetworkStep ==
  ASSUME RequestInv, NEW r \in Requests, ReadNetwork(r) \/ ReadPassword(r)
  PROVE  RequestInv'
<1>0. request[r] \in RequestStates /\ RequestInvOf(request[r])
      /\ request[r].pc \in {"network", "password"}
  BY DEF RequestInv, RequestTypes, ReadNetwork, ReadPassword, At
<1>1. CASE \E pc \in {"password", "rewrite"}, n, m \in Nat :
             Step(r, [request[r] EXCEPT !.pc = pc, !.network = n, !.password = m]) /\ Held
  <2>1. PICK pc \in {"password", "rewrite"}, n \in Nat, m \in Nat :
          Step(r, [request[r] EXCEPT !.pc = pc, !.network = n, !.password = m]) /\ Held
    BY <1>1
  <2> DEFINE q == [request[r] EXCEPT !.pc = pc, !.network = n, !.password = m]
  <2>2. q \in RequestStates
    BY <1>0 DEF RequestStates, RequestPlaces
  <2>3. /\ q.pc = pc /\ q.status = request[r].status /\ q.caller = request[r].caller
        /\ q.secret = request[r].secret /\ q.revision = request[r].revision
    BY <1>0 DEF RequestStates
  <2>4. RequestInvOf(q)
    BY <1>0, <2>3 DEF RequestInvOf, Authorizes, ReadsOnce
  <2> QED
    BY <1>0, <2>1, <2>2, <2>3, <2>4, RequestMoves DEF ReadNetwork, ReadPassword, Held, UnderWay
<1>2. CASE Refuse(r, "unavailable")
  BY <1>0, <1>2, RefuseStep DEF Refusals, UnderWay, ReadNetwork, ReadPassword
<1>3. outgoing.network \in Nat /\ outgoing.password \in Nat
      /\ request[r].network \in Nat /\ request[r].password \in Nat
  BY <1>0 DEF RequestInv, RequestTypes, RequestStates
<1>4. /\ [request[r] EXCEPT !.pc = "password", !.network = outgoing.network]
         = [request[r] EXCEPT !.pc = "password", !.network = outgoing.network,
                              !.password = request[r].password]
      /\ [request[r] EXCEPT !.pc = "rewrite", !.password = outgoing.password]
         = [request[r] EXCEPT !.pc = "rewrite", !.network = request[r].network,
                              !.password = outgoing.password]
  BY <1>0 DEF RequestStates
<1> QED
  BY <1>1, <1>2, <1>3, <1>4 DEF ReadNetwork, ReadPassword

LEMMA RewriteStep ==
  ASSUME RequestInv, NEW r \in Requests, Rewrite(r)
  PROVE  RequestInv'
<1> DEFINE q == request[r]
<1>0. q \in RequestStates /\ RequestInvOf(q) /\ q.pc = "rewrite"
  BY DEF RequestInv, RequestTypes, Rewrite, At
<1>1. CASE ~q.oauth /\ ~q.image /\ Step(r, [q EXCEPT !.pc = "send"]) /\ Held
  <2> DEFINE n == [q EXCEPT !.pc = "send"]
  <2>1. n \in RequestStates
    BY <1>0 DEF RequestStates, RequestPlaces
  <2>2. /\ n.pc = "send" /\ n.status = q.status /\ n.caller = q.caller /\ n.oauth = q.oauth
        /\ n.secret = q.secret /\ n.revision = q.revision /\ n.image = q.image
    BY <1>0 DEF RequestStates
  <2>3. RequestInvOf(n)
    BY <1>0, <1>1, <2>2 DEF RequestInvOf, Authorizes, ReadsOnce, MaySend
  <2> QED
    BY <1>0, <1>1, <2>1, <2>2, <2>3, RequestMoves DEF Rewrite, Held, UnderWay
<1>2. CASE /\ ~q.oauth /\ Selected(q) # Absent
           /\ Step(r, [q EXCEPT !.pc = "send", !.model = Selected(q)]) /\ Held
  <2> DEFINE n == [q EXCEPT !.pc = "send", !.model = Selected(q)]
  <2>0. Selected(q) \in q.models /\ q.models \in SUBSET Models
    BY <1>0, <1>2 DEF Selected, Preferred, RequestStates
  <2>1. n \in RequestStates
    BY <1>0, <2>0 DEF RequestStates, RequestPlaces
  <2>2. /\ n.pc = "send" /\ n.status = q.status /\ n.caller = q.caller /\ n.oauth = q.oauth
        /\ n.secret = q.secret /\ n.revision = q.revision /\ n.models = q.models
        /\ n.model = Selected(q)
    BY <1>0 DEF RequestStates
  <2>3. RequestInvOf(n)
    BY <1>0, <1>2, <2>0, <2>2 DEF RequestInvOf, Authorizes, ReadsOnce, MaySend
  <2> QED
    BY <1>0, <1>2, <2>1, <2>2, <2>3, RequestMoves DEF Rewrite, Held, UnderWay
<1>3. CASE Refuse(r, "bad_gateway") \/ Refuse(r, "bad_request") \/ Refuse(r, "unavailable")
  BY <1>0, <1>3, RefuseStep DEF Refusals, UnderWay, Rewrite
<1> QED
  BY <1>1, <1>2, <1>3 DEF Rewrite

LEMMA SendStep ==
  ASSUME RequestInv, NEW r \in Requests, SendUpstream(r) \/ EndStream(r)
  PROVE  RequestInv'
<1> DEFINE q == request[r]
<1>0. q \in RequestStates /\ RequestInvOf(q) /\ q.pc \in {"send", "stream"}
  BY DEF RequestInv, RequestTypes, SendUpstream, EndStream, At
<1>1. ASSUME NEW pc \in {"stream", "done"}, NEW status \in {q.status, "sent"}
      PROVE  LET n == [q EXCEPT !.pc = pc, !.status = status] IN
             n \in RequestStates /\ n.pc = pc /\ RequestInvOf(n)
  <2> DEFINE n == [q EXCEPT !.pc = pc, !.status = status]
  <2>1. n \in RequestStates
    BY <1>0 DEF RequestStates, RequestPlaces
  <2>2. /\ n.pc = pc /\ n.caller = q.caller /\ n.oauth = q.oauth /\ n.image = q.image
        /\ n.secret = q.secret /\ n.revision = q.revision /\ n.models = q.models
        /\ n.model = q.model
    BY <1>0 DEF RequestStates
  <2>3. RequestInvOf(n)
    BY <1>0, <2>2 DEF RequestInvOf, Authorizes, ReadsOnce, MaySend
  <2> QED
    BY <2>1, <2>2, <2>3
<1>2. CASE SendUpstream(r) /\ Step(r, [q EXCEPT !.pc = "stream", !.status = "sent"]) /\ Held
  BY <1>0, <1>1, <1>2, RequestMoves DEF SendUpstream, Held, UnderWay, At
<1>3. CASE SendUpstream(r) /\ Refuse(r, "bad_gateway")
  BY <1>0, <1>3, RefuseStep DEF Refusals, UnderWay, SendUpstream
<1>4. CASE EndStream(r)
  <2>1. [q EXCEPT !.pc = "done"] = [q EXCEPT !.pc = "done", !.status = q.status]
    BY <1>0 DEF RequestStates
  <2> QED
    BY <1>0, <1>1, <1>4, <2>1, RequestMoves DEF EndStream, UnderWay, At
<1> QED
  BY <1>2, <1>3, <1>4 DEF SendUpstream

\* What other handlers change is not what a request has read.
LEMMA ElsewhereStep ==
  ASSUME RequestInv, SwitchRoute \/ EditUpstream \/ EditOutgoing
  PROVE  RequestInv'
<1>1. edits' \in Nat /\ request' = request /\ permits' = permits
  BY DEF RequestInv, RequestTypes, SwitchRoute, EditUpstream, EditOutgoing, Elsewhere
<1>2. routes' \in [active : Upstreams, image : Upstreams \cup {Absent}, locked : BOOLEAN,
                   managed : BOOLEAN]
  BY DEF RequestInv, RequestTypes, SwitchRoute, EditUpstream, EditOutgoing
<1>3. outgoing' \in [network : Nat, password : Nat]
  BY DEF RequestInv, RequestTypes, SwitchRoute, EditUpstream, EditOutgoing
<1>4. stored' \in [Upstreams -> [revision : Nat, oauth : BOOLEAN, models : SUBSET Models]]
  <2>1. CASE EditUpstream
    <3>1. PICK p \in Upstreams, models \in SUBSET Models :
            stored' = [stored EXCEPT ![p].revision = @ + 1, ![p].models = models]
      BY <2>1 DEF EditUpstream
    <3>2. stored' = [stored EXCEPT ![p] = [stored[p] EXCEPT
                       !.revision = stored[p].revision + 1, !.models = models]]
      BY <3>1 DEF RequestInv, RequestTypes
    <3>3. [stored[p] EXCEPT !.revision = stored[p].revision + 1, !.models = models]
            \in [revision : Nat, oauth : BOOLEAN, models : SUBSET Models]
      <4>1. stored[p] \in [revision : Nat, oauth : BOOLEAN, models : SUBSET Models]
        BY DEF RequestInv, RequestTypes
      <4>2. stored[p].revision + 1 \in Nat /\ models \in SUBSET Models
        BY <4>1
      <4> QED
        BY <4>1, <4>2
    <3> QED
      BY <3>2, <3>3 DEF RequestInv, RequestTypes
  <2>2. CASE ~EditUpstream
    BY <2>2 DEF RequestInv, RequestTypes, SwitchRoute, EditOutgoing
  <2> QED
    BY <2>1, <2>2
<1> QED
  BY <1>1, <1>2, <1>3, <1>4 DEF RequestInv, RequestTypes, PermitsAreReturned

LEMMA RequestInit0 == RequestInit => RequestInv
<1> SUFFICES ASSUME RequestInit PROVE RequestInv
  OBVIOUS
<1>1. RequestTypes
  BY FreshIs, RequestAssumption DEF RequestInit, RequestTypes, Models
<1>2. {r \in Requests : request[r].pc \notin {"new", "done"}} = {}
  BY DEF RequestInit, Fresh
<1>3. PermitsAreReturned
  BY <1>2, FS_EmptySet, RequestAssumption DEF RequestInit, PermitsAreReturned
<1> QED
  BY <1>1, <1>3, FreshIs DEF RequestInit, RequestInv

LEMMA RequestNextStep == RequestInv /\ [RequestNext]_requestVars => RequestInv'
<1>1. RequestInv /\ UNCHANGED requestVars => RequestInv'
  BY DEF requestVars, RequestInv, RequestTypes, PermitsAreReturned
<1>2. ASSUME RequestInv, NEW r \in Requests, RequestSteps(r) PROVE RequestInv'
  BY <1>2, ArriveStep, AuthorizeStep, ReadProviderStep, ReadNetworkStep, RewriteStep, SendStep
     DEF RequestSteps
<1> QED
  BY <1>1, <1>2, ElsewhereStep DEF RequestNext

LEMMA RequestSafe == RequestInv => PermitsAreReturned /\ SentIsOneSnapshot
BY DEF RequestInv, RequestInvOf, Authorizes, ReadsOnce, MaySend, SentIsOneSnapshot

-----------------------------------------------------------------------------
(* The session: requests and answers pass in order, so the answer to the   *)
(* call in flight leaves no request behind it that could change the link.  *)

Kinds == {"hello", "release_hello", "release", "other"}
Frames == [id : Nat, kind : Kinds, code : Nat, handoff : BOOLEAN]
Answers == [id : Nat, to : Nat, ok : BOOLEAN, code : Nat, handoff : BOOLEAN,
            identified : BOOLEAN, refusedBy : Nat]
Peers == [next : Nat, ready : BOOLEAN, releaseOnly : BOOLEAN, torn : BOOLEAN,
          call : [id : Nat, kind : Kinds \cup {"none"}], retried : BOOLEAN]
IpcTypes ==
  /\ peer \in Peers
  /\ link \in [code : OwnerCodes, open : BOOLEAN, hello : BOOLEAN, releaseOnly : BOOLEAN]
  /\ wire \in [up : Seq(Frames), down : Seq(Answers)]
  /\ seen \in [dispatched : SUBSET Kinds, returned : SUBSET (Nat \X Nat)]

InFlight == peer.call # NoCall

\* Requests are in the order of their identifiers, behind those that were answered.
WireInOrder ==
  /\ \A i, j \in DOMAIN wire.up : i < j => wire.up[i].id < wire.up[j].id
  /\ \A i \in DOMAIN wire.up : wire.up[i].id < peer.next
  /\ wire.up # <<>> => wire.up[Len(wire.up)].id = peer.next - 1
  /\ \A i \in DOMAIN wire.up, j \in DOMAIN wire.down : wire.down[j].id < wire.up[i].id
  /\ \A j \in DOMAIN wire.down : wire.down[j].id < peer.next
  /\ InFlight => peer.call.id = peer.next - 1

\* What a frame says fits its kind, and the call it belongs to.
FramesFit ==
  /\ \A i \in DOMAIN wire.up :
       LET u == wire.up[i] IN
       /\ u.kind = "hello" => u.code = Current /\ ~u.handoff
       /\ u.kind = "release_hello" => u.handoff
       /\ InFlight /\ u.id = peer.call.id => u.kind = peer.call.kind
       /\ u.kind = "other" => link.code = Current
  /\ \A j \in DOMAIN wire.down : wire.down[j].to = wire.down[j].id
                                 /\ wire.down[j].code = link.code

\* A hello that was granted has left its mark on the link.
GrantIsLinked ==
  \A j \in DOMAIN wire.down :
    InFlight /\ wire.down[j].id = peer.call.id /\ wire.down[j].ok =>
      /\ peer.call.kind \in {"hello", "release_hello"} => link.hello
      /\ peer.call.kind = "hello" => ~link.releaseOnly

ReadyIsLinked ==
  peer.ready =>
    /\ link.hello
    /\ ~peer.releaseOnly =>
         /\ ~link.releaseOnly /\ link.code = Current
         /\ \A i \in DOMAIN wire.up : wire.up[i].kind # "release_hello"

\* The hello that asks for a release takes back what an earlier one had permitted.
ReleaseRestricts ==
  InFlight /\ peer.call.kind = "release_hello" => ~peer.ready /\ peer.releaseOnly

IpcInv ==
  /\ IpcTypes /\ WireInOrder /\ FramesFit /\ GrantIsLinked /\ ReadyIsLinked /\ ReleaseRestricts
  /\ OwnAnswer /\ MismatchOnlyReleases

LEMMA ConnectedIs ==
  ASSUME NEW code \in OwnerCodes,
         peer' = [next |-> 1, ready |-> FALSE, releaseOnly |-> FALSE, torn |-> FALSE,
                  call |-> NoCall, retried |-> FALSE],
         link' = [code |-> code, open |-> TRUE, hello |-> FALSE, releaseOnly |-> FALSE],
         wire' = [up |-> <<>>, down |-> <<>>],
         seen' = [dispatched |-> {}, returned |-> {}]
  PROVE  IpcInv'
<1>1. IpcTypes'
  <2>1. peer' \in Peers
    BY DEF Peers, NoCall, Kinds
  <2>2. /\ link' \in [code : OwnerCodes, open : BOOLEAN, hello : BOOLEAN, releaseOnly : BOOLEAN]
        /\ wire' \in [up : Seq(Frames), down : Seq(Answers)]
        /\ seen' \in [dispatched : SUBSET Kinds, returned : SUBSET (Nat \X Nat)]
    OBVIOUS
  <2> QED
    BY <2>1, <2>2 DEF IpcTypes
<1>2. WireInOrder' /\ FramesFit' /\ GrantIsLinked' /\ ReadyIsLinked' /\ ReleaseRestricts'
  BY DEF WireInOrder, FramesFit, GrantIsLinked, ReadyIsLinked, ReleaseRestricts, InFlight
<1>3. OwnAnswer' /\ MismatchOnlyReleases'
  BY DEF OwnAnswer, MismatchOnlyReleases
<1> QED
  BY <1>1, <1>2, <1>3 DEF IpcInv

\* What is on its way down: some of what was there, in some order.
DownKept == \A j \in DOMAIN wire'.down : \E k \in DOMAIN wire.down : wire'.down[j] = wire.down[k]

\* A new frame is the last on its way, and belongs to the call in flight.
LEMMA FrameIsLast ==
  ASSUME IpcInv, NEW u \in Frames, u.id = peer.next,
         u.kind = "hello" => u.code = Current /\ ~u.handoff,
         u.kind = "release_hello" => u.handoff /\ ~peer'.ready /\ peer'.releaseOnly,
         u.kind = "other" => link.code = Current,
         peer' \in Peers, peer'.next = peer.next + 1, peer'.call = [id |-> peer.next, kind |-> u.kind],
         peer'.ready => peer.ready /\ peer'.releaseOnly = peer.releaseOnly,
         wire' \in [up : Seq(Frames), down : Seq(Answers)],
         wire'.up = Append(wire.up, u), DownKept, link' = link,
         seen' \in [dispatched : SUBSET Kinds, returned : SUBSET (Nat \X Nat)],
         seen'.dispatched = seen.dispatched, OwnAnswer'
  PROVE  IpcInv'
<1> DEFINE n == Len(wire.up)
<1>0. /\ peer \in Peers /\ peer.next \in Nat /\ wire.up \in Seq(Frames) /\ wire.down \in Seq(Answers)
      /\ n \in Nat
  BY DEF Peers, IpcInv, IpcTypes
<1>3. /\ Len(wire'.up) = n + 1 /\ wire'.up[n + 1] = u /\ DOMAIN wire'.up = 1 .. n + 1
      /\ \A i \in 1 .. n : wire'.up[i] = wire.up[i] /\ wire.up[i] \in Frames
      /\ DOMAIN wire.up = 1 .. n
      /\ \A j \in DOMAIN wire.down : wire.down[j] \in Answers
  BY <1>0
<1>4. IpcTypes'
  BY DEF IpcInv, IpcTypes
<1>5. WireInOrder'
  <2>1. \A i \in 1 .. n : wire.up[i].id < peer.next /\ wire.up[i].id \in Nat
    BY <1>3 DEF IpcInv, WireInOrder, Frames
  <2>2. \A j \in DOMAIN wire'.down : wire'.down[j].id < peer.next /\ wire'.down[j].id \in Nat
    BY <1>3 DEF IpcInv, WireInOrder, Answers, DownKept
  <2>3. \A i, j \in DOMAIN wire'.up : i < j => wire'.up[i].id < wire'.up[j].id
    <3> SUFFICES ASSUME NEW i \in DOMAIN wire'.up, NEW j \in DOMAIN wire'.up, i < j
                 PROVE  wire'.up[i].id < wire'.up[j].id
      OBVIOUS
    <3>1. CASE j = n + 1
      BY <1>0, <1>3, <2>1, <3>1
    <3>2. CASE j # n + 1
      <4>1. i \in 1 .. n /\ j \in 1 .. n
        BY <1>0, <1>3, <3>2
      <4> QED
        BY <1>3, <4>1 DEF IpcInv, WireInOrder
    <3> QED
      BY <3>1, <3>2
  <2>4. \A i \in DOMAIN wire'.up : wire'.up[i].id < peer'.next
    <3> SUFFICES ASSUME NEW i \in DOMAIN wire'.up PROVE wire'.up[i].id < peer'.next
      OBVIOUS
    <3>1. CASE i = n + 1
      BY <1>0, <1>3, <3>1
    <3>2. CASE i \in 1 .. n
      BY <1>0, <1>3, <2>1, <3>2
    <3> QED
      BY <1>0, <1>3, <3>1, <3>2
  <2>5. \A i \in DOMAIN wire'.up, j \in DOMAIN wire'.down : wire'.down[j].id < wire'.up[i].id
    <3> SUFFICES ASSUME NEW i \in DOMAIN wire'.up, NEW j \in DOMAIN wire'.down
                 PROVE  wire'.down[j].id < wire'.up[i].id
      OBVIOUS
    <3>1. CASE i = n + 1
      BY <1>3, <2>2, <3>1
    <3>2. CASE i \in 1 .. n
      BY <1>3, <3>2 DEF IpcInv, WireInOrder, DownKept
    <3> QED
      BY <1>0, <1>3, <3>1, <3>2
  <2>6. \A j \in DOMAIN wire'.down : wire'.down[j].id < peer'.next
    BY <1>0, <2>2
  <2>7. wire'.up[Len(wire'.up)].id = peer'.next - 1 /\ peer'.call.id = peer'.next - 1
    BY <1>0, <1>3
  <2> QED
    BY <2>3, <2>4, <2>5, <2>6, <2>7 DEF WireInOrder
<1>6. FramesFit'
  <2>1. ASSUME NEW i \in DOMAIN wire'.up
        PROVE  LET v == wire'.up[i] IN
               /\ v.kind = "hello" => v.code = Current /\ ~v.handoff
               /\ v.kind = "release_hello" => v.handoff
               /\ InFlight' /\ v.id = peer'.call.id => v.kind = peer'.call.kind
               /\ v.kind = "other" => link'.code = Current
    <3>1. CASE i = n + 1
      BY <1>3, <3>1
    <3>2. CASE i # n + 1
      <4>1. i \in DOMAIN wire.up /\ wire'.up[i] = wire.up[i] /\ wire.up[i].id # peer'.call.id
        <5>1. i \in 1 .. n
          BY <1>0, <1>3, <3>2
        <5>2. wire.up[i].id < peer.next /\ wire.up[i].id \in Nat
          BY <1>3, <5>1 DEF IpcInv, WireInOrder, Frames
        <5> QED
          BY <1>0, <1>3, <5>1, <5>2
      <4> QED
        BY <4>1 DEF IpcInv, FramesFit
    <3> QED
      BY <3>1, <3>2
  <2>2. \A j \in DOMAIN wire'.down : wire'.down[j].to = wire'.down[j].id
                                     /\ wire'.down[j].code = link'.code
    BY DEF IpcInv, FramesFit, DownKept
  <2> QED
    BY <2>1, <2>2 DEF FramesFit
<1>7. GrantIsLinked'
  <2>1. \A j \in DOMAIN wire'.down : wire'.down[j].id # peer'.call.id
    BY SMTT(20), <1>0, <1>3 DEF IpcInv, WireInOrder, Answers, DownKept
  <2> QED
    BY <2>1 DEF GrantIsLinked
<1>8. ReadyIsLinked'
  <2> SUFFICES ASSUME peer'.ready
               PROVE  /\ link'.hello
                      /\ ~peer'.releaseOnly =>
                           /\ ~link'.releaseOnly /\ link'.code = Current
                           /\ \A i \in DOMAIN wire'.up : wire'.up[i].kind # "release_hello"
    BY DEF ReadyIsLinked
  <2> QED
    BY <1>0, <1>3 DEF IpcInv, ReadyIsLinked
<1>9. ReleaseRestricts'
  BY DEF ReleaseRestricts
<1> QED
  BY <1>4, <1>5, <1>6, <1>7, <1>8, <1>9 DEF IpcInv, OwnAnswer, MismatchOnlyReleases

\* A call is sent when none is in flight.
LEMMA SendFrameStep ==
  ASSUME IpcInv, NEW p \in Peers, p.next = peer.next, p.call = peer.call,
         p.ready => peer.ready /\ p.releaseOnly = peer.releaseOnly,
         NEW ask \in Kinds, NEW code \in Nat, NEW handoff \in BOOLEAN,
         SendFrame(p, ask, code, handoff),
         ask = "hello" => code = Current /\ ~handoff,
         ask = "release_hello" => handoff /\ ~p.ready /\ p.releaseOnly,
         ask = "other" => link.code = Current
  PROVE  IpcInv'
<1> DEFINE u == Request(p.next, ask, code, handoff)
           c == [id |-> peer.next, kind |-> ask]
<1>1. /\ u \in Frames /\ u.id = peer.next /\ u.kind = ask /\ u.code = code /\ u.handoff = handoff
      /\ peer.next \in Nat /\ wire.up \in Seq(Frames) /\ wire.down \in Seq(Answers)
  BY DEF Request, Frames, Peers, IpcInv, IpcTypes
<1>2. /\ peer' = [p EXCEPT !.call = c, !.next = peer.next + 1]
      /\ c \in [id : Nat, kind : Kinds \cup {"none"}] /\ peer.next + 1 \in Nat
  BY <1>1 DEF SendFrame, Peers
<1>3. wire' = [wire EXCEPT !.up = Append(wire.up, u)] /\ link' = link /\ seen' = seen
  BY DEF SendFrame, IpcInv, IpcTypes
<1>4. Append(wire.up, u) \in Seq(Frames)
  BY <1>1
<1> HIDE DEF c, u
<1>5. /\ peer' \in Peers /\ peer'.call = c /\ peer'.next = peer.next + 1
      /\ peer'.ready = p.ready /\ peer'.releaseOnly = p.releaseOnly
  BY <1>2 DEF Peers
<1>6. /\ wire'.up = Append(wire.up, u) /\ wire'.down = wire.down
      /\ wire' \in [up : Seq(Frames), down : Seq(Answers)]
  BY <1>1, <1>3, <1>4 DEF IpcInv, IpcTypes
<1>7. OwnAnswer' /\ DownKept /\ seen' \in [dispatched : SUBSET Kinds, returned : SUBSET (Nat \X Nat)]
  BY <1>3, <1>6 DEF OwnAnswer, IpcInv, IpcTypes, DownKept
<1> QED
  BY <1>1, <1>3, <1>5, <1>6, <1>7, FrameIsLast DEF c

LEMMA ClientSends ==
  ASSUME IpcInv, Hello \/ HelloForRelease \/ \E ask \in {"release", "other"} : Call(ask)
  PROVE  IpcInv'
<1>0. peer \in Peers
  BY DEF IpcInv, IpcTypes
<1>1. CASE Hello
  BY <1>0, <1>1, SendFrameStep DEF Hello, Kinds, Current
<1>2. CASE HelloForRelease
  <2> DEFINE p == [peer EXCEPT !.ready = FALSE, !.releaseOnly = TRUE, !.retried = FALSE]
  <2>1. p \in Peers /\ p.next = peer.next /\ p.call = peer.call /\ ~p.ready /\ p.releaseOnly
    BY <1>0 DEF Peers
  <2> HIDE DEF p
  <2>2. SendFrame(p, "release_hello", Current, TRUE)
    BY <1>2 DEF HelloForRelease, p
  <2> QED
    BY <2>1, <2>2, SendFrameStep DEF Kinds, Current
<1>3. ASSUME NEW ask \in {"release", "other"}, Call(ask) PROVE IpcInv'
  <2>1. ask = "other" => link.code = Current
    BY <1>3 DEF Call, IpcInv, ReadyIsLinked
  <2> QED
    BY <1>0, <1>3, <2>1, SendFrameStep DEF Call, Kinds, Current
<1> QED
  BY <1>1, <1>2, <1>3

\* A call ends: with its answer, with another's, or without one.
LEMMA CallEnds ==
  ASSUME IpcInv, peer' \in Peers, peer'.next = peer.next, peer'.call = NoCall,
         wire' \in [up : Seq(Frames), down : Seq(Answers)], wire'.up = wire.up, DownKept,
         link' = link, seen' \in [dispatched : SUBSET Kinds, returned : SUBSET (Nat \X Nat)],
         seen'.dispatched = seen.dispatched, OwnAnswer',
         \/ peer'.ready => peer.ready /\ peer'.releaseOnly = peer.releaseOnly
         \/ link.hello /\ peer'.releaseOnly
         \/ link.hello /\ ~link.releaseOnly /\ link.code = Current /\ wire.up = <<>>
  PROVE  IpcInv'
<1>1. IpcTypes'
  BY DEF IpcInv, IpcTypes
<1>2. WireInOrder'
  BY DEF IpcInv, WireInOrder, InFlight, DownKept
<1>3. FramesFit'
  BY DEF IpcInv, FramesFit, InFlight, DownKept
<1>4. GrantIsLinked'
  BY DEF GrantIsLinked, InFlight
<1>5. ReadyIsLinked'
  BY DEF IpcInv, ReadyIsLinked
<1>6. ReleaseRestricts'
  BY DEF ReleaseRestricts, InFlight
<1> QED
  BY <1>1, <1>2, <1>3, <1>4, <1>5, <1>6 DEF IpcInv, MismatchOnlyReleases

LEMMA TimeOutStep == IpcInv /\ TimeOut => IpcInv'
<1> SUFFICES ASSUME IpcInv, TimeOut PROVE IpcInv'
  OBVIOUS
<1>1. PICK torn \in {peer.torn, TRUE} : peer' = [peer EXCEPT !.call = NoCall, !.torn = torn]
  BY DEF TimeOut
<1>2. peer \in Peers /\ NoCall \in [id : Nat, kind : Kinds \cup {"none"}]
  BY DEF IpcInv, IpcTypes, NoCall
<1>3. /\ peer' \in Peers /\ peer'.next = peer.next /\ peer'.call = NoCall
      /\ peer'.ready = peer.ready /\ peer'.releaseOnly = peer.releaseOnly
  BY <1>1, <1>2 DEF Peers
<1>4. DownKept /\ OwnAnswer' /\ wire' = wire /\ seen' = seen /\ link' = link
  BY DEF TimeOut, DownKept, OwnAnswer, IpcInv
<1> QED
  BY <1>3, <1>4, CallEnds DEF IpcInv, IpcTypes

LEMMA ReceiveStep == IpcInv /\ Receive => IpcInv'
<1> SUFFICES ASSUME IpcInv, Receive PROVE IpcInv'
  OBVIOUS
<1> DEFINE mine == Answer.id = peer.call.id /\ ~peer.torn
           ask == peer.call.kind
<1>0. /\ peer \in Peers /\ wire \in [up : Seq(Frames), down : Seq(Answers)]
      /\ wire.down \in Seq(Answers) /\ wire.down # <<>> /\ InFlight
      /\ Answer \in Answers /\ Answer = wire.down[1] /\ 1 \in DOMAIN wire.down
      /\ link' = link /\ link.code \in Nat
      /\ seen \in [dispatched : SUBSET Kinds, returned : SUBSET (Nat \X Nat)]
  BY IpcSessionAssumption DEF IpcInv, IpcTypes, Receive, Arrived, InFlight, Answer
<1>1. Tail(wire.down) \in Seq(Answers)
      /\ \A j \in DOMAIN Tail(wire.down) : \E k \in DOMAIN wire.down : Tail(wire.down)[j] = wire.down[k]
  <2>1. ASSUME NEW j \in DOMAIN Tail(wire.down)
        PROVE  j + 1 \in DOMAIN wire.down /\ Tail(wire.down)[j] = wire.down[j + 1]
    BY <1>0, <2>1
  <2> QED
    BY <1>0, <2>1
\* What is returned was asked.
<1>2. /\ seen' \in [dispatched : SUBSET Kinds, returned : SUBSET (Nat \X Nat)]
      /\ seen'.dispatched = seen.dispatched /\ OwnAnswer'
  <2> DEFINE pair == <<peer.call.id, Answer.to>>
  <2>1. CASE mine /\ Answer.ok
    <3>1. seen' = [seen EXCEPT !.returned = seen.returned \cup {pair}]
      BY <1>0, <2>1 DEF Receive
    <3>2. pair \in Nat \X Nat
      BY <1>0 DEF Peers, Answers
    <3>3. pair[1] = pair[2]
      BY <1>0, <2>1 DEF IpcInv, FramesFit
    <3> HIDE DEF pair
    <3>4. /\ seen' \in [dispatched : SUBSET Kinds, returned : SUBSET (Nat \X Nat)]
          /\ seen'.dispatched = seen.dispatched /\ seen'.returned = seen.returned \cup {pair}
      BY <1>0, <3>1, <3>2
    <3> QED
      BY <3>3, <3>4 DEF IpcInv, OwnAnswer
  <2>2. CASE ~(mine /\ Answer.ok)
    BY <1>0, <2>2 DEF Receive, IpcInv, OwnAnswer
  <2> QED
    BY <2>1, <2>2
\* When its own answer arrives, no request of this client is left behind it.
<1>3. ASSUME mine
      PROVE  /\ wire.up = <<>> /\ Answer.code = link.code
             /\ Answer.ok /\ ask \in {"hello", "release_hello"} => link.hello
             /\ Answer.ok /\ ask = "hello" => ~link.releaseOnly
  <2>1. Answer.code = link.code
    BY <1>0 DEF IpcInv, FramesFit
  <2>2. wire.up = <<>>
    <3> SUFFICES ASSUME wire.up # <<>> PROVE FALSE
      OBVIOUS
    <3>1. Len(wire.up) \in DOMAIN wire.up /\ wire.up[Len(wire.up)] \in Frames
      BY <1>0
    <3>2. /\ wire.up[Len(wire.up)].id = peer.next - 1 /\ peer.call.id = peer.next - 1
          /\ wire.down[1].id < wire.up[Len(wire.up)].id
      BY <1>0, <3>1 DEF IpcInv, WireInOrder
    <3> QED
      BY <1>0, <1>3, <3>1, <3>2 DEF Frames, Answers
  <2> QED
    BY <1>0, <1>3, <2>1, <2>2 DEF IpcInv, GrantIsLinked
<1>4. ASSUME NEW p \in Peers, p.next = peer.next, Fail(p),
             wire' = [wire EXCEPT !.down = Tail(@)],
             \/ p.ready => peer.ready /\ p.releaseOnly = peer.releaseOnly
             \/ link.hello /\ p.releaseOnly
             \/ link.hello /\ ~link.releaseOnly /\ link.code = Current /\ wire.up = <<>>
      PROVE  IpcInv'
  <2>1. NoCall \in [id : Nat, kind : Kinds \cup {"none"}]
    BY DEF NoCall
  <2>2. /\ peer' \in Peers /\ peer'.next = peer.next /\ peer'.call = NoCall
        /\ peer'.ready = p.ready /\ peer'.releaseOnly = p.releaseOnly
    BY <1>4, <2>1 DEF Fail, Peers
  <2>3. /\ wire' \in [up : Seq(Frames), down : Seq(Answers)] /\ wire'.up = wire.up
        /\ wire'.down = Tail(wire.down)
    BY <1>0, <1>1, <1>4
  <2>4. DownKept
    BY <1>1, <2>3 DEF DownKept
  <2> QED
    BY <1>0, <1>2, <1>4, <2>2, <2>3, <2>4, CallEnds
<1>5. CASE ~mine
  BY <1>0, <1>4, <1>5 DEF Receive
<1>6. CASE mine /\ ask = "release_hello" /\ RetriesLegacy /\ peer.next <= MaxCalls
  <2> DEFINE u == Request(peer.next, "release_hello", Legacy, TRUE)
  <2>1. /\ peer' = [peer EXCEPT !.retried = TRUE, !.next = @ + 1, !.call.id = peer.next]
        /\ wire' = [up |-> Append(wire.up, u), down |-> Tail(wire.down)]
    BY <1>6 DEF Receive
  <2>2. u \in Frames /\ u.id = peer.next /\ u.kind = "release_hello" /\ u.handoff
    BY <1>0 DEF Request, Frames, Kinds, Legacy, Peers
  <2> DEFINE c == [peer.call EXCEPT !.id = peer.next]
  <2>3. c = [id |-> peer.next, kind |-> "release_hello"] /\ c \in [id : Nat, kind : Kinds \cup {"none"}]
    BY <1>0, <1>6 DEF Peers
  <2>4. peer' = [peer EXCEPT !.retried = TRUE, !.next = peer.next + 1, !.call = c]
    BY <1>0, <2>1 DEF Peers
  <2>5. ~peer.ready /\ peer.releaseOnly
    BY <1>0, <1>6 DEF IpcInv, ReleaseRestricts
  <2> HIDE DEF u, c
  <2>6. /\ peer' \in Peers /\ peer'.next = peer.next + 1 /\ peer'.call = c
        /\ peer'.ready = peer.ready /\ peer'.releaseOnly = peer.releaseOnly
    <3>1. peer.next + 1 \in Nat
      BY <1>0 DEF Peers
    <3> QED
      BY <1>0, <2>3, <2>4, <3>1 DEF Peers
  <2>7. /\ wire' \in [up : Seq(Frames), down : Seq(Answers)] /\ wire'.up = Append(wire.up, u)
        /\ wire'.down = Tail(wire.down)
    BY <1>0, <1>1, <2>1, <2>2
  <2>8. DownKept
    BY <1>1, <2>7 DEF DownKept
  <2> QED
    BY <1>0, <1>2, <2>2, <2>3, <2>5, <2>6, <2>7, <2>8, FrameIsLast
<1>7. CASE mine /\ ~(ask = "release_hello" /\ RetriesLegacy /\ peer.next <= MaxCalls)
  <2>0. wire' = [wire EXCEPT !.down = Tail(@)]
    BY <1>7 DEF Receive
  <2>1. CASE ask = "hello" /\ AcceptsHello
    <3> DEFINE p == [peer EXCEPT !.ready = TRUE, !.releaseOnly = FALSE]
    <3>1. p \in Peers /\ p.next = peer.next
      BY <1>0 DEF Peers
    <3>2. Fail(p)
      BY <1>7, <2>1 DEF Receive
    <3>3. link.hello /\ ~link.releaseOnly /\ link.code = Current /\ wire.up = <<>>
      BY <1>3, <1>7, <2>1 DEF AcceptsHello
    <3> HIDE DEF p
    <3> QED
      BY <1>4, <2>0, <3>1, <3>2, <3>3
  <2>2. CASE ask = "release_hello"
    <3> DEFINE p == [peer EXCEPT !.ready = AcceptsRelease]
    <3>1. AcceptsRelease \in BOOLEAN
      BY <1>0 DEF AcceptsRelease, Answers
    <3>2. p \in Peers /\ p.next = peer.next /\ p.releaseOnly = peer.releaseOnly
          /\ (p.ready <=> AcceptsRelease)
      BY <1>0, <3>1 DEF Peers
    <3>3. Fail(p)
      BY <1>7, <2>2 DEF Receive
    <3>4. AcceptsRelease => link.hello
      BY <1>3, <1>7, <2>2 DEF AcceptsRelease
    <3>5. peer.releaseOnly
      BY <1>0, <2>2 DEF IpcInv, ReleaseRestricts
    <3> HIDE DEF p
    <3> QED
      BY <1>4, <2>0, <3>2, <3>3, <3>4, <3>5
  <2>3. CASE ~(ask = "hello" /\ AcceptsHello) /\ ask # "release_hello"
    BY <1>0, <1>4, <1>7, <2>0, <2>3 DEF Receive
  <2> QED
    BY <2>1, <2>2, <2>3
<1> QED
  BY <1>5, <1>6, <1>7

\* The oldest request is answered; the link changes with a hello it grants.
LEMMA ServeRequestStep == IpcInv /\ ServeRequest => IpcInv'
<1> SUFFICES ASSUME IpcInv, ServeRequest PROVE IpcInv'
  OBVIOUS
<1> DEFINE u == Head(wire.up)
           dispatches == /\ link.hello /\ ~IsHello(u)
                         /\ link.releaseOnly => u.kind = "release"
           ok == IF IsHello(u) THEN Negotiates(u) ELSE dispatches
           d == Response(u, ok)
           grants == IsHello(u) /\ ok
           n == Len(wire.up)
           m == Len(wire.down)
<1>0. /\ peer \in Peers /\ wire \in [up : Seq(Frames), down : Seq(Answers)]
      /\ wire.up \in Seq(Frames) /\ wire.down \in Seq(Answers) /\ wire.up # <<>>
      /\ u \in Frames /\ u = wire.up[1] /\ 1 \in DOMAIN wire.up /\ n \in Nat /\ m \in Nat /\ n >= 1
      /\ DOMAIN wire.up = 1 .. n /\ DOMAIN wire.down = 1 .. m
      /\ link \in [code : OwnerCodes, open : BOOLEAN, hello : BOOLEAN, releaseOnly : BOOLEAN]
      /\ link.code \in Nat /\ peer' = peer
      /\ seen \in [dispatched : SUBSET Kinds, returned : SUBSET (Nat \X Nat)]
  BY IpcSessionAssumption DEF IpcInv, IpcTypes, ServeRequest
<1>1. ok \in BOOLEAN
  BY <1>0 DEF IsHello, Negotiates, Frames
<1>2. d \in Answers /\ d.id = u.id /\ d.to = u.id /\ (d.ok <=> ok) /\ d.code = link.code
  <2>1. (IF ok \/ ~IsHello(u) THEN 0 ELSE link.code) \in Nat
    BY <1>0
  <2>2. (link.code >= Introduced) \in BOOLEAN
    BY <1>0 DEF Introduced
  <2>3. u.id \in Nat
    BY <1>0 DEF Frames
  <2> HIDE DEF ok, u
  <2> QED
    BY <1>0, <1>1, <2>1, <2>2, <2>3 DEF Response, Answers
<1>3. /\ wire' = [up |-> Tail(wire.up), down |-> Append(wire.down, d)]
      /\ link' = IF grants THEN [link EXCEPT !.hello = TRUE,
                                  !.releaseOnly = u.handoff /\ link.code >= Introduced]
                 ELSE link
      /\ seen' = IF dispatches THEN [seen EXCEPT !.dispatched = @ \cup {u.kind}] ELSE seen
  BY DEF ServeRequest
<1>4. /\ link'.code = link.code /\ (link.hello => link'.hello)
      /\ link' \in [code : OwnerCodes, open : BOOLEAN, hello : BOOLEAN, releaseOnly : BOOLEAN]
      /\ grants => link'.hello /\ (~u.handoff => ~link'.releaseOnly)
      /\ ~grants => link' = link
  <2>1. CASE grants
    <3> DEFINE only == u.handoff /\ link.code >= Introduced
    <3>1. only \in BOOLEAN
      BY <1>0 DEF Frames, Introduced
    <3>2. link' = [link EXCEPT !.hello = TRUE, !.releaseOnly = only]
      BY <1>3, <2>1
    <3>3. ~u.handoff => only = FALSE
      OBVIOUS
    <3> HIDE DEF only, ok, u
    <3> QED
      BY <1>0, <2>1, <3>1, <3>2, <3>3
  <2>2. CASE ~grants
    BY <1>0, <1>3, <2>2
  <2> QED
    BY <2>1, <2>2
<1>5. /\ seen'.returned = seen.returned
      /\ seen' \in [dispatched : SUBSET Kinds, returned : SUBSET (Nat \X Nat)]
      /\ "other" \in seen'.dispatched => "other" \in seen.dispatched \/ u.kind = "other"
  <2>1. CASE dispatches
    <3>1. u.kind \in Kinds
      BY <1>0 DEF Frames
    <3>2. seen' = [seen EXCEPT !.dispatched = seen.dispatched \cup {u.kind}]
      BY <1>0, <1>3, <2>1
    <3> HIDE DEF u
    <3> QED
      BY <1>0, <3>1, <3>2
  <2>2. CASE ~dispatches
    BY <1>0, <1>3, <2>2
  <2> QED
    BY <2>1, <2>2
<1> HIDE DEF ok, dispatches, d, u
<1>6. /\ wire' \in [up : Seq(Frames), down : Seq(Answers)]
      /\ wire'.up = Tail(wire.up) /\ wire'.down = Append(wire.down, d)
      /\ DOMAIN wire'.up = 1 .. n - 1 /\ Len(wire'.up) = n - 1
      /\ \A i \in 1 .. n - 1 : i + 1 \in DOMAIN wire.up /\ wire'.up[i] = wire.up[i + 1]
      /\ DOMAIN wire'.down = 1 .. m + 1 /\ wire'.down[m + 1] = d
      /\ \A j \in 1 .. m : j \in DOMAIN wire.down /\ wire'.down[j] = wire.down[j]
  BY <1>0, <1>2, <1>3
<1>7. IpcTypes'
  BY <1>0, <1>4, <1>5, <1>6 DEF IpcTypes
<1>8. \A i \in 1 .. n : wire.up[i] \in Frames /\ \A j \in 1 .. m : wire.down[j] \in Answers
  BY <1>0
<1>9. WireInOrder'
  <2>1. \A i, j \in DOMAIN wire'.up : i < j => wire'.up[i].id < wire'.up[j].id
    <3> SUFFICES ASSUME NEW i \in 1 .. n - 1, NEW j \in 1 .. n - 1, i < j
                 PROVE  wire.up[i + 1].id < wire.up[j + 1].id
      BY <1>6
    <3>1. i + 1 \in 1 .. n /\ j + 1 \in 1 .. n /\ i + 1 < j + 1
      BY <1>0
    <3> QED
      BY <1>0, <3>1 DEF IpcInv, WireInOrder
  <2>2. \A i \in DOMAIN wire'.up : wire'.up[i].id < peer'.next
    BY <1>0, <1>6 DEF IpcInv, WireInOrder
  <2>3. wire'.up # <<>> => wire'.up[Len(wire'.up)].id = peer'.next - 1
    <3> SUFFICES ASSUME wire'.up # <<>> PROVE wire'.up[n - 1].id = peer.next - 1
      BY <1>0, <1>6
    <3>1. n - 1 \in 1 .. n - 1
      BY <1>0, <1>6
    <3>2. wire'.up[n - 1] = wire.up[n]
      BY <1>0, <1>6, <3>1
    <3> QED
      BY <1>0, <3>2 DEF IpcInv, WireInOrder
  <2>4. \A i \in DOMAIN wire'.up, j \in DOMAIN wire'.down : wire'.down[j].id < wire'.up[i].id
    <3> SUFFICES ASSUME NEW i \in 1 .. n - 1, NEW j \in 1 .. m + 1
                 PROVE  wire'.down[j].id < wire.up[i + 1].id
      BY <1>6
    <3>1. i + 1 \in DOMAIN wire.up /\ 1 < i + 1
      BY <1>0, <1>6
    <3>2. CASE j = m + 1
      BY <1>0, <1>2, <1>6, <3>1, <3>2 DEF IpcInv, WireInOrder
    <3>3. CASE j \in 1 .. m
      BY <1>0, <1>6, <3>1, <3>3 DEF IpcInv, WireInOrder
    <3> QED
      BY SMTT(20), <1>0, <3>2, <3>3
  <2>5. \A j \in DOMAIN wire'.down : wire'.down[j].id < peer'.next
    <3> SUFFICES ASSUME NEW j \in 1 .. m + 1 PROVE wire'.down[j].id < peer.next
      BY <1>0, <1>6
    <3>1. CASE j = m + 1
      BY <1>0, <1>2, <1>6, <3>1 DEF IpcInv, WireInOrder
    <3>2. CASE j \in 1 .. m
      BY <1>0, <1>6, <3>2 DEF IpcInv, WireInOrder
    <3> QED
      BY <1>0, <3>1, <3>2
  <2>6. InFlight' => peer'.call.id = peer'.next - 1
    BY <1>0 DEF IpcInv, WireInOrder, InFlight
  <2> QED
    BY <2>1, <2>2, <2>3, <2>4, <2>5, <2>6 DEF WireInOrder
<1>10. FramesFit'
  <2>1. ASSUME NEW i \in DOMAIN wire'.up
        PROVE  LET v == wire'.up[i] IN
               /\ v.kind = "hello" => v.code = Current /\ ~v.handoff
               /\ v.kind = "release_hello" => v.handoff
               /\ InFlight' /\ v.id = peer'.call.id => v.kind = peer'.call.kind
               /\ v.kind = "other" => link'.code = Current
    <3>1. i + 1 \in DOMAIN wire.up /\ wire'.up[i] = wire.up[i + 1]
      BY <1>6
    <3> DEFINE v == wire.up[i + 1]
    <3>2. /\ v.kind = "hello" => v.code = Current /\ ~v.handoff
          /\ v.kind = "release_hello" => v.handoff
          /\ InFlight /\ v.id = peer.call.id => v.kind = peer.call.kind
          /\ v.kind = "other" => link.code = Current
      BY <3>1 DEF IpcInv, FramesFit
    <3> HIDE DEF v
    <3> QED
      BY <1>0, <1>4, <3>1, <3>2 DEF InFlight, v
  <2>2. ASSUME NEW j \in DOMAIN wire'.down
        PROVE  wire'.down[j].to = wire'.down[j].id /\ wire'.down[j].code = link'.code
    <3>1. CASE j = m + 1
      BY <1>2, <1>4, <1>6, <3>1
    <3>2. CASE j \in 1 .. m
      BY <1>4, <1>6, <3>2 DEF IpcInv, FramesFit
    <3> QED
      BY <1>0, <1>6, <3>1, <3>2
  <2> QED
    BY <2>1, <2>2 DEF FramesFit
\* Only the answer that was just given can be the one to the call in flight.
<1>11. GrantIsLinked'
  <2> SUFFICES ASSUME NEW j \in DOMAIN wire'.down, InFlight, wire'.down[j].id = peer.call.id,
                      wire'.down[j].ok
               PROVE  /\ peer.call.kind \in {"hello", "release_hello"} => link'.hello
                      /\ peer.call.kind = "hello" => ~link'.releaseOnly
    BY <1>0 DEF GrantIsLinked, InFlight
  <2>1. CASE j = m + 1
    <3>1. u.kind = peer.call.kind /\ (u.kind = "hello" => ~u.handoff)
      BY <1>0, <1>2, <1>6, <2>1 DEF IpcInv, FramesFit
    <3>2. u.kind \in {"hello", "release_hello"} => grants
      BY <1>2, <1>6, <2>1 DEF IsHello
    <3> QED
      BY <1>4, <3>1, <3>2
  <2>2. CASE j \in 1 .. m
    <3>1. wire.down[j].id < u.id /\ u.id < peer.next /\ peer.call.id = peer.next - 1
      BY <1>0, <2>2 DEF IpcInv, WireInOrder
    <3>2. wire.up[n].id = peer.next - 1 /\ wire.down[j].id < wire.up[n].id
      BY <1>0, <2>2 DEF IpcInv, WireInOrder
    <3>3. wire.up[n].id \in Nat /\ wire'.down[j] = wire.down[j] /\ n \in 1 .. n
      BY <1>0, <1>6, <1>8, <2>2 DEF Frames
    <3>4. wire.down[j].id = wire.up[n].id
      BY <3>1, <3>2, <3>3
    <3> QED
      BY <3>2, <3>3, <3>4
  <2> QED
    BY <1>0, <1>6, <2>1, <2>2
<1>12. ReadyIsLinked'
  <2> SUFFICES ASSUME peer.ready
               PROVE  /\ link'.hello
                      /\ ~peer.releaseOnly =>
                           /\ ~link'.releaseOnly /\ link'.code = Current
                           /\ \A i \in DOMAIN wire'.up : wire'.up[i].kind # "release_hello"
    BY <1>0 DEF ReadyIsLinked
  <2>1. grants /\ ~peer.releaseOnly => ~u.handoff
    BY <1>0 DEF IpcInv, ReadyIsLinked, FramesFit, IsHello
  <2>2. link.hello /\ (~peer.releaseOnly => ~link.releaseOnly /\ link.code = Current)
    BY DEF IpcInv, ReadyIsLinked
  <2>3. ASSUME ~peer.releaseOnly, NEW i \in DOMAIN wire'.up
        PROVE  wire'.up[i].kind # "release_hello"
    <3>1. i + 1 \in DOMAIN wire.up /\ wire'.up[i] = wire.up[i + 1]
      BY <1>6
    <3> QED
      BY <2>3, <3>1 DEF IpcInv, ReadyIsLinked
  <2> QED
    BY <1>4, <2>1, <2>2, <2>3
<1>13. ReleaseRestricts'
  BY <1>0 DEF IpcInv, ReleaseRestricts, InFlight
<1>14. OwnAnswer' /\ MismatchOnlyReleases'
  BY <1>0, <1>4, <1>5 DEF IpcInv, OwnAnswer, MismatchOnlyReleases, FramesFit
<1> QED
  BY <1>7, <1>9, <1>10, <1>11, <1>12, <1>13, <1>14 DEF IpcInv

LEMMA CloseStep == IpcInv /\ (Close \/ UNCHANGED ipcVars) => IpcInv'
<1> SUFFICES ASSUME IpcInv, Close \/ UNCHANGED ipcVars PROVE IpcInv'
  OBVIOUS
<1>1. /\ peer' = peer /\ wire' = wire /\ seen' = seen /\ link'.code = link.code
      /\ link'.hello = link.hello /\ link'.releaseOnly = link.releaseOnly
      /\ link' \in [code : OwnerCodes, open : BOOLEAN, hello : BOOLEAN, releaseOnly : BOOLEAN]
  BY DEF Close, ipcVars, IpcInv, IpcTypes
<1>2. IpcTypes'
  BY <1>1 DEF IpcInv, IpcTypes
<1>3. WireInOrder' /\ FramesFit' /\ GrantIsLinked' /\ ReadyIsLinked' /\ ReleaseRestricts'
  BY <1>1 DEF IpcInv, WireInOrder, FramesFit, GrantIsLinked, ReadyIsLinked, ReleaseRestricts, InFlight
<1> QED
  BY <1>1, <1>2, <1>3 DEF IpcInv, OwnAnswer, MismatchOnlyReleases

LEMMA IpcInit0 == IpcInit => IpcInv
<1> SUFFICES ASSUME NEW code \in OwnerCodes, Connected(code) PROVE IpcInv
  BY DEF IpcInit
<1>1. IpcTypes
  <2>1. peer \in Peers
    BY DEF Connected, Peers, NoCall, Kinds
  <2> QED
    BY <2>1 DEF Connected, IpcTypes
<1>2. WireInOrder /\ FramesFit /\ GrantIsLinked /\ ReadyIsLinked /\ ReleaseRestricts
  BY DEF Connected, WireInOrder, FramesFit, GrantIsLinked, ReadyIsLinked, ReleaseRestricts, InFlight
<1> QED
  BY <1>1, <1>2 DEF Connected, IpcInv, OwnAnswer, MismatchOnlyReleases

LEMMA IpcNextStep == IpcInv /\ [IpcNext]_ipcVars => IpcInv'
<1>1. IpcInv /\ Reconnect => IpcInv'
  BY ConnectedIs DEF Reconnect
<1> QED
  BY <1>1, ClientSends, ReceiveStep, TimeOutStep, ServeRequestStep, CloseStep DEF IpcNext

LEMMA IpcSafe == IpcInv => OwnAnswer /\ MismatchOnlyReleases /\ HandshakeAgrees
BY DEF IpcInv, ReadyIsLinked, HandshakeAgrees

-----------------------------------------------------------------------------
(* The proxy's settings: a handler works through its steps in the order of *)
(* their ranks, and what it has not done yet is what may still disagree.   *)

Hosts == Addresses \cup {Half}
Steps == ({"toggle", "await", "late", "rebound", "unbound"} \X BOOLEAN)
         \cup ({"direct", "sync", "join", "leave"} \X Clients)
         \cup ({"host", "port", "restore", "restart"} \X {None})
Handlings == [steps : Seq(Steps), goal : Hosts \cup {None}, old : Hosts \cup {None},
              undoing : BOOLEAN, on : BOOLEAN, answer : {"none", "ok", "on", "error"}]
ClientStates == [mode : {"direct", "proxy"}, endpoint : Hosts \cup {None},
                 status : {"synchronized", "blocked"}, stuck : BOOLEAN, orphan : BOOLEAN]
ProxyTypes ==
  /\ setting \in [enabled : BOOLEAN, address : Hosts]
  /\ runtime \in [enabled : BOOLEAN, address : Hosts, revision : Nat]
  /\ server \in [pc : {"idle", "bind", "serve", "retry", "ended"}, seen : Nat,
                 desired : [enabled : BOOLEAN, address : Hosts \cup {None}, revision : Nat]]
  /\ active \in Hosts \cup {None} /\ failure \in BOOLEAN /\ taken \subseteq Addresses
  /\ clients \in [Clients -> ClientStates]
  /\ handler \in Handlings
  /\ life \in [asked : BOOLEAN, main : {"select", "rpc", "proxy", "done"},
               rpc : {"select", "accepting", "ended"}, woken : SUBSET Tasks, deaf : SUBSET Tasks]

Members(s) == {s[i] : i \in DOMAIN s}
Left == Members(handler.steps)
Off(step) == step \in {"toggle", "await", "late"} \X {FALSE}
On(step) == step \in {"toggle", "await", "late"} \X {TRUE}
Rank(step) ==
  IF step[1] = "direct" THEN 1
  ELSE IF step[1] \in {"toggle", "await", "late"} THEN IF step[2] THEN 7 ELSE 2
  ELSE IF step[1] = "host" THEN 3
  ELSE IF step[1] \in {"port", "restore"} THEN 4
  ELSE IF step[1] = "sync" THEN 5
  ELSE IF step[1] \in {"restart", "rebound", "unbound"} THEN 6 ELSE 8
Twice == {"direct", "sync"}
Precedes(a, b) == Rank(a) < Rank(b) \/ (a[1] = b[1] /\ a[1] \in Twice)
Ordered(s) == \A i, j \in DOMAIN s : i < j => Precedes(s[i], s[j])

\* What a plan contains once it contains something: a new address is followed by
\* both synchronizations and, unless it is the old one again, by the restart; who
\* waits for the listener waits first.
PlanIsWhole ==
  /\ Ordered(handler.steps)
  /\ \A step \in Left : step[1] \in {"host", "port", "restore"} =>
       \A c \in Clients : <<"sync", c>> \in Left
  /\ \A step \in Left : step[1] \in {"host", "port"} \/ (step[1] = "sync" /\ ~handler.undoing) =>
       <<"restart", None>> \in Left
  /\ \A step \in Left : step[1] = "join" => \A other \in Left : Rank(other) >= 7
  /\ \A step \in Left : step[1] \in {"await", "late"} => \A other \in Left : Rank(other) >= Rank(step)
  /\ \A step \in Left : Rank(step) \in 3 .. 6 => handler.goal \in Hosts /\ handler.old \in Hosts

\* The listener's address is the stored one, or will be told, or is the one that
\* will be restored.
BindingStarted == \A step \in Left : Rank(step) > 2
RuntimeWillFollow ==
  /\ runtime.enabled = setting.enabled
  /\ runtime.enabled => \/ runtime.address = setting.address
                        \/ <<"restart", None>> \in Left /\ BindingStarted
                        \/ <<"restore", None>> \in Left /\ BindingStarted
  /\ runtime.enabled /\ <<"restart", None>> \notin Left /\ <<"restore", None>> \in Left
       => runtime.address = handler.old
  /\ runtime.enabled /\ ~handler.undoing /\ (\E step \in Left : step[1] = "sync")
       => runtime.address = handler.old
  /\ \A step \in Left : step[1] \in {"await", "late"} => runtime.enabled = step[2]
  /\ (\E step \in Left : step[1] = "join") /\ (\A step \in Left : ~On(step)) => setting.enabled

\* A client's endpoint is the stored address, or will be written.
ConfigWillFollow ==
  \A c \in Clients :
    clients[c].mode = "proxy" /\ clients[c].status = "synchronized" /\ ~clients[c].stuck =>
      \/ clients[c].endpoint = setting.address
      \/ <<"sync", c>> \in Left /\ BindingStarted

\* The proxy is not switched off under a client.
ClientsAreServed ==
  \A c \in Clients : clients[c].mode = "proxy" =>
    /\ setting.enabled \/ clients[c].orphan
    /\ (\E step \in Left : Off(step)) => <<"direct", c>> \in Left

ServerIsCurrent ==
  IF server.pc = "serve" THEN active = server.desired.address /\ ~failure ELSE active = None

ProxyInv ==
  /\ ProxyTypes /\ PlanIsWhole /\ RuntimeWillFollow /\ ConfigWillFollow /\ ClientsAreServed
  /\ ServerIsCurrent

-----------------------------------------------------------------------------
(* Plans as sequences: after these lemmas a plan is the set of what is left *)
(* of it.                                                                   *)

LEMMA FirstOfPlan ==
  ASSUME NEW s \in Seq(Steps), s # <<>>
  PROVE  /\ Head(s) \in Steps /\ Tail(s) \in Seq(Steps)
         /\ Members(s) = {Head(s)} \cup Members(Tail(s)) /\ Members(s) \subseteq Steps
         /\ Ordered(s) => /\ Ordered(Tail(s))
                          /\ \A step \in Members(Tail(s)) : Precedes(Head(s), step)
<1>1. /\ Len(s) \in Nat \ {0} /\ DOMAIN s = 1 .. Len(s) /\ Head(s) = s[1] /\ Head(s) \in Steps
      /\ Tail(s) \in Seq(Steps) /\ Len(Tail(s)) = Len(s) - 1 /\ DOMAIN Tail(s) = 1 .. Len(s) - 1
      /\ \A i \in 1 .. Len(s) - 1 : Tail(s)[i] = s[i + 1]
      /\ \A i \in 1 .. Len(s) : s[i] \in Steps
  OBVIOUS
<1>2. Members(s) \subseteq {Head(s)} \cup Members(Tail(s))
  <2> SUFFICES ASSUME NEW i \in 1 .. Len(s), i # 1 PROVE s[i] \in Members(Tail(s))
    BY <1>1 DEF Members
  <2>1. i - 1 \in 1 .. Len(s) - 1 /\ (i - 1) + 1 = i
    BY <1>1
  <2> QED
    BY <1>1, <2>1 DEF Members
<1>3. {Head(s)} \cup Members(Tail(s)) \subseteq Members(s)
  <2> SUFFICES ASSUME NEW i \in 1 .. Len(s) - 1 PROVE s[i + 1] \in Members(s)
    BY <1>1 DEF Members
  <2>1. i + 1 \in 1 .. Len(s)
    BY <1>1
  <2> QED
    BY <1>1, <2>1 DEF Members
<1>4. ASSUME Ordered(s)
      PROVE  Ordered(Tail(s)) /\ \A step \in Members(Tail(s)) : Precedes(Head(s), step)
  <2>1. ASSUME NEW i \in 1 .. Len(s) - 1 PROVE Precedes(Head(s), Tail(s)[i])
    <3>1. 1 \in 1 .. Len(s) /\ i + 1 \in 1 .. Len(s) /\ 1 < i + 1
      BY <1>1
    <3> QED
      BY <1>1, <1>4, <3>1 DEF Ordered
  <2>2. ASSUME NEW i \in 1 .. Len(s) - 1, NEW j \in 1 .. Len(s) - 1, i < j
        PROVE  Precedes(Tail(s)[i], Tail(s)[j])
    <3>1. i + 1 \in 1 .. Len(s) /\ j + 1 \in 1 .. Len(s) /\ i + 1 < j + 1
      BY <1>1, <2>2
    <3> QED
      BY <1>1, <1>4, <3>1 DEF Ordered
  <2> QED
    BY <1>1, <2>1, <2>2 DEF Ordered, Members
<1>5. Members(s) \subseteq Steps
  BY <1>1 DEF Members
<1> QED
  BY <1>1, <1>2, <1>3, <1>4, <1>5

LEMMA JoinedPlan ==
  ASSUME NEW s \in Seq(Steps), NEW t \in Seq(Steps)
  PROVE  /\ s \o t \in Seq(Steps) /\ Members(s \o t) = Members(s) \cup Members(t)
         /\ Ordered(s) /\ Ordered(t) /\ (\A a \in Members(s), b \in Members(t) : Precedes(a, b))
              => Ordered(s \o t)
<1> DEFINE m == Len(s)  n == Len(t)  u == s \o t
<1>1. /\ m \in Nat /\ n \in Nat /\ u \in Seq(Steps) /\ Len(u) = m + n
      /\ DOMAIN s = 1 .. m /\ DOMAIN t = 1 .. n /\ DOMAIN u = 1 .. m + n
  OBVIOUS
<1>2. ASSUME NEW i \in 1 .. m PROVE i \in 1 .. m + n /\ u[i] = s[i]
  BY <1>1
<1>3. ASSUME NEW i \in 1 .. n PROVE m + i \in 1 .. m + n /\ u[m + i] = t[i]
  BY <1>1
<1>4. ASSUME NEW i \in 1 .. m + n, i \notin 1 .. m
      PROVE  i - m \in 1 .. n /\ m + (i - m) = i
  BY <1>1, <1>4
<1>5. ASSUME NEW i \in 1 .. m + n
      PROVE  \/ i \in 1 .. m /\ u[i] = s[i] /\ u[i] \in Members(s)
             \/ i \notin 1 .. m /\ u[i] = t[i - m] /\ i - m \in 1 .. n /\ u[i] \in Members(t)
  <2>1. CASE i \in 1 .. m
    BY <2>1, <1>1, <1>2 DEF Members
  <2>2. CASE i \notin 1 .. m
    <3>1. i - m \in 1 .. n /\ m + (i - m) = i
      BY <1>4, <2>2
    <3>2. u[m + (i - m)] = t[i - m]
      BY <1>3, <3>1
    <3> QED
      BY <2>2, <3>1, <3>2, <1>1 DEF Members
  <2> QED
    BY <2>1, <2>2
<1>6. Members(u) = Members(s) \cup Members(t)
  <2>1. Members(u) \subseteq Members(s) \cup Members(t)
    BY <1>1, <1>5 DEF Members
  <2>2. Members(s) \subseteq Members(u)
    BY <1>1, <1>2 DEF Members
  <2>3. Members(t) \subseteq Members(u)
    <3> SUFFICES ASSUME NEW i \in 1 .. n PROVE t[i] \in Members(u)
      BY <1>1 DEF Members
    <3> QED
      BY <1>1, <1>3 DEF Members
  <2> QED
    BY <2>1, <2>2, <2>3
<1>7. ASSUME Ordered(s), Ordered(t), \A a \in Members(s), b \in Members(t) : Precedes(a, b)
      PROVE  Ordered(u)
  <2> SUFFICES ASSUME NEW i \in 1 .. m + n, NEW j \in 1 .. m + n, i < j
               PROVE  Precedes(u[i], u[j])
    BY <1>1 DEF Ordered
  <2>1. CASE j \in 1 .. m
    <3>1. i \in 1 .. m
      BY <2>1, <1>1
    <3> QED
      BY <2>1, <3>1, <1>1, <1>2, <1>7 DEF Ordered
  <2>2. CASE i \in 1 .. m /\ j \notin 1 .. m
    BY <2>2, <1>5, <1>7
  <2>3. CASE i \notin 1 .. m /\ j \notin 1 .. m
    <3>1. u[i] = t[i - m] /\ u[j] = t[j - m] /\ i - m \in 1 .. n /\ j - m \in 1 .. n
      BY <2>3, <1>5
    <3>2. i - m < j - m
      BY <1>1
    <3> QED
      BY <3>1, <3>2, <1>1, <1>7 DEF Ordered
  <2> QED
    BY <2>1, <2>2, <2>3
<1> QED
  BY <1>1, <1>6, <1>7

LEMMA SinglePlan ==
  ASSUME NEW step \in Steps
  PROVE  /\ <<step>> \in Seq(Steps) /\ Members(<<step>>) = {step} /\ Ordered(<<step>>)
         /\ <<step>> # <<>>
<1> DEFINE s == <<step>>
<1>1. s \in Seq(Steps) /\ Len(s) = 1 /\ DOMAIN s = 1 .. 1 /\ s[1] = step
  OBVIOUS
<1>2. s # <<>>
  OBVIOUS
<1>3. Members(s) = {step}
  BY <1>1 DEF Members
<1> HIDE DEF s
<1>4. Ordered(s)
  <2> SUFFICES ASSUME NEW i \in 1 .. 1, NEW j \in 1 .. 1, i < j PROVE FALSE
    BY <1>1 DEF Ordered
  <2> QED
    OBVIOUS
<1> QED
  BY <1>1, <1>2, <1>3, <1>4 DEF s

LEMMA NoPlan == <<>> \in Seq(Steps) /\ Members(<<>>) = {} /\ Ordered(<<>>)
<1>1. <<>> \in Seq(Steps) /\ DOMAIN <<>> = {}
  OBVIOUS
<1> QED
  BY <1>1 DEF Members, Ordered

LEMMA EmptyPlan ==
  ASSUME NEW s \in Seq(Steps) PROVE s = <<>> <=> Members(s) = {}
<1>1. s # <<>> => Members(s) # {}
  BY FirstOfPlan
<1> QED
  BY <1>1, NoPlan

LEMMA StepForms ==
  /\ \A c \in Clients : {<<"direct", c>>, <<"sync", c>>, <<"join", c>>, <<"leave", c>>} \subseteq Steps
  /\ {<<"host", None>>, <<"port", None>>, <<"restore", None>>, <<"restart", None>>} \subseteq Steps
  /\ \A on \in BOOLEAN : {<<"toggle", on>>, <<"await", on>>, <<"late", on>>, <<"rebound", on>>,
                          <<"unbound", on>>} \subseteq Steps
BY DEF Steps

LEMMA BothPlan ==
  ASSUME NEW name \in Twice
  PROVE  /\ Both(name) \in Seq(Steps) /\ Ordered(Both(name))
         /\ Members(Both(name)) = {<<name, "codex">>, <<name, "claude">>}
<1> DEFINE a == <<name, "codex">>  b == <<name, "claude">>
<1>1. a \in Steps /\ b \in Steps
  BY StepForms DEF Twice, Clients
<1>2. a[1] = name /\ b[1] = name
  OBVIOUS
<1>3. Precedes(a, b)
  BY <1>2 DEF Precedes
<1> HIDE DEF a, b
<1>4. Both(name) = <<a>> \o <<b>>
  BY <1>1 DEF Both, a, b
<1> QED
  BY <1>1, <1>3, <1>4, JoinedPlan, SinglePlan DEF a, b

-----------------------------------------------------------------------------
(* What a step of a handler does to the plan                                *)

Keeps == handler'.goal = handler.goal /\ handler'.old = handler.old
SameGoals == Keeps /\ handler'.undoing = handler.undoing

LEMMA PlannedSteps ==
  ASSUME ProxyTypes, PlanIsWhole, handler.steps # <<>>
  PROVE  /\ handler.steps \in Seq(Steps) /\ Tail(handler.steps) \in Seq(Steps)
         /\ Head(handler.steps) \in Steps /\ Ordered(Tail(handler.steps))
         /\ Left = {Head(handler.steps)} \cup Members(Tail(handler.steps)) /\ Left \subseteq Steps
         /\ \A step \in Members(Tail(handler.steps)) : Precedes(Head(handler.steps), step)
<1>1. handler.steps \in Seq(Steps) /\ Ordered(handler.steps)
  BY DEF ProxyTypes, Handlings, PlanIsWhole
<1> QED
  BY <1>1, FirstOfPlan DEF Left

\* The first step is done: what is left is still a plan.
LEMMA Advances ==
  ASSUME ProxyTypes, PlanIsWhole, handler.steps # <<>>, Then(handler) \/ Proceed(handler)
  PROVE  /\ handler' \in Handlings /\ PlanIsWhole'
         /\ Left' = Members(Tail(handler.steps)) /\ (Left' # {} => SameGoals)
<1> DEFINE s == handler.steps  t == Tail(s)
<1>1. s \in Seq(Steps) /\ t \in Seq(Steps) /\ Ordered(t) /\ Left = {Head(s)} \cup Members(t)
      /\ \A step \in Members(t) : Precedes(Head(s), step)
  BY PlannedSteps
<1>2. handler \in Handlings
  BY DEF ProxyTypes
<1>3. CASE t # <<>> \/ Then(handler)
  <2>1. handler' = [handler EXCEPT !.steps = t]
    BY <1>3 DEF Then, Proceed
  <2>2. handler' \in Handlings /\ handler'.steps = t /\ SameGoals
    BY <1>1, <1>2, <2>1 DEF Handlings, SameGoals, Keeps
  <2>3. Left' = Members(t)
    BY <2>2 DEF Left, Members
  <2>4. Ordered(handler.steps)'
    BY <1>1, <2>2 DEF Ordered, Precedes, Rank
  <2>5. \A step \in Left' : Rank(step)' = Rank(step)
    BY DEF Rank
  <2> HIDE DEF t, s
  <2>6. PlanIsWhole'
    <3>1. handler'.goal = handler.goal /\ handler'.old = handler.old
          /\ handler'.undoing = handler.undoing
      BY <2>2 DEF SameGoals, Keeps
    <3>2. \A step \in Left' : step \in Left /\ Precedes(Head(s), step)
      BY <1>1, <2>3
    <3>3. ASSUME NEW step \in Left', step[1] \in {"host", "port", "restore"}, NEW c \in Clients
          PROVE  <<"sync", c>> \in Left'
      <4>1. <<"sync", c>> \in Left
        BY <3>2, <3>3 DEF PlanIsWhole
      <4>2. Head(s) # <<"sync", c>>
        BY <3>2, <3>3 DEF Precedes, Rank, Twice
      <4> QED
        BY <4>1, <4>2, <1>1, <2>3
    <3>4. ASSUME NEW step \in Left',
                 step[1] \in {"host", "port"} \/ (step[1] = "sync" /\ ~handler'.undoing)
          PROVE  <<"restart", None>> \in Left'
      <4>1. <<"restart", None>> \in Left
        BY <3>1, <3>2, <3>4 DEF PlanIsWhole
      <4>2. Head(s) # <<"restart", None>>
        BY <3>2, <3>4 DEF Precedes, Rank, Twice
      <4> QED
        BY <4>1, <4>2, <1>1, <2>3
    <3>5. \A step \in Left' : step[1] = "join" => \A other \in Left' : Rank(other) >= 7
      BY <3>2 DEF PlanIsWhole
    <3>6. \A step \in Left' : step[1] \in {"await", "late"} =>
             \A other \in Left' : Rank(other) >= Rank(step)
      BY <3>2 DEF PlanIsWhole
    <3>7. \A step \in Left' : Rank(step) \in 3 .. 6 => handler'.goal \in Hosts /\ handler'.old \in Hosts
      BY <3>1, <3>2 DEF PlanIsWhole
    <3> QED
      BY <2>4, <3>3, <3>4, <3>5, <3>6, <3>7 DEF PlanIsWhole, Rank, Hosts
  <2> QED
    BY <2>2, <2>3, <2>6 DEF s, t
<1>4. CASE t = <<>> /\ Proceed(handler)
  <2>1. PICK answer \in {"error", "on", "ok"} : handler' = [Resting EXCEPT !.answer = answer]
    BY <1>4 DEF Proceed
  <2>2. handler' \in Handlings /\ handler'.steps = <<>>
    BY <2>1, NoPlan DEF Handlings, Resting
  <2>3. Left' = {} /\ Ordered(handler.steps)' /\ Members(t) = {}
    BY <2>2, <1>4, NoPlan DEF Left, Members, Ordered
  <2> QED
    BY <2>2, <2>3 DEF PlanIsWhole
<1> QED
  BY <1>3, <1>4

LEMMA Finishes ==
  ASSUME NEW answer \in {"none", "ok", "on", "error"}, Finish(answer)
  PROVE  handler' \in Handlings /\ PlanIsWhole' /\ Left' = {}
<1>1. handler' \in Handlings /\ handler'.steps = <<>>
  BY NoPlan DEF Finish, Handlings, Resting
<1>2. Left' = {} /\ Ordered(handler.steps)'
  BY <1>1, NoPlan DEF Left, Members, Ordered
<1> QED
  BY <1>1, <1>2 DEF PlanIsWhole

\* The first step turns into another one in its place.
LEMMA Awaited ==
  ASSUME ProxyTypes, PlanIsWhole, handler.steps # <<>>, NEW step \in Steps,
         step[1] \in {"await", "late", "rebound", "unbound"},
         Head(handler.steps)[1] \notin Twice, Rank(step) = Rank(Head(handler.steps)),
         handler' = AwaitFirst(step)
  PROVE  /\ handler' \in Handlings /\ PlanIsWhole' /\ SameGoals
         /\ Left' = {step} \cup Members(Tail(handler.steps))
<1> DEFINE s == handler.steps  t == Tail(s)
<1>1. s \in Seq(Steps) /\ t \in Seq(Steps) /\ Ordered(t) /\ Left = {Head(s)} \cup Members(t)
      /\ \A other \in Members(t) : Precedes(Head(s), other)
  BY PlannedSteps
<1>2. handler \in Handlings
  BY DEF ProxyTypes
<1>3. <<step>> \in Seq(Steps) /\ Members(<<step>>) = {step} /\ Ordered(<<step>>)
  BY SinglePlan
<1>4. \A other \in Members(t) : Rank(Head(s)) < Rank(other) /\ Precedes(step, other)
  BY <1>1 DEF Precedes
<1>5. /\ <<step>> \o t \in Seq(Steps) /\ Members(<<step>> \o t) = {step} \cup Members(t)
      /\ Ordered(<<step>> \o t)
  <2> HIDE DEF t
  <2> QED
    BY <1>1, <1>3, <1>4, JoinedPlan
<1>6. handler' = [handler EXCEPT !.steps = <<step>> \o t]
  BY DEF AwaitFirst
<1>7. handler' \in Handlings /\ handler'.steps = <<step>> \o t /\ SameGoals
  BY <1>2, <1>5, <1>6 DEF Handlings, SameGoals, Keeps
<1>8. Left' = {step} \cup Members(t)
  BY <1>5, <1>7 DEF Left, Members
<1>9. Ordered(handler.steps)'
  <2> DEFINE p == <<step>> \o t
  <2>1. Ordered(p) /\ handler'.steps = p
    BY <1>5, <1>7
  <2> HIDE DEF p
  <2> QED
    BY <2>1 DEF Ordered, Precedes, Rank
<1> HIDE DEF t, s
<1>10. PlanIsWhole'
  <3>1. handler'.goal = handler.goal /\ handler'.old = handler.old
        /\ handler'.undoing = handler.undoing
    BY <1>7 DEF SameGoals, Keeps
  <3>2. \A x \in Left' : x = step \/ (x \in Members(t) /\ x \in Left /\ Rank(Head(s)) < Rank(x))
    BY <1>1, <1>4, <1>8
  <3>3. ASSUME NEW x \in Left', x[1] \in {"host", "port", "restore"}, NEW c \in Clients
        PROVE  <<"sync", c>> \in Left'
    <4>1. x \in Left /\ Rank(Head(s)) < Rank(x)
      BY <3>2, <3>3
    <4>2. <<"sync", c>> \in Left
      BY <4>1, <3>3 DEF PlanIsWhole
    <4>3. Head(s) # <<"sync", c>>
      BY DEF Twice, s
    <4> QED
      BY <4>2, <4>3, <1>1, <1>8
  <3>4. ASSUME NEW x \in Left',
               x[1] \in {"host", "port"} \/ (x[1] = "sync" /\ ~handler'.undoing)
        PROVE  <<"restart", None>> \in Left'
    <4>1. x \in Left /\ Rank(Head(s)) < Rank(x)
      BY <3>2, <3>4
    <4>2. <<"restart", None>> \in Left
      BY <4>1, <3>1, <3>4 DEF PlanIsWhole
    <4>3. Head(s) # <<"restart", None>>
      BY <4>1, <3>4 DEF Rank
    <4> QED
      BY <4>2, <4>3, <1>1, <1>8
  <3>5. Rank(step) = Rank(Head(s)) /\ Head(s) \in Left
    BY <1>1 DEF s
  <3>6. ASSUME NEW x \in Left', x[1] = "join", NEW other \in Left' PROVE Rank(other) >= 7
    BY <3>2, <3>5, <3>6 DEF PlanIsWhole
  <3>7. ASSUME NEW x \in Left', x[1] \in {"await", "late"}, NEW other \in Left'
        PROVE  Rank(other) >= Rank(x)
    <4>1. Rank(step) \in Nat /\ Rank(other) \in Nat /\ Rank(x) \in Nat /\ Rank(Head(s)) \in Nat
      BY DEF Rank
    <4>2. CASE x = step
      BY <4>1, <4>2, <3>2, <3>5
    <4>3. CASE x # step
      <5>1. Rank(Head(s)) >= Rank(x) /\ Rank(Head(s)) < Rank(x)
        BY <4>3, <3>2, <3>5, <3>7 DEF PlanIsWhole
      <5> QED
        BY <5>1, <4>1
    <4> QED
      BY <4>2, <4>3
  <3>8. \A x \in Left' : Rank(x) \in 3 .. 6 => handler'.goal \in Hosts /\ handler'.old \in Hosts
    BY <3>1, <3>2, <3>5 DEF PlanIsWhole
  <3> QED
    BY <1>9, <3>3, <3>4, <3>6, <3>7, <3>8 DEF PlanIsWhole, Rank, Hosts
<1> QED
  BY <1>7, <1>8, <1>10 DEF s, t

\* The old address is stored and written again.
LEMMA Undoes ==
  ASSUME ProxyTypes, PlanIsWhole, NEW restarting \in BOOLEAN, handler' = Undo(restarting),
         handler.goal \in Hosts, handler.old \in Hosts
  PROVE  /\ handler' \in Handlings /\ PlanIsWhole' /\ Keeps /\ handler'.undoing
         /\ Left' = {<<"restore", None>>, <<"sync", "codex">>, <<"sync", "claude">>}
                    \cup (IF restarting THEN {<<"restart", None>>} ELSE {})
<1> DEFINE a == <<"restore", None>>  z == <<"restart", None>>
           b == Both("sync")  e == IF restarting THEN One("restart") ELSE <<>>
<1>1. a \in Steps /\ z \in Steps
  BY StepForms
<1>2. <<a>> \in Seq(Steps) /\ Members(<<a>>) = {a} /\ Ordered(<<a>>)
  BY <1>1, SinglePlan
<1>3. b \in Seq(Steps) /\ Ordered(b) /\ Members(b) = {<<"sync", "codex">>, <<"sync", "claude">>}
  BY BothPlan DEF Twice
<1>4. e \in Seq(Steps) /\ Ordered(e) /\ Members(e) = IF restarting THEN {z} ELSE {}
  BY <1>1, SinglePlan, NoPlan DEF One
<1>5. Rank(a) = 4 /\ Rank(z) = 6 /\ \A c \in Clients : Rank(<<"sync", c>>) = 5
  BY DEF Rank
<1>6. handler' = [handler EXCEPT !.steps = <<a>> \o b \o e, !.undoing = TRUE]
  BY DEF Undo, One
<1> HIDE DEF b, e
<1>7. /\ <<a>> \o b \in Seq(Steps) /\ Ordered(<<a>> \o b)
      /\ Members(<<a>> \o b) = {a, <<"sync", "codex">>, <<"sync", "claude">>}
  <2>1. \A y \in Members(b) : Rank(y) = 5
    BY <1>3, <1>5 DEF Clients
  <2>2. \A x \in Members(<<a>>) : Rank(x) = 4
    BY <1>2, <1>5
  <2>3. \A x \in Members(<<a>>), y \in Members(b) : Precedes(x, y)
    BY <2>1, <2>2 DEF Precedes
  <2> QED
    BY <2>3, <1>2, <1>3, JoinedPlan
<1>8. /\ <<a>> \o b \o e \in Seq(Steps) /\ Ordered(<<a>> \o b \o e)
      /\ Members(<<a>> \o b \o e) = {a, <<"sync", "codex">>, <<"sync", "claude">>}
                                    \cup (IF restarting THEN {z} ELSE {})
  <2>1. \A x \in Members(<<a>> \o b) : Rank(x) \in {4, 5}
    BY <1>7, <1>5 DEF Clients
  <2>2. \A y \in Members(e) : Rank(y) = 6
    BY <1>4, <1>5
  <2>3. \A x \in Members(<<a>> \o b), y \in Members(e) : Precedes(x, y)
    BY <2>1, <2>2 DEF Precedes
  <2> QED
    BY <2>3, <1>7, <1>4, JoinedPlan
<1>9. handler' \in Handlings /\ handler'.steps = <<a>> \o b \o e /\ Keeps /\ handler'.undoing
  BY <1>6, <1>8 DEF ProxyTypes, Handlings, Keeps
<1>10. /\ Left' = {a, <<"sync", "codex">>, <<"sync", "claude">>} \cup (IF restarting THEN {z} ELSE {})
       /\ Ordered(handler.steps)'
  <2> DEFINE p == <<a>> \o b \o e
  <2>1. /\ Ordered(p) /\ handler'.steps = p
        /\ Members(p) = {a, <<"sync", "codex">>, <<"sync", "claude">>} \cup (IF restarting THEN {z} ELSE {})
    BY <1>8, <1>9
  <2> HIDE DEF p
  <2>2. Ordered(handler.steps)'
    BY <2>1 DEF Ordered, Precedes, Rank
  <2>3. Left' = Members(p)
    BY <2>1 DEF Left, Members
  <2> QED
    BY <2>1, <2>2, <2>3
<1>11. PlanIsWhole'
  <2>1. \A c \in Clients : <<"sync", c>> \in Left'
    BY <1>10 DEF Clients
  <2>2. \A x \in Left' : x[1] \in {"restore", "sync", "restart"}
    BY <1>10
  <2>3. handler'.goal \in Hosts /\ handler'.old \in Hosts
    BY <1>9 DEF Keeps
  <2> QED
    BY <1>9, <1>10, <2>1, <2>2, <2>3 DEF PlanIsWhole, Hosts
<1> QED
  BY <1>9, <1>10, <1>11

\* Only the restart is left of a rollback whose synchronization failed.
LEMMA AfterFailedUndo ==
  ASSUME ProxyTypes, PlanIsWhole, handler.undoing, handler.steps # <<>>,
         handler' = AfterSyncs(handler),
         Rank(Head(handler.steps)) = 5
  PROVE  /\ handler' \in Handlings /\ PlanIsWhole' /\ SameGoals
         /\ Left' = Left \cap {<<"restart", None>>}
<1> DEFINE z == <<"restart", None>>
           e == IF z \in Left THEN One("restart") ELSE <<>>
<1>1. z \in Steps
  BY StepForms
<1>2. e \in Seq(Steps) /\ Ordered(e) /\ Members(e) = Left \cap {z}
  BY <1>1, SinglePlan, NoPlan DEF One
<1>3. handler' = [handler EXCEPT !.steps = e]
  BY DEF AfterSyncs, Left, Members
<1> HIDE DEF e
<1>4. handler' \in Handlings /\ handler'.steps = e /\ SameGoals
  BY <1>2, <1>3 DEF ProxyTypes, Handlings, SameGoals, Keeps
<1>5. Left' = Left \cap {z} /\ Ordered(handler.steps)'
  BY <1>2, <1>4 DEF Left, Members, Ordered, Precedes, Rank
<1>6. PlanIsWhole'
  <2>1. \A x \in Left' : x[1] = "restart" /\ x \in Left
    BY <1>5
  <2>2. Rank(z) = 6
    BY DEF Rank
  <2>3. Left' # {} => handler'.goal \in Hosts /\ handler'.old \in Hosts
    BY <1>4, <1>5, <2>2 DEF PlanIsWhole, SameGoals, Keeps
  <2> QED
    BY <1>5, <2>1, <2>3 DEF PlanIsWhole, Hosts
<1> QED
  BY <1>4, <1>5, <1>6

-----------------------------------------------------------------------------
(* The steps of the handlers                                                *)

LEMMA StepArguments ==
  ASSUME NEW step \in Steps
  PROVE  /\ step[1] \in {"direct", "sync", "join", "leave"} =>
              step[2] \in Clients /\ step = <<step[1], step[2]>>
         /\ step[1] \in {"toggle", "await", "late", "rebound", "unbound"} =>
              step[2] \in BOOLEAN /\ step = <<step[1], step[2]>>
         /\ step[1] \in {"host", "port", "restore", "restart"} => step = <<step[1], None>>
         /\ step[1] \in {"direct", "sync", "join", "leave", "toggle", "await", "late", "rebound",
                         "unbound", "host", "port", "restore", "restart"}
         /\ Rank(step) \in 1 .. 8
         /\ On(step) <=> step[1] \in {"toggle", "await", "late"} /\ step[2]
         /\ Off(step) <=> step[1] \in {"toggle", "await", "late"} /\ ~step[2]
<1>1. CASE step \in {"toggle", "await", "late", "rebound", "unbound"} \X BOOLEAN
  <2>1. step[1] \in {"toggle", "await", "late", "rebound", "unbound"} /\ step[2] \in BOOLEAN
        /\ step = <<step[1], step[2]>>
    BY <1>1
  <2>2. On(step) <=> step[1] \in {"toggle", "await", "late"} /\ step[2]
    BY <2>1 DEF On
  <2>3. Off(step) <=> step[1] \in {"toggle", "await", "late"} /\ ~step[2]
    BY <2>1 DEF Off
  <2>4. Rank(step) \in 1 .. 8
    BY DEF Rank
  <2> QED
    BY <2>1, <2>2, <2>3, <2>4
<1>2. CASE step \in ({"direct", "sync", "join", "leave"} \X Clients)
                   \cup ({"host", "port", "restore", "restart"} \X {None})
  <2>1. \/ step[1] \in {"direct", "sync", "join", "leave"} /\ step[2] \in Clients
           /\ step = <<step[1], step[2]>>
        \/ step[1] \in {"host", "port", "restore", "restart"} /\ step = <<step[1], None>>
    BY <1>2
  <2>2. ~On(step) /\ ~Off(step)
    BY <2>1 DEF On, Off
  <2>3. Rank(step) \in 1 .. 8
    BY DEF Rank
  <2> QED
    BY <2>1, <2>2, <2>3
<1> QED
  BY <1>1, <1>2 DEF Steps

LEMMA Starts ==
  ASSUME ProxyInv, MayStart, NEW h \in Handlings, StartWith(h), PlanIsWhole', ~h.undoing,
         \A x \in Left' : x[1] \notin {"await", "late", "restore"},
         (\E x \in Left' : x[1] = "join") => \E x \in Left' : On(x),
         (\E x \in Left' : Off(x)) => \A c \in Clients : <<"direct", c>> \in Left',
         (\E x \in Left' : x[1] = "sync") => h.old = setting.address
  PROVE  ProxyInv'
<1>1. handler' = h /\ UNCHANGED <<setting, runtime, server, active, failure, taken, clients, life>>
  BY DEF StartWith
<1>2. Left = {}
  BY NoPlan DEF MayStart, Left
<1>3. ProxyTypes'
  BY <1>1 DEF ProxyInv, ProxyTypes, Tasks, Hosts
<1>4. RuntimeWillFollow'
  <2>1. runtime.enabled = setting.enabled /\ (runtime.enabled => runtime.address = setting.address)
    BY <1>2 DEF ProxyInv, RuntimeWillFollow
  <2>2. <<"restore", None>> \notin Left'
    OBVIOUS
  <2>3. (\E step \in Left' : step[1] = "join") /\ (\A step \in Left' : ~On(step)) => FALSE
    OBVIOUS
  <2> QED
    BY <1>1, <2>1, <2>2, <2>3 DEF RuntimeWillFollow, On
<1>5. ConfigWillFollow'
  BY <1>1, <1>2 DEF ProxyInv, ConfigWillFollow
<1>6. ClientsAreServed'
  BY <1>1 DEF ProxyInv, ClientsAreServed, Off
<1>7. ServerIsCurrent'
  BY <1>1 DEF ProxyInv, ServerIsCurrent
<1> QED
  BY <1>3, <1>4, <1>5, <1>6, <1>7 DEF ProxyInv

ProxyKept == UNCHANGED <<setting, runtime, server, active, failure, taken, life>>

\* Nothing changes but the plan.
LEMMA PlanOnly ==
  ASSUME ProxyInv, handler.steps # <<>>, Then(handler) \/ Proceed(handler), ProxyKept,
         UNCHANGED clients,
         Head(handler.steps) = <<"restart", None>> => ~runtime.enabled,
         Head(handler.steps)[1] # "restore",
         On(Head(handler.steps)) => setting.enabled,
         \A c \in Clients : Head(handler.steps) \in {<<"direct", c>>, <<"sync", c>>} =>
           clients[c].mode = "direct"
  PROVE  ProxyInv'
<1> DEFINE h == Head(handler.steps)  T == Members(Tail(handler.steps))
<1>1. /\ handler' \in Handlings /\ PlanIsWhole' /\ Left' = T /\ (Left' # {} => SameGoals)
  BY Advances DEF ProxyInv
<1>2. Left = {h} \cup T /\ \A x \in T : Precedes(h, x)
  BY PlannedSteps DEF ProxyInv
<1>3. UNCHANGED <<setting, runtime, server, active, failure, taken, life, clients>>
  BY DEF ProxyKept
<1>4. ProxyTypes'
  BY <1>1, <1>3 DEF ProxyInv, ProxyTypes, Tasks, Hosts
<1> HIDE DEF h, T
<1>h. /\ h = <<"restart", None>> => ~runtime.enabled
      /\ h[1] # "restore"
      /\ On(h) => setting.enabled
      /\ \A c \in Clients : h \in {<<"direct", c>>, <<"sync", c>>} => clients[c].mode = "direct"
  BY DEF h
<1>5. RuntimeWillFollow'
  <2>1. h # <<"restore", None>>
    BY <1>h
  <2>2. BindingStarted => BindingStarted'
    BY <1>1, <1>2 DEF BindingStarted, Rank
  <2>3. ASSUME runtime.enabled PROVE <<"restart", None>> \in T <=> <<"restart", None>> \in Left
    BY <2>3, <1>2, <1>h
  <2>4. <<"restore", None>> \in T <=> <<"restore", None>> \in Left
    BY <1>2, <2>1
  <2>5. runtime.enabled = setting.enabled
    BY DEF ProxyInv, RuntimeWillFollow
  <2>6. runtime.enabled => \/ runtime.address = setting.address
                           \/ <<"restart", None>> \in T /\ BindingStarted'
                           \/ <<"restore", None>> \in T /\ BindingStarted'
    BY <2>2, <2>3, <2>4 DEF ProxyInv, RuntimeWillFollow
  <2>7. runtime.enabled /\ <<"restart", None>> \notin T /\ <<"restore", None>> \in T
          => runtime.address = handler'.old
    BY <1>1, <2>3, <2>4 DEF ProxyInv, RuntimeWillFollow, SameGoals, Keeps
  <2>8. runtime.enabled /\ ~handler'.undoing /\ (\E step \in T : step[1] = "sync")
          => runtime.address = handler'.old
    BY <1>1, <1>2 DEF ProxyInv, RuntimeWillFollow, SameGoals, Keeps
  <2>9. \A step \in T : step[1] \in {"await", "late"} => runtime.enabled = step[2]
    BY <1>2 DEF ProxyInv, RuntimeWillFollow
  <2>10. (\E step \in T : step[1] = "join") /\ (\A step \in T : ~On(step)) => setting.enabled
    BY <1>2, <1>h DEF ProxyInv, RuntimeWillFollow
  <2> QED
    BY <1>1, <1>3, <2>5, <2>6, <2>7, <2>8, <2>9, <2>10 DEF RuntimeWillFollow, On
<1>6. ConfigWillFollow'
  <2>1. BindingStarted => BindingStarted'
    BY <1>1, <1>2 DEF BindingStarted, Rank
  <2>2. \A c \in Clients : <<"sync", c>> \in Left /\ clients[c].mode = "proxy" => <<"sync", c>> \in T
    BY <1>2, <1>h
  <2> QED
    BY <1>1, <1>3, <2>1, <2>2 DEF ProxyInv, ConfigWillFollow
<1>7. ClientsAreServed'
  <2>1. \A c \in Clients : <<"direct", c>> \in Left /\ clients[c].mode = "proxy" => <<"direct", c>> \in T
    BY <1>2, <1>h
  <2>2. T \subseteq Left
    BY <1>2
  <2> QED
    BY <1>1, <1>3, <2>1, <2>2 DEF ProxyInv, ClientsAreServed, Off
<1>8. ServerIsCurrent'
  BY <1>3 DEF ProxyInv, ServerIsCurrent
<1> QED
  BY <1>1, <1>4, <1>5, <1>6, <1>7, <1>8 DEF ProxyInv

\* The handler ends with nothing changed but what it has done before.
LEMMA EndsEarly ==
  ASSUME ProxyInv, handler.steps # <<>>, NEW answer \in {"none", "ok", "on", "error"},
         Finish(answer), ProxyKept, UNCHANGED clients,
         Rank(Head(handler.steps)) \notin 3 .. 5, Head(handler.steps)[1] # "restart"
  PROVE  ProxyInv'
<1> DEFINE h == Head(handler.steps)  T == Members(Tail(handler.steps))
<1>1. handler' \in Handlings /\ PlanIsWhole' /\ Left' = {}
  BY Finishes
<1>2. Left = {h} \cup T /\ (\A x \in T : Precedes(h, x)) /\ h \in Steps
  BY PlannedSteps DEF ProxyInv
<1>3. UNCHANGED <<setting, runtime, server, active, failure, taken, life, clients>>
  BY DEF ProxyKept
<1>4. ProxyTypes'
  BY <1>1, <1>3 DEF ProxyInv, ProxyTypes, Tasks, Hosts
<1> HIDE DEF h, T
<1>h. Rank(h) \notin 3 .. 5 /\ h[1] # "restart" /\ Rank(h) \in 1 .. 8
  BY <1>2, StepArguments DEF h
<1>5. ~BindingStarted \/ \A x \in Left : x[1] \notin {"restart", "restore", "sync"}
  <2> SUFFICES ASSUME BindingStarted, NEW x \in Left PROVE x[1] \notin {"restart", "restore", "sync"}
    OBVIOUS
  <2>1. Rank(h) >= 6
    BY <1>2, <1>h DEF BindingStarted
  <2>2. CASE x = h
    BY <2>1, <2>2, <1>h DEF Rank
  <2>3. CASE x \in T
    <3>1. Precedes(h, x)
      BY <2>3, <1>2
    <3> QED
      BY <3>1, <2>1, <1>h DEF Precedes, Twice, Rank
  <2> QED
    BY <2>2, <2>3, <1>2
<1>6. runtime.enabled = setting.enabled /\ (runtime.enabled => runtime.address = setting.address)
  BY <1>5 DEF ProxyInv, RuntimeWillFollow
<1>7. RuntimeWillFollow'
  BY <1>1, <1>3, <1>6 DEF RuntimeWillFollow
<1>8. ConfigWillFollow'
  BY <1>1, <1>3, <1>5 DEF ProxyInv, ConfigWillFollow
<1>9. ClientsAreServed' /\ ServerIsCurrent'
  BY <1>1, <1>3 DEF ProxyInv, ClientsAreServed, ServerIsCurrent
<1> QED
  BY <1>1, <1>4, <1>7, <1>8, <1>9 DEF ProxyInv

\* A client's configuration is written, or refused, and the plan goes on.
LEMMA ClientMoves ==
  ASSUME ProxyInv, handler.steps # <<>>, Then(handler) \/ Proceed(handler), ProxyKept,
         NEW c \in Clients, NEW k \in ClientStates, clients' = [clients EXCEPT ![c] = k],
         Head(handler.steps)[1] \in {"direct", "sync", "join", "leave"},
         Head(handler.steps)[2] = c,
         k.mode = "proxy" => /\ k.endpoint = setting.address \/ k.status # "synchronized"
                             /\ setting.enabled \/ k.orphan
                             /\ Head(handler.steps)[1] # "direct"
  PROVE  ProxyInv'
<1> DEFINE h == Head(handler.steps)  T == Members(Tail(handler.steps))
<1>1. /\ handler' \in Handlings /\ PlanIsWhole' /\ Left' = T /\ (Left' # {} => SameGoals)
  BY Advances DEF ProxyInv
<1>2. Left = {h} \cup T /\ (\A x \in T : Precedes(h, x)) /\ h \in Steps
  BY PlannedSteps DEF ProxyInv
<1>3. UNCHANGED <<setting, runtime, server, active, failure, taken, life>>
  BY DEF ProxyKept
<1>4. clients \in [Clients -> ClientStates]
  BY DEF ProxyInv, ProxyTypes
<1>5. /\ clients' \in [Clients -> ClientStates] /\ clients'[c] = k
      /\ \A d \in Clients \ {c} : clients'[d] = clients[d]
  BY <1>4
<1>6. ProxyTypes'
  BY <1>1, <1>3, <1>5 DEF ProxyInv, ProxyTypes, Tasks, Hosts, ClientStates
<1> HIDE DEF h, T
<1>h. h[1] \in {"direct", "sync", "join", "leave"} /\ h[2] = c /\ h = <<h[1], h[2]>>
  BY <1>2, StepArguments DEF h
<1>7. RuntimeWillFollow'
  <2>1. h # <<"restore", None>> /\ h # <<"restart", None>> /\ ~On(h)
    BY <1>2, <1>h, StepArguments
  <2>2. BindingStarted => BindingStarted'
    BY <1>1, <1>2 DEF BindingStarted, Rank
  <2>3. <<"restart", None>> \in T <=> <<"restart", None>> \in Left
    BY <1>2, <2>1
  <2>4. <<"restore", None>> \in T <=> <<"restore", None>> \in Left
    BY <1>2, <2>1
  <2>5. runtime.enabled = setting.enabled
    BY DEF ProxyInv, RuntimeWillFollow
  <2>6. runtime.enabled => \/ runtime.address = setting.address
                           \/ <<"restart", None>> \in T /\ BindingStarted'
                           \/ <<"restore", None>> \in T /\ BindingStarted'
    BY <2>2, <2>3, <2>4 DEF ProxyInv, RuntimeWillFollow
  <2>7. runtime.enabled /\ <<"restart", None>> \notin T /\ <<"restore", None>> \in T
          => runtime.address = handler'.old
    BY <1>1, <2>3, <2>4 DEF ProxyInv, RuntimeWillFollow, SameGoals, Keeps
  <2>8. runtime.enabled /\ ~handler'.undoing /\ (\E step \in T : step[1] = "sync")
          => runtime.address = handler'.old
    BY <1>1, <1>2 DEF ProxyInv, RuntimeWillFollow, SameGoals, Keeps
  <2>9. \A step \in T : step[1] \in {"await", "late"} => runtime.enabled = step[2]
    BY <1>2 DEF ProxyInv, RuntimeWillFollow
  <2>10. (\E step \in T : step[1] = "join") /\ (\A step \in T : ~On(step)) => setting.enabled
    BY <1>2, <2>1 DEF ProxyInv, RuntimeWillFollow
  <2> QED
    BY <1>1, <1>3, <2>5, <2>6, <2>7, <2>8, <2>9, <2>10 DEF RuntimeWillFollow, On
<1>8. ConfigWillFollow'
  <2>1. BindingStarted => BindingStarted'
    BY <1>1, <1>2 DEF BindingStarted, Rank
  <2>2. \A d \in Clients \ {c} : <<"sync", d>> \in Left => <<"sync", d>> \in T
    BY <1>2, <1>h
  <2> QED
    BY <1>1, <1>3, <1>5, <2>1, <2>2 DEF ProxyInv, ConfigWillFollow
<1>9. ClientsAreServed'
  <2>1. \A d \in Clients \ {c} : <<"direct", d>> \in Left => <<"direct", d>> \in T
    BY <1>2, <1>h
  <2>2. T \subseteq Left
    BY <1>2
  <2>3. ASSUME h[1] # "direct", NEW x \in T PROVE ~Off(x)
    <3>1. Rank(h) >= 5
      BY <1>h, <2>3 DEF Rank
    <3>2. Precedes(h, x) /\ x \in Steps
      BY <1>2, PlannedSteps DEF ProxyInv
    <3>3. Off(x) => x[1] \in {"toggle", "await", "late"} /\ Rank(x) = 2
      BY <3>2, StepArguments DEF Rank
    <3> QED
      BY <3>1, <3>2, <3>3, <1>2, <1>h, StepArguments DEF Precedes, Twice
  <2>4. ASSUME NEW d \in Clients, d # c, clients'[d].mode = "proxy"
        PROVE  (setting.enabled \/ clients'[d].orphan)
               /\ ((\E x \in T : Off(x)) => <<"direct", d>> \in T)
    BY <1>5, <2>1, <2>2, <2>4 DEF ProxyInv, ClientsAreServed
  <2>5. clients'[c].mode = "proxy" => (setting.enabled \/ clients'[c].orphan) /\ ~(\E x \in T : Off(x))
    BY <1>5, <2>3 DEF h
  <2> QED
    BY <1>1, <1>3, <2>4, <2>5 DEF ClientsAreServed, Off
<1>10. ServerIsCurrent'
  BY <1>3 DEF ProxyInv, ServerIsCurrent
<1> QED
  BY <1>1, <1>6, <1>7, <1>8, <1>9, <1>10 DEF ProxyInv

LEMMA DoIs ==
  ASSUME ProxyInv, NEW name, Do(name)
  PROVE  /\ handler.steps # <<>> /\ Head(handler.steps)[1] = name
         /\ Head(handler.steps) \in Steps /\ Head(handler.steps) \in Left
         /\ \A other : Of(other) = Head(handler.steps)[2]
         /\ \A x \in Members(Tail(handler.steps)) : x \in Left /\ Precedes(Head(handler.steps), x)
         /\ \A x \in Left : x = Head(handler.steps) \/ x \in Members(Tail(handler.steps))
         /\ \A other : Do(other) => other = name
<1>1. handler.steps # <<>> /\ Head(handler.steps)[1] = name
  BY DEF Do
<1> QED
  BY <1>1, PlannedSteps DEF ProxyInv, Of, Do

LEMMA NewPlan ==
  ASSUME NEW p, handler'.steps = p
  PROVE  Left' = Members(p) /\ (Ordered(p) => Ordered(handler.steps)')
BY DEF Left, Members, Ordered, Precedes, Rank

LEMMA TwoPlans ==
  ASSUME NEW s \in Seq(Steps), NEW r \in Seq(Steps), Ordered(s), Ordered(r),
         \A x \in Members(s), y \in Members(r) : Rank(x) < Rank(y)
  PROVE  s \o r \in Seq(Steps) /\ Ordered(s \o r) /\ Members(s \o r) = Members(s) \cup Members(r)
BY JoinedPlan DEF Precedes

LEMMA SetModeStep ==
  ASSUME ProxyInv, NEW c \in Clients, NEW mode \in {"direct", "proxy"}, SetMode(c, mode)
  PROVE  ProxyInv'
<1> DEFINE t == <<"toggle", TRUE>>  j == <<"join", c>>  l == <<"leave", c>>
           p == (IF mode = "proxy" THEN <<t>> ELSE <<>>) \o <<IF mode = "proxy" THEN j ELSE l>>
           h == [Resting EXCEPT !.steps = p, !.on = mode = "proxy"]
<1>1. t \in Steps /\ j \in Steps /\ l \in Steps
  BY StepForms
<1>2. MayStart /\ StartWith(h)
  BY DEF SetMode, Toggle
<1>3. Rank(t) = 7 /\ Rank(j) = 8 /\ Rank(l) = 8 /\ On(t) /\ ~On(l) /\ ~Off(t) /\ ~Off(j) /\ ~Off(l)
      /\ t[1] = "toggle" /\ j[1] = "join" /\ l[1] = "leave"
  BY DEF Rank, On, Off
<1> HIDE DEF t, j, l
<1>4. /\ p \in Seq(Steps) /\ Ordered(p)
      /\ Members(p) = IF mode = "proxy" THEN {t, j} ELSE {l}
  <2>1. CASE mode = "proxy"
    <3>1. /\ <<t>> \in Seq(Steps) /\ Members(<<t>>) = {t} /\ Ordered(<<t>>)
          /\ <<j>> \in Seq(Steps) /\ Members(<<j>>) = {j} /\ Ordered(<<j>>)
      BY <1>1, SinglePlan
    <3>2. \A x \in Members(<<t>>), y \in Members(<<j>>) : Rank(x) < Rank(y)
      BY <3>1, <1>3
    <3>3. /\ <<t>> \o <<j>> \in Seq(Steps) /\ Ordered(<<t>> \o <<j>>)
          /\ Members(<<t>> \o <<j>>) = Members(<<t>>) \cup Members(<<j>>)
      BY <3>1, <3>2, TwoPlans
    <3> QED
      BY <2>1, <3>1, <3>3
  <2>2. CASE mode # "proxy"
    <3>1. <<l>> \in Seq(Steps) /\ Members(<<l>>) = {l} /\ Ordered(<<l>>)
      BY <1>1, SinglePlan
    <3>2. p = <<l>>
      BY <2>2, <3>1
    <3> QED
      BY <2>2, <3>1, <3>2
  <2> QED
    BY <2>1, <2>2
<1> HIDE DEF p
<1>5. (mode = "proxy") \in BOOLEAN
  OBVIOUS
<1>6. h \in Handlings /\ h.steps = p /\ ~h.undoing
  BY <1>4, <1>5 DEF Resting, Handlings
<1>7. handler' = h
  BY <1>2 DEF StartWith
<1> HIDE DEF h
<1>8. Left' = Members(p) /\ Ordered(handler.steps)'
  BY <1>4, <1>6, <1>7, NewPlan
<1>9. \A x \in Left' : x[1] \in {"toggle", "join", "leave"} /\ Rank(x) >= 7 /\ ~Off(x)
  <2>1. \A x \in {t, j, l} : x[1] \in {"toggle", "join", "leave"} /\ Rank(x) >= 7 /\ ~Off(x)
    BY <1>3
  <2> QED
    BY <1>4, <1>8, <2>1
<1>10. PlanIsWhole'
  <2>1. \A x \in Left' : Rank(x)' = Rank(x)
    BY DEF Rank
  <2>2. \A x \in Left' : ~(Rank(x) \in 3 .. 6)
    BY <1>9
  <2> QED
    BY <1>8, <1>9, <2>1, <2>2 DEF PlanIsWhole
<1>11. (\E x \in Left' : x[1] = "join") => \E x \in Left' : On(x)
  <2>1. CASE mode = "proxy"
    BY <2>1, <1>4, <1>8, <1>3
  <2>2. CASE mode # "proxy"
    BY <2>2, <1>3, <1>4, <1>8
  <2> QED
    BY <2>1, <2>2
<1> QED
  BY <1>2, <1>6, <1>9, <1>10, <1>11, Starts

LEMMA UpdateSettingsStep ==
  ASSUME ProxyInv, NEW enabled \in {"keep", "on", "off"}, NEW address \in Addresses,
         UpdateSettings(enabled, address)
  PROVE  ProxyInv'
<1> DEFINE f == <<"toggle", FALSE>>  t == <<"toggle", TRUE>>
           hs == <<"host", None>>  pt == <<"port", None>>  rs == <<"restart", None>>
           a == IF enabled = "off" THEN Both("direct") \o <<f>> ELSE <<>>
           b == IF address # setting.address
                THEN <<hs>> \o <<pt>> \o Both("sync") \o <<rs>> ELSE <<>>
           z == IF enabled = "on" THEN <<t>> ELSE <<>>
           p == a \o b \o z
           h == [Resting EXCEPT !.steps = p, !.goal = address, !.old = setting.address,
                                !.on = enabled = "on"]
           directs == {<<"direct", "codex">>, <<"direct", "claude">>}
           syncs == {<<"sync", "codex">>, <<"sync", "claude">>}
<1>1. f \in Steps /\ t \in Steps /\ hs \in Steps /\ pt \in Steps /\ rs \in Steps
  BY StepForms
<1>2. MayStart /\ StartWith(h)
  BY DEF UpdateSettings, Toggle, One
<1>3. /\ Rank(f) = 2 /\ Rank(t) = 7 /\ Rank(hs) = 3 /\ Rank(pt) = 4 /\ Rank(rs) = 6
      /\ \A x \in directs : Rank(x) = 1
      /\ \A x \in syncs : Rank(x) = 5
  BY DEF Rank
<1>4. /\ Both("direct") \in Seq(Steps) /\ Ordered(Both("direct")) /\ Members(Both("direct")) = directs
      /\ Both("sync") \in Seq(Steps) /\ Ordered(Both("sync")) /\ Members(Both("sync")) = syncs
  BY BothPlan DEF Twice
<1>5. \A x \in Steps : <<x>> \in Seq(Steps) /\ Members(<<x>>) = {x} /\ Ordered(<<x>>)
  BY SinglePlan
<1> HIDE DEF f, t, hs, pt, rs, directs, syncs
<1>7. /\ a \in Seq(Steps) /\ Ordered(a) /\ Members(a) = IF enabled = "off" THEN directs \cup {f} ELSE {}
  <2>1. /\ Both("direct") \o <<f>> \in Seq(Steps) /\ Ordered(Both("direct") \o <<f>>)
        /\ Members(Both("direct") \o <<f>>) = directs \cup {f}
    <3>1. \A x \in Members(Both("direct")), y \in Members(<<f>>) : Rank(x) < Rank(y)
      BY <1>1, <1>3, <1>4, <1>5
    <3>2. Both("direct") \o <<f>> \in Seq(Steps) /\ Ordered(Both("direct") \o <<f>>)
          /\ Members(Both("direct") \o <<f>>) = Members(Both("direct")) \cup Members(<<f>>)
      BY <3>1, <1>1, <1>4, <1>5, TwoPlans
    <3> QED
      BY <3>2, <1>1, <1>4, <1>5
  <2> QED
    BY <2>1, NoPlan
<1>8. /\ b \in Seq(Steps) /\ Ordered(b)
      /\ Members(b) = IF address # setting.address THEN {hs, pt, rs} \cup syncs ELSE {}
  <2>1. /\ <<hs>> \o <<pt>> \in Seq(Steps) /\ Members(<<hs>> \o <<pt>>) = {hs, pt}
        /\ Ordered(<<hs>> \o <<pt>>)
    <3>1. \A x \in Members(<<hs>>), y \in Members(<<pt>>) : Rank(x) < Rank(y)
      BY <1>1, <1>3, <1>5
    <3>2. <<hs>> \o <<pt>> \in Seq(Steps) /\ Ordered(<<hs>> \o <<pt>>)
          /\ Members(<<hs>> \o <<pt>>) = Members(<<hs>>) \cup Members(<<pt>>)
      BY <3>1, <1>1, <1>5, TwoPlans
    <3> QED
      BY <3>2, <1>1, <1>5
  <2> DEFINE u == <<hs>> \o <<pt>>
  <2>2. u \in Seq(Steps) /\ Members(u) = {hs, pt} /\ Ordered(u)
    BY <2>1
  <2> HIDE DEF u
  <2>3. u \o Both("sync") \in Seq(Steps) /\ Members(u \o Both("sync")) = {hs, pt} \cup syncs
        /\ Ordered(u \o Both("sync"))
    <3>1. \A x \in Members(u), y \in Members(Both("sync")) : Rank(x) < Rank(y)
      BY <1>3, <1>4, <2>2
    <3> QED
      BY <3>1, <1>4, <2>2, TwoPlans
  <2> DEFINE v == u \o Both("sync")
  <2>4. v \in Seq(Steps) /\ Members(v) = {hs, pt} \cup syncs /\ Ordered(v)
    BY <2>3
  <2> HIDE DEF v
  <2>5. v \o <<rs>> \in Seq(Steps) /\ Members(v \o <<rs>>) = {hs, pt, rs} \cup syncs
        /\ Ordered(v \o <<rs>>)
    <3>1. \A x \in Members(v), y \in Members(<<rs>>) : Rank(x) < Rank(y)
      BY <1>1, <1>3, <1>5, <2>4
    <3>2. <<rs>> \in Seq(Steps) /\ Ordered(<<rs>>) /\ Members(<<rs>>) = {rs}
      BY <1>1, <1>5
    <3> DEFINE w == <<rs>>
    <3> HIDE DEF w
    <3>3. v \o w \in Seq(Steps) /\ Ordered(v \o w) /\ Members(v \o w) = Members(v) \cup Members(w)
      BY <3>1, <3>2, <2>4, TwoPlans DEF w
    <3> QED
      BY <3>2, <3>3, <2>4 DEF w
  <2>6. v \o <<rs>> = <<hs>> \o <<pt>> \o Both("sync") \o <<rs>>
    BY DEF u, v
  <2> QED
    BY <2>5, <2>6, NoPlan
<1>9. z \in Seq(Steps) /\ Ordered(z) /\ Members(z) = IF enabled = "on" THEN {t} ELSE {}
  BY <1>1, <1>5, NoPlan
<1> HIDE DEF a, b, z
<1>10. /\ p \in Seq(Steps) /\ Ordered(p) /\ Members(p) = Members(a) \cup Members(b) \cup Members(z)
  <2>1. \A x \in Members(a) : Rank(x) \in {1, 2}
    BY <1>3, <1>7
  <2>2. \A x \in Members(b) : Rank(x) \in 3 .. 6
    BY <1>3, <1>8
  <2>3. \A x \in Members(z) : Rank(x) = 7
    BY <1>3, <1>9
  <2>4. a \o b \in Seq(Steps) /\ Ordered(a \o b) /\ Members(a \o b) = Members(a) \cup Members(b)
    <3>1. \A x \in Members(a), y \in Members(b) : Rank(x) < Rank(y)
      BY <2>1, <2>2
    <3> QED
      BY <3>1, <1>7, <1>8, TwoPlans
  <2>5. \A x \in Members(a \o b), y \in Members(z) : Rank(x) < Rank(y)
    BY <2>1, <2>2, <2>3, <2>4
  <2> QED
    BY <2>4, <2>5, <1>9, TwoPlans
<1> HIDE DEF p
<1>11. (enabled = "on") \in BOOLEAN /\ setting.address \in Hosts /\ address \in Hosts
  BY DEF ProxyInv, ProxyTypes, Hosts
<1>12. h \in Handlings /\ h.steps = p /\ ~h.undoing /\ h.goal = address /\ h.old = setting.address
  BY <1>10, <1>11 DEF Resting, Handlings
<1>13. handler' = h
  BY <1>2 DEF StartWith
<1> HIDE DEF h
<1>14. Left' = Members(a) \cup Members(b) \cup Members(z) /\ Ordered(handler.steps)'
  BY <1>10, <1>12, <1>13, NewPlan
<1>15. /\ \A x \in Left' : x[1] \in {"direct", "toggle", "host", "port", "sync", "restart"}
       /\ \A x \in Left' : x[1] \in {"host", "port", "sync"} => syncs \cup {rs} \subseteq Left'
       /\ \A x \in Left' : Off(x) => directs \subseteq Left'
  <2>1. /\ \A x \in Members(a) : x[1] \in {"direct", "toggle"} /\ directs \subseteq Members(a)
        /\ \A x \in Members(b) : x[1] \in {"host", "port", "sync", "restart"}
                                 /\ syncs \cup {rs} \subseteq Members(b)
        /\ \A x \in Members(z) : x[1] = "toggle" /\ x = t
    <3>1. \A x \in directs \cup {f} : x[1] \in {"direct", "toggle"}
      <4>1. \A x \in directs : x[1] = "direct"
        BY DEF directs
      <4>2. f[1] = "toggle"
        BY DEF f
      <4> QED
        BY <4>1, <4>2
    <3>2. \A x \in {hs, pt, rs} \cup syncs : x[1] \in {"host", "port", "sync", "restart"}
      BY DEF hs, pt, rs, syncs
    <3>3. t[1] = "toggle"
      BY DEF t
    <3>4. \A x \in Members(a) : x[1] \in {"direct", "toggle"} /\ directs \subseteq Members(a)
      BY <3>1, <1>7
    <3>5. \A x \in Members(b) : x[1] \in {"host", "port", "sync", "restart"}
                                /\ syncs \cup {rs} \subseteq Members(b)
      BY <3>2, <1>8
    <3>6. \A x \in Members(z) : x[1] = "toggle" /\ x = t
      BY <3>3, <1>9
    <3> QED
      BY <3>4, <3>5, <3>6
  <2>2. \A x \in Left' : Off(x) => x \in Members(a)
    <3>1. ~Off(t)
      BY DEF Off, t
    <3>2. \A x \in Members(b) : ~Off(x)
      BY <2>1 DEF Off
    <3> QED
      BY <2>1, <1>14, <3>1, <3>2
  <2> QED
    BY <2>1, <2>2, <1>14
<1>16. PlanIsWhole'
  <2>1. \A c \in Clients : <<"sync", c>> \in syncs
    BY DEF syncs, Clients
  <2> QED
    BY <1>11, <1>12, <1>13, <1>14, <1>15, <2>1 DEF PlanIsWhole, Hosts, Rank, rs
<1>17. \A c \in Clients : <<"direct", c>> \in directs
  BY DEF directs, Clients
<1> QED
  BY <1>2, <1>12, <1>15, <1>16, <1>17, Starts

LEMMA ApplyModeStep == ASSUME ProxyInv, ApplyMode PROVE ProxyInv'
<1> DEFINE h == Head(handler.steps)  mode == IF Do("join") THEN "proxy" ELSE "direct"
           c == h[2]
           k == [mode |-> mode, endpoint |-> Endpoint(mode), status |-> "synchronized",
                 stuck |-> FALSE, orphan |-> clients[c].orphan /\ mode = "proxy"]
<1>1. PICK name \in {"join", "leave"} : Do(name)
  BY DEF ApplyMode
<1>2. /\ handler.steps # <<>> /\ h[1] = name /\ h \in Steps /\ h \in Left /\ Of("join") = c
      /\ \A x \in Members(Tail(handler.steps)) : x \in Left /\ Precedes(h, x)
      /\ \A x \in Left : x = h \/ x \in Members(Tail(handler.steps))
      /\ \A other : Do(other) => other = name
  BY <1>1, DoIs
<1>3. c \in Clients /\ Rank(h) = 8 /\ mode \in {"direct", "proxy"} /\ h[1] \in {"join", "leave"}
      /\ (mode = "proxy" => h[1] = "join")
  BY <1>1, <1>2, StepArguments DEF Rank
<1>4. ProxyKept
  BY DEF ApplyMode, HandlerOnly, ProxyKept
<1>5. CASE Finish("error") /\ UNCHANGED clients
  BY <1>2, <1>3, <1>4, <1>5, EndsEarly
<1>6. CASE Write(Of("join"), mode) /\ Proceed(handler)
  <2>1. clients' = [clients EXCEPT ![c] = k]
    BY <1>2, <1>6 DEF Write
  <2>2. clients[c] \in ClientStates /\ setting.address \in Hosts
    BY <1>3 DEF ProxyInv, ProxyTypes
  <2>3. (clients[c].orphan /\ mode = "proxy") \in BOOLEAN
    BY <2>2 DEF ClientStates
  <2>4. Endpoint(mode) \in Hosts \cup {None} /\ (mode = "proxy" => Endpoint(mode) = setting.address)
    BY <2>2 DEF Endpoint
  <2>5. k \in ClientStates
    BY <1>3, <2>3, <2>4 DEF ClientStates
  <2>6. mode = "proxy" => setting.enabled
    <3> SUFFICES ASSUME mode = "proxy" PROVE setting.enabled
      OBVIOUS
    <3>1. \A x \in Left : ~On(x)
      <4>1. h[1] = "join"
        BY <1>3
      <4>2. ~On(h)
        BY <4>1, <1>2, StepArguments
      <4>3. \A x \in Members(Tail(handler.steps)) : FALSE
        <5> SUFFICES ASSUME NEW x \in Members(Tail(handler.steps)) PROVE FALSE
          OBVIOUS
        <5>1. Rank(x) \in 1 .. 8 /\ Precedes(h, x)
          BY <1>2, PlannedSteps, StepArguments DEF ProxyInv
        <5> QED
          BY <5>1, <1>3, <4>1 DEF Precedes, Twice
      <4> QED
        BY <4>2, <4>3, <1>2
    <3>2. h \in Left /\ h[1] = "join"
      BY <1>2, <1>3
    <3> QED
      BY <3>1, <3>2 DEF ProxyInv, RuntimeWillFollow
  <2>7. k.mode = mode /\ k.endpoint = Endpoint(mode)
    OBVIOUS
  <2> HIDE DEF k
  <2> QED
    BY <1>2, <1>3, <1>4, <1>6, <2>1, <2>4, <2>5, <2>6, <2>7, ClientMoves
<1> QED
  BY <1>5, <1>6 DEF ApplyMode

LEMMA DisableStep == ASSUME ProxyInv, Disable PROVE ProxyInv'
<1> DEFINE h == Head(handler.steps)  c == h[2]
           k == [mode |-> "direct", endpoint |-> Endpoint("direct"), status |-> "synchronized",
                 stuck |-> FALSE, orphan |-> clients[c].orphan /\ "direct" = "proxy"]
<1>1. Do("direct")
  BY DEF Disable
<1>2. handler.steps # <<>> /\ h[1] = "direct" /\ h \in Steps /\ Of("direct") = c
  BY <1>1, DoIs
<1>3. c \in Clients /\ h = <<"direct", c>> /\ ~On(h) /\ Rank(h) = 1
  BY <1>2, StepArguments DEF Rank
<1>4. ProxyKept
  BY DEF Disable, HandlerOnly, ProxyKept
<1>5. CASE clients[c].mode = "direct" /\ Then(handler) /\ UNCHANGED clients
  <2>1. \A d \in Clients : h \in {<<"direct", d>>, <<"sync", d>>} => d = c
    BY <1>2
  <2> QED
    BY <1>2, <1>3, <1>4, <1>5, <2>1, PlanOnly
<1>6. CASE Write(c, "direct") /\ Then(handler)
  <2>1. clients' = [clients EXCEPT ![c] = k]
    BY <1>6 DEF Write
  <2>2. (clients[c].orphan /\ "direct" = "proxy") = FALSE
    OBVIOUS
  <2>3. k \in ClientStates /\ k.mode = "direct"
    BY <2>2 DEF ClientStates, Endpoint
  <2> HIDE DEF k
  <2> QED
    BY <1>2, <1>3, <1>4, <1>6, <2>1, <2>3, ClientMoves
<1>7. CASE Finish("error") /\ UNCHANGED clients
  BY <1>2, <1>3, <1>4, <1>7, EndsEarly
<1> QED
  BY <1>2, <1>5, <1>6, <1>7 DEF Disable

\* A rollback: the old address is stored again.
LEMMA RollsBack ==
  ASSUME ProxyInv, NEW restarting \in BOOLEAN, handler' = Undo(restarting), ProxyKept,
         UNCHANGED clients, handler.goal \in Hosts, handler.old \in Hosts,
         runtime.enabled /\ ~restarting => runtime.address = handler.old
  PROVE  ProxyInv'
<1>1. /\ handler' \in Handlings /\ PlanIsWhole' /\ Keeps /\ handler'.undoing
      /\ Left' = {<<"restore", None>>, <<"sync", "codex">>, <<"sync", "claude">>}
                 \cup (IF restarting THEN {<<"restart", None>>} ELSE {})
  BY Undoes DEF ProxyInv
<1>2. UNCHANGED <<setting, runtime, server, active, failure, taken, life, clients>>
  BY DEF ProxyKept
<1>3. ProxyTypes'
  BY <1>1, <1>2 DEF ProxyInv, ProxyTypes, Tasks, Hosts, ClientStates
<1>4. \A x \in Left' : x[1] \in {"restore", "sync", "restart"}
  BY <1>1
<1>5. BindingStarted'
  BY <1>4 DEF BindingStarted, Rank
<1>6. RuntimeWillFollow'
  <2>1. <<"restore", None>> \in Left' /\ (<<"restart", None>> \in Left' <=> restarting)
    BY <1>1
  <2>2. runtime.enabled = setting.enabled
    BY DEF ProxyInv, RuntimeWillFollow
  <2>3. runtime.enabled /\ <<"restart", None>> \notin Left' => runtime.address = handler'.old
    BY <1>1, <2>1 DEF Keeps
  <2> QED
    BY <1>1, <1>2, <1>4, <1>5, <2>1, <2>2, <2>3 DEF RuntimeWillFollow
<1>7. ConfigWillFollow'
  <2>1. \A c \in Clients : <<"sync", c>> \in Left'
    BY <1>1 DEF Clients
  <2> QED
    BY <1>5, <2>1 DEF ConfigWillFollow
<1>8. ClientsAreServed'
  <2>1. \A x \in Left' : ~Off(x)
    BY <1>4 DEF Off
  <2>2. \A c \in Clients : clients[c].mode = "proxy" => setting.enabled \/ clients[c].orphan
    BY DEF ProxyInv, ClientsAreServed
  <2> QED
    BY <1>2, <2>1, <2>2 DEF ClientsAreServed, Off
<1>9. ServerIsCurrent'
  BY <1>2 DEF ProxyInv, ServerIsCurrent
<1> QED
  BY <1>1, <1>3, <1>6, <1>7, <1>8, <1>9 DEF ProxyInv

LEMMA SynchronizeStep == ASSUME ProxyInv, Synchronize PROVE ProxyInv'
<1> DEFINE h == Head(handler.steps)  c == h[2]  T == Members(Tail(handler.steps))
<1>1. Do("sync")
  BY DEF Synchronize
<1>2. /\ handler.steps # <<>> /\ h[1] = "sync" /\ h \in Steps /\ Of("sync") = c /\ h \in Left
      /\ \A x \in T : x \in Left /\ Precedes(h, x)
      /\ \A x \in Left : x = h \/ x \in T
  BY <1>1, DoIs
<1>3. c \in Clients /\ h = <<"sync", c>> /\ ~On(h) /\ Rank(h) = 5
  BY <1>2, StepArguments DEF Rank
<1>4. ProxyKept
  BY DEF Synchronize, HandlerOnly, ProxyKept
<1>5. clients[c] \in ClientStates /\ setting.address \in Hosts /\ clients \in [Clients -> ClientStates]
  BY <1>3 DEF ProxyInv, ProxyTypes
<1>6. setting.enabled \/ clients[c].orphan \/ clients[c].mode # "proxy"
  BY <1>3 DEF ProxyInv, ClientsAreServed
<1>7. handler.goal \in Hosts /\ handler.old \in Hosts
  BY <1>2, <1>3 DEF ProxyInv, PlanIsWhole
<1>8. CASE clients[c].mode = "direct" /\ Proceed(handler) /\ UNCHANGED clients
  <2>1. \A d \in Clients : h \in {<<"direct", d>>, <<"sync", d>>} => d = c
    BY <1>2
  <2> QED
    BY <1>2, <1>3, <1>4, <1>8, <2>1, PlanOnly
<1>9. CASE clients[c].mode # "direct" /\ Write(c, "proxy") /\ Proceed(handler)
  <2> DEFINE k == [mode |-> "proxy", endpoint |-> Endpoint("proxy"), status |-> "synchronized",
                   stuck |-> FALSE, orphan |-> clients[c].orphan /\ "proxy" = "proxy"]
  <2>1. clients' = [clients EXCEPT ![c] = k]
    BY <1>9 DEF Write
  <2>2. clients[c].mode = "proxy" /\ clients[c].orphan \in BOOLEAN
    BY <1>5, <1>9 DEF ClientStates
  <2>3. (clients[c].orphan /\ "proxy" = "proxy") \in BOOLEAN
        /\ (clients[c].orphan => (clients[c].orphan /\ "proxy" = "proxy"))
    BY <2>2
  <2>4. Endpoint("proxy") = setting.address
    BY DEF Endpoint
  <2>5. k \in ClientStates /\ k.endpoint = setting.address
    BY <1>5, <2>3, <2>4 DEF ClientStates
  <2>6. setting.enabled \/ k.orphan
    BY <1>6, <2>2, <2>3
  <2> HIDE DEF k
  <2> QED
    BY <1>2, <1>3, <1>4, <1>9, <2>1, <2>5, <2>6, ClientMoves
<1>10. CASE /\ clients[c].mode # "direct" /\ clients' = [clients EXCEPT ![c].status = "blocked"]
            /\ Proceed(handler)
  <2> DEFINE k == [clients[c] EXCEPT !.status = "blocked"]
  <2>1. clients' = [clients EXCEPT ![c] = k]
    BY <1>10
  <2>2. k \in ClientStates /\ k.status = "blocked" /\ k.orphan = clients[c].orphan
        /\ k.mode = clients[c].mode
    BY <1>5 DEF ClientStates
  <2> HIDE DEF k
  <2>3. setting.enabled \/ k.orphan \/ k.mode # "proxy"
    BY <1>6, <2>2
  <2> QED
    BY <1>2, <1>3, <1>4, <1>10, <2>1, <2>2, <2>3, ClientMoves
<1>11. CASE /\ ~handler.undoing /\ SyncFailed
            /\ clients' = [d \in Clients |-> IF handler.undoing THEN [clients[d] EXCEPT !.stuck = TRUE]
                                             ELSE clients[d]]
  <2>1. clients' = clients
    BY <1>5, <1>11
  <2>2. handler' = Undo(FALSE)
    BY <1>11 DEF SyncFailed
  <2>3. runtime.enabled => runtime.address = handler.old
    BY <1>2, <1>11 DEF ProxyInv, RuntimeWillFollow
  <2> QED
    BY <1>4, <1>7, <2>1, <2>2, <2>3, RollsBack
<1>12. CASE /\ handler.undoing /\ SyncFailed
            /\ clients' = [d \in Clients |-> IF handler.undoing THEN [clients[d] EXCEPT !.stuck = TRUE]
                                             ELSE clients[d]]
  <2>1. /\ \A d \in Clients : clients'[d].stuck /\ clients'[d].mode = clients[d].mode
                             /\ clients'[d].orphan = clients[d].orphan
        /\ clients' \in [Clients -> ClientStates]
    <3>1. clients' = [d \in Clients |-> [clients[d] EXCEPT !.stuck = TRUE]]
      BY <1>12
    <3> QED
      BY <3>1, <1>5 DEF ClientStates
  <2>2. /\ handler' \in Handlings /\ PlanIsWhole' /\ (Left' # {} => SameGoals)
        /\ Left' = Left \cap {<<"restart", None>>}
    <3>1. CASE AfterSyncs(handler).steps # <<>>
      BY <3>1, <1>2, <1>3, <1>12, AfterFailedUndo DEF SyncFailed, ProxyInv
    <3>2. CASE AfterSyncs(handler).steps = <<>>
      <4>1. Finish("error")
        BY <3>2, <1>12 DEF SyncFailed
      <4>2. handler' \in Handlings /\ PlanIsWhole' /\ Left' = {}
        BY <4>1, Finishes
      <4>3. <<"restart", None>> \notin Left
        <5>1. handler \in Handlings /\ One("restart") # <<>>
          BY DEF ProxyInv, ProxyTypes, One
        <5>2. AfterSyncs(handler).steps = IF <<"restart", None>> \in Left THEN One("restart") ELSE <<>>
          BY <5>1 DEF AfterSyncs, Left, Members, Handlings
        <5> QED
          BY <5>1, <5>2, <3>2
      <4> QED
        BY <4>2, <4>3
    <3> QED
      BY <3>1, <3>2
  <2>3. UNCHANGED <<setting, runtime, server, active, failure, taken, life>>
    BY <1>4 DEF ProxyKept
  <2>4. ProxyTypes'
    BY <2>1, <2>2, <2>3 DEF ProxyInv, ProxyTypes, Tasks, Hosts, ClientStates
  <2>5. RuntimeWillFollow'
    <3>1. <<"restore", None>> \notin Left
      <4>1. Rank(<<"restore", None>>) = 4
        BY DEF Rank
      <4> QED
        BY <4>1, <1>2, <1>3 DEF Precedes
    <3>2. runtime.enabled = setting.enabled
          /\ (runtime.enabled => runtime.address = setting.address \/ <<"restart", None>> \in Left)
      BY <3>1 DEF ProxyInv, RuntimeWillFollow
    <3>3. \A x \in Left' : x = <<"restart", None>> /\ x[1] = "restart" /\ Rank(x) = 6
      BY <2>2 DEF Rank
    <3>4. BindingStarted'
      BY <3>3 DEF BindingStarted, Rank
    <3> QED
      BY <2>2, <2>3, <3>2, <3>3, <3>4 DEF RuntimeWillFollow
  <2>6. ConfigWillFollow'
    BY <2>1 DEF ConfigWillFollow
  <2>7. ClientsAreServed'
    <3>1. \A x \in Left' : ~Off(x)
      <4>1. ~Off(<<"restart", None>>)
        BY DEF Off
      <4> QED
        BY <4>1, <2>2
    <3> QED
      BY <2>1, <2>3, <3>1 DEF ProxyInv, ClientsAreServed, Off
  <2>8. ServerIsCurrent'
    BY <2>3 DEF ProxyInv, ServerIsCurrent
  <2> QED
    BY <2>2, <2>4, <2>5, <2>6, <2>7, <2>8 DEF ProxyInv
<1> QED
  BY <1>2, <1>8, <1>9, <1>10, <1>11, <1>12 DEF Synchronize, Outcomes

LEMMA WriteBindingStep == ASSUME ProxyInv, WriteBinding PROVE ProxyInv'
<1> DEFINE h == Head(handler.steps)  T == Members(Tail(handler.steps))
<1>1. PICK name \in {"host", "port", "restore"} : Do(name)
  BY DEF WriteBinding
<1>2. /\ handler.steps # <<>> /\ h[1] = name /\ h \in Steps /\ h \in Left
      /\ \A x \in T : x \in Left /\ Precedes(h, x)
      /\ \A x \in Left : x = h \/ x \in T
      /\ \A other : Do(other) => other = name
  BY <1>1, DoIs
<1>3. h = <<name, None>> /\ Rank(h) \in {3, 4} /\ ~On(h)
  BY <1>2, StepArguments DEF Rank
<1>4. /\ UNCHANGED <<server, failure, taken, life, runtime, active, clients>>
      /\ Proceed(handler)
  BY DEF WriteBinding, HandlerOnly
<1>5. /\ handler' \in Handlings /\ PlanIsWhole' /\ Left' = T /\ (Left' # {} => SameGoals)
  BY <1>2, <1>4, Advances DEF ProxyInv
<1>6. handler.goal \in Hosts /\ handler.old \in Hosts
  BY <1>2, <1>3 DEF ProxyInv, PlanIsWhole
<1>7. /\ setting' \in [enabled : BOOLEAN, address : Hosts] /\ setting'.enabled = setting.enabled
      /\ name = "restore" => setting'.address = handler.old
  <2>1. setting' = [setting EXCEPT !.address =
          IF Do("host") THEN Half ELSE IF Do("port") THEN handler.goal ELSE handler.old]
    BY DEF WriteBinding
  <2>2. setting \in [enabled : BOOLEAN, address : Hosts] /\ Half \in Hosts
    BY DEF ProxyInv, ProxyTypes, Hosts
  <2>3. name = "restore" => ~Do("host") /\ ~Do("port")
    BY <1>2
  <2> QED
    BY <2>1, <2>2, <2>3, <1>6
<1>8. ProxyTypes'
  BY <1>4, <1>5, <1>7 DEF ProxyInv, ProxyTypes, Tasks, Hosts, ClientStates
<1>9. BindingStarted'
  <2>1. \A x \in T : Rank(x) \in 1 .. 8 /\ Rank(x) >= Rank(h)
    <3> SUFFICES ASSUME NEW x \in T PROVE Rank(x) \in 1 .. 8 /\ Rank(x) >= Rank(h)
      OBVIOUS
    <3>1. x \in Steps /\ Precedes(h, x)
      BY <1>2, PlannedSteps DEF ProxyInv
    <3> QED
      BY <3>1, <1>2, <1>3, StepArguments DEF Precedes, Twice
  <2> QED
    BY <2>1, <1>3, <1>5 DEF BindingStarted, Rank
<1>10. \A c \in Clients : <<"sync", c>> \in T
  <2>1. \A c \in Clients : <<"sync", c>> \in Left
    BY <1>2 DEF ProxyInv, PlanIsWhole
  <2>2. \A c \in Clients : <<"sync", c>> # h
    BY <1>2
  <2> QED
    BY <2>1, <2>2, <1>2
<1>11. \A x \in T : Rank(h) < Rank(x)
  BY <1>2 DEF Precedes, Twice
<1>12. RuntimeWillFollow'
  <2>1. <<"restart", None>> \in Left => <<"restart", None>> \in T
    BY <1>2
  <2>2. name \in {"host", "port"} => <<"restart", None>> \in T
    BY <1>2, <2>1 DEF ProxyInv, PlanIsWhole
  <2>3. <<"restore", None>> \in T => name = "host"
    BY <1>3, <1>11 DEF Rank
  <2>4. SameGoals
    BY <1>5, <1>10 DEF Clients
  <2>5. runtime.enabled => \/ runtime.address = setting'.address
                           \/ <<"restart", None>> \in T
    <3>1. name = "restore" /\ runtime.enabled /\ <<"restart", None>> \notin Left
            => runtime.address = handler.old
      BY <1>2, <1>3 DEF ProxyInv, RuntimeWillFollow
    <3> QED
      BY <3>1, <2>1, <2>2, <1>7
  <2>6. runtime.enabled /\ ~handler.undoing => runtime.address = handler.old
    <3>1. \E x \in Left : x[1] = "sync"
      BY <1>2, <1>10 DEF Clients
    <3> QED
      BY <3>1 DEF ProxyInv, RuntimeWillFollow
  <2>7. \A step \in T : step[1] \in {"await", "late"} => runtime.enabled = step[2]
    BY <1>2 DEF ProxyInv, RuntimeWillFollow
  <2>8. (\E step \in T : step[1] = "join") /\ (\A step \in T : ~On(step)) => setting.enabled
    BY <1>2, <1>3 DEF ProxyInv, RuntimeWillFollow
  <2>9. runtime.enabled = setting'.enabled
    BY <1>7 DEF ProxyInv, RuntimeWillFollow
  <2>10. <<"restart", None>> \notin T => <<"restore", None>> \notin T
    BY <2>2, <2>3
  <2> QED
    BY <1>4, <1>5, <1>7, <1>9, <2>4, <2>5, <2>6, <2>7, <2>8, <2>9, <2>10
       DEF RuntimeWillFollow, SameGoals, Keeps, On
<1>13. ConfigWillFollow'
  BY <1>5, <1>9, <1>10 DEF ConfigWillFollow
<1>14. ClientsAreServed'
  <2>1. \A c \in Clients : <<"direct", c>> \in Left => <<"direct", c>> \in T
    BY <1>2
  <2> QED
    BY <1>2, <1>4, <1>5, <1>7, <2>1 DEF ProxyInv, ClientsAreServed, Off
<1>15. ServerIsCurrent'
  BY <1>4 DEF ProxyInv, ServerIsCurrent
<1> QED
  BY <1>5, <1>8, <1>12, <1>13, <1>14, <1>15 DEF ProxyInv

LEMMA EnableStep == ASSUME ProxyInv, Enable PROVE ProxyInv'
<1> DEFINE h == Head(handler.steps)  on == h[2]  T == Members(Tail(handler.steps))
<1>1. Do("toggle")
  BY DEF Enable
<1>2. /\ handler.steps # <<>> /\ h[1] = "toggle" /\ h \in Steps /\ h \in Left /\ Of("toggle") = on
      /\ \A x \in T : x \in Left /\ Precedes(h, x)
      /\ \A x \in Left : x = h \/ x \in T
  BY <1>1, DoIs
<1>3. on \in BOOLEAN /\ (On(h) <=> on) /\ (Off(h) <=> ~on) /\ Rank(h) = IF on THEN 7 ELSE 2
  BY <1>2, StepArguments DEF Rank
<1>4. UNCHANGED <<server, failure, taken, life, active>>
  BY DEF Enable, HandlerOnly
<1>5. CASE runtime.enabled = on /\ Proceed(handler) /\ UNCHANGED <<setting, runtime, clients>>
  <2>1. on => setting.enabled
    BY <1>5 DEF ProxyInv, RuntimeWillFollow
  <2>2. ProxyKept
    BY <1>4, <1>5 DEF ProxyKept
  <2> QED
    BY <1>2, <1>3, <1>5, <2>1, <2>2, PlanOnly
<1>6. CASE /\ setting' = [setting EXCEPT !.enabled = on] /\ Replace(on)
           /\ handler' = AwaitFirst(<<"await", on>>)
           /\ clients' = [c \in Clients |-> [clients[c] EXCEPT !.orphan = @ /\ ~on]]
  <2> DEFINE a == <<"await", on>>
  <2>1. a \in Steps /\ a[1] = "await" /\ Rank(a) = Rank(h) /\ a[2] = on /\ (On(a) <=> on) /\ (Off(a) <=> ~on)
    <3>1. a \in Steps
      BY <1>3, StepForms
    <3> QED
      BY <1>2, <1>3, <3>1, StepArguments DEF Rank
  <2>2. /\ handler' \in Handlings /\ PlanIsWhole' /\ SameGoals /\ Left' = {a} \cup T
    BY <1>2, <1>6, <2>1, Awaited DEF ProxyInv, Twice
  <2> HIDE DEF a
  <2>3. /\ setting' \in [enabled : BOOLEAN, address : Hosts] /\ setting'.enabled = on
        /\ setting'.address = setting.address
        /\ runtime' \in [enabled : BOOLEAN, address : Hosts, revision : Nat]
        /\ runtime'.enabled = on /\ runtime'.address = setting.address
    BY <1>3, <1>6 DEF ProxyInv, ProxyTypes, Replace
  <2>4. /\ clients' \in [Clients -> ClientStates]
        /\ \A c \in Clients : /\ clients'[c].mode = clients[c].mode
                              /\ clients'[c].endpoint = clients[c].endpoint
                              /\ clients'[c].status = clients[c].status
                              /\ clients'[c].stuck = clients[c].stuck
                              /\ ~on => clients'[c].orphan = clients[c].orphan
    <3>1. clients \in [Clients -> ClientStates]
      BY DEF ProxyInv, ProxyTypes
    <3>2. \A c \in Clients : (clients[c].orphan /\ ~on) \in BOOLEAN
                             /\ (~on => (clients[c].orphan /\ ~on) = clients[c].orphan)
      BY <3>1, <1>3 DEF ClientStates
    <3> QED
      BY <3>1, <3>2, <1>6 DEF ClientStates
  <2>5. ProxyTypes'
    BY <1>4, <2>2, <2>3, <2>4 DEF ProxyInv, ProxyTypes, Tasks, Hosts, ClientStates
  <2>6. \A x \in T : Rank(h) < Rank(x) /\ x \in Steps
    BY <1>2, PlannedSteps DEF Precedes, Twice, ProxyInv
  <2>7. \A x \in T : x[1] \notin {"await", "late"}
    <3> SUFFICES ASSUME NEW x \in T, x[1] \in {"await", "late"} PROVE FALSE
      OBVIOUS
    <3>1. Rank(h) >= Rank(x) /\ Rank(h) < Rank(x) /\ Rank(x) \in 1 .. 8 /\ Rank(h) \in 1 .. 8
      BY <1>2, <2>6, StepArguments DEF ProxyInv, PlanIsWhole
    <3> QED
      BY <3>1
  <2>8. on => \A x \in T : x[1] \notin {"sync", "restore", "restart"}
    <3> SUFFICES ASSUME on, NEW x \in T PROVE x[1] \notin {"sync", "restore", "restart"}
      OBVIOUS
    <3>1. Rank(x) > 7
      BY <1>3, <2>6, StepArguments
    <3> QED
      BY <3>1 DEF Rank
  <2>9. ~on => \A x \in Left : x[1] # "join"
    BY <1>2, <1>3 DEF ProxyInv, PlanIsWhole
  <2>10. RuntimeWillFollow'
    <3>1. setting'.enabled = runtime'.enabled /\ runtime'.address = setting'.address
      BY <2>3
    <3>2. runtime'.enabled => \A x \in Left' : x[1] \notin {"sync", "restore"}
      BY <2>1, <2>2, <2>3, <2>8
    <3>3. \A step \in Left' : step[1] \in {"await", "late"} => runtime'.enabled = step[2]
      BY <2>1, <2>2, <2>3, <2>7
    <3>4. (\E step \in Left' : step[1] = "join") => setting'.enabled
      BY <1>2, <2>1, <2>2, <2>3, <2>9
    <3>5. <<"restore", None>>[1] = "restore"
      OBVIOUS
    <3>6. runtime'.enabled => <<"restore", None>> \notin Left'
      BY <3>2, <3>5
    <3> QED
      BY <3>1, <3>2, <3>3, <3>4, <3>6 DEF RuntimeWillFollow
  <2>11. ConfigWillFollow'
    <3>1. BindingStarted => BindingStarted'
      BY <1>2, <2>1, <2>2 DEF BindingStarted, Rank
    <3>2. \A c \in Clients : <<"sync", c>> \in Left => <<"sync", c>> \in T
      BY <1>2
    <3> QED
      BY <2>2, <2>3, <2>4, <3>1, <3>2 DEF ProxyInv, ConfigWillFollow
  <2>12. ClientsAreServed'
    <3>1. CASE on
      <4>1. \A x \in Left' : ~Off(x)
        <5>1. \A x \in T : ~Off(x)
          BY <2>6, <1>3, <3>1, StepArguments DEF Rank
        <5> QED
          BY <5>1, <2>1, <2>2, <3>1
      <4> QED
        BY <4>1, <2>3, <3>1 DEF ClientsAreServed, Off
    <3>2. CASE ~on
      <4>1. \A c \in Clients : clients[c].mode # "proxy"
        <5> SUFFICES ASSUME NEW c \in Clients, clients[c].mode = "proxy" PROVE FALSE
          OBVIOUS
        <5>1. <<"direct", c>> \in Left
          BY <1>2, <1>3, <3>2 DEF ProxyInv, ClientsAreServed
        <5>2. Rank(<<"direct", c>>) = 1 /\ <<"direct", c>> # h
          BY <1>2 DEF Rank
        <5> QED
          BY <5>1, <5>2, <1>2, <1>3, <2>6
      <4> QED
        BY <4>1, <2>4 DEF ClientsAreServed
    <3> QED
      BY <1>3, <3>1, <3>2
  <2>13. ServerIsCurrent'
    BY <1>4 DEF ProxyInv, ServerIsCurrent
  <2> QED
    BY <2>2, <2>5, <2>10, <2>11, <2>12, <2>13 DEF ProxyInv
<1> QED
  BY <1>2, <1>5, <1>6 DEF Enable

LEMMA RebindStep == ASSUME ProxyInv, Rebind PROVE ProxyInv'
<1> DEFINE h == Head(handler.steps)  T == Members(Tail(handler.steps))  a == <<"rebound", TRUE>>
<1>1. Do("restart")
  BY DEF Rebind
<1>2. /\ handler.steps # <<>> /\ h[1] = "restart" /\ h \in Steps /\ h \in Left
      /\ \A x \in T : x \in Left /\ Precedes(h, x)
      /\ \A x \in Left : x = h \/ x \in T
  BY <1>1, DoIs
<1>3. ~On(h) /\ Rank(h) = 6
  BY <1>2, StepArguments DEF Rank
<1>4. UNCHANGED <<server, failure, taken, life, active, setting, clients>>
  BY DEF Rebind, HandlerOnly
<1>5. CASE ~runtime.enabled /\ Proceed(handler) /\ UNCHANGED runtime
  <2>1. ProxyKept
    BY <1>4, <1>5 DEF ProxyKept
  <2>2. \A c \in Clients : h \notin {<<"direct", c>>, <<"sync", c>>}
    BY <1>2
  <2> QED
    BY <1>2, <1>3, <1>4, <1>5, <2>1, <2>2, PlanOnly
<1>6. CASE runtime.enabled /\ Replace(TRUE) /\ handler' = AwaitFirst(<<"rebound", TRUE>>)
  <2>1. a \in Steps /\ a[1] = "rebound" /\ Rank(a) = Rank(h) /\ ~On(a) /\ ~Off(a)
    <3>1. a \in Steps
      BY StepForms
    <3> QED
      BY <1>3, <3>1, StepArguments DEF Rank
  <2>2. /\ handler' \in Handlings /\ PlanIsWhole' /\ SameGoals /\ Left' = {a} \cup T
    BY <1>2, <1>6, <2>1, Awaited DEF ProxyInv, Twice
  <2> HIDE DEF a
  <2>3. /\ runtime' \in [enabled : BOOLEAN, address : Hosts, revision : Nat]
        /\ runtime'.enabled /\ runtime'.address = setting.address
    BY <1>6 DEF ProxyInv, ProxyTypes, Replace
  <2>4. ProxyTypes'
    BY <1>4, <2>2, <2>3 DEF ProxyInv, ProxyTypes, Tasks, Hosts, ClientStates
  <2>5. \A x \in T : Rank(h) < Rank(x)
    BY <1>2 DEF Precedes, Twice
  <2>6. \A x \in Left' : x[1] \notin {"sync", "restore"}
    BY <1>3, <2>1, <2>2, <2>5 DEF Rank
  <2>7. setting.enabled /\ runtime.enabled /\ runtime'.enabled = runtime.enabled
    BY <1>6, <2>3 DEF ProxyInv, RuntimeWillFollow, ProxyTypes, Replace
  <2>8. RuntimeWillFollow'
    <3>1. \A step \in Left' : step[1] \in {"await", "late"} => runtime'.enabled = step[2]
      BY <1>2, <2>1, <2>2, <2>7 DEF ProxyInv, RuntimeWillFollow
    <3>2. <<"restore", None>>[1] = "restore"
      OBVIOUS
    <3>3. <<"restore", None>> \notin Left'
      BY <2>6, <3>2
    <3> QED
      BY <1>4, <2>3, <2>6, <2>7, <3>1, <3>3 DEF RuntimeWillFollow
  <2>9. ConfigWillFollow'
    <3>1. BindingStarted => BindingStarted'
      BY <1>2, <2>1, <2>2 DEF BindingStarted, Rank
    <3>2. \A c \in Clients : <<"sync", c>> \in Left => <<"sync", c>> \in T
      BY <1>2
    <3> QED
      BY <1>4, <2>2, <3>1, <3>2 DEF ProxyInv, ConfigWillFollow
  <2>10. ClientsAreServed'
    <3>1. \A c \in Clients : <<"direct", c>> \in Left => <<"direct", c>> \in T
      BY <1>2
    <3> QED
      BY <1>2, <1>4, <2>1, <2>2, <3>1 DEF ProxyInv, ClientsAreServed, Off
  <2>11. ServerIsCurrent'
    BY <1>4 DEF ProxyInv, ServerIsCurrent
  <2> QED
    BY <2>2, <2>4, <2>8, <2>9, <2>10, <2>11 DEF ProxyInv
<1> QED
  BY <1>5, <1>6 DEF Rebind

LEMMA AwaitsIs ==
  ASSUME ProxyInv, NEW name \in {"await", "late", "rebound", "unbound"}, Do(name)
  PROVE  /\ Head(handler.steps) = <<name, Of(name)>> /\ Of(name) \in BOOLEAN
         /\ \A other : Of(other) = Of(name)
         /\ name \in {"await", "late"} => runtime.enabled = Of(name)
         /\ name \in {"await", "late"} => Rank(Head(handler.steps)) = IF Of(name) THEN 7 ELSE 2
         /\ name \in {"rebound", "unbound"} => Rank(Head(handler.steps)) = 6
         /\ On(Head(handler.steps)) <=> name \in {"await", "late"} /\ Of(name)
<1>1. /\ handler.steps # <<>> /\ Head(handler.steps)[1] = name
      /\ Head(handler.steps) \in Steps /\ Head(handler.steps) \in Left
      /\ \A other : Of(other) = Head(handler.steps)[2]
  BY DoIs
<1>2. name \in {"await", "late"} => runtime.enabled = Head(handler.steps)[2]
  BY <1>1 DEF ProxyInv, RuntimeWillFollow
<1> QED
  BY <1>1, <1>2, StepArguments DEF Rank

LEMMA PollReadyStep == ASSUME ProxyInv, PollReady PROVE ProxyInv'
<1>1. PICK name \in {"await", "rebound"} : Do(name)
  BY DEF PollReady, Awaits
<1>2. /\ Head(handler.steps) = <<name, Of(name)>> /\ Of(name) \in BOOLEAN
      /\ name \in {"await", "late"} => runtime.enabled = Of(name)
      /\ On(Head(handler.steps)) <=> name \in {"await", "late"} /\ Of(name)
  BY <1>1, AwaitsIs
<1>3. handler.steps # <<>> /\ Head(handler.steps)[1] = name
  BY <1>1, DoIs
<1>4. ProxyKept /\ UNCHANGED clients /\ Proceed(handler)
  BY DEF PollReady, HandlerOnly, ProxyKept
<1>5. On(Head(handler.steps)) => setting.enabled
  BY <1>2 DEF ProxyInv, RuntimeWillFollow
<1>6. \A c \in Clients : Head(handler.steps) \notin {<<"direct", c>>, <<"sync", c>>}
  BY <1>3
<1>7. Head(handler.steps) # <<"restart", None>>
  BY <1>3
<1> QED
  BY <1>3, <1>4, <1>5, <1>6, <1>7, PlanOnly

LEMMA PollLastStep == ASSUME ProxyInv, PollLast PROVE ProxyInv'
<1> DEFINE h == Head(handler.steps)  T == Members(Tail(handler.steps))
           a == <<IF Do("await") THEN "late" ELSE "unbound", Of("await")>>
<1>1. PICK name \in {"await", "rebound"} : Do(name)
  BY DEF PollLast, Awaits
<1>2. /\ h = <<name, Of(name)>> /\ Of(name) \in BOOLEAN /\ Of("await") = Of(name)
      /\ name = "await" => runtime.enabled = Of(name)
      /\ name = "await" => Rank(h) = IF Of(name) THEN 7 ELSE 2
      /\ name = "rebound" => Rank(h) = 6
  BY <1>1, AwaitsIs
<1>3. /\ handler.steps # <<>> /\ h[1] = name /\ h \in Left /\ h \in Steps
      /\ \A x \in T : x \in Left /\ Precedes(h, x)
      /\ \A x \in Left : x = h \/ x \in T
      /\ \A other : Do(other) => other = name
  BY <1>1, DoIs
<1>4. UNCHANGED <<setting, runtime, server, active, failure, taken, life, clients>>
  BY DEF PollLast, HandlerOnly
<1>5. /\ a[1] = (IF name = "await" THEN "late" ELSE "unbound") /\ a[2] = Of(name)
      /\ a[1] \in {"late", "unbound"}
  BY <1>1, <1>2, <1>3
<1>6. a \in Steps
  BY <1>2, <1>5 DEF Steps
<1>7. Rank(a) = Rank(h) /\ handler' = AwaitFirst(a)
  BY <1>2, <1>5, <1>6, StepArguments DEF Rank, PollLast
<1> HIDE DEF a
<1>8. handler' \in Handlings /\ PlanIsWhole' /\ SameGoals /\ Left' = {a} \cup T
  BY <1>3, <1>5, <1>6, <1>7, Awaited DEF ProxyInv, Twice
<1>9. (On(a) <=> On(h)) \/ (name = "rebound" /\ ~On(a))
  <2>1. On(a) <=> a[1] \in {"toggle", "await", "late"} /\ a[2]
    BY <1>6, StepArguments
  <2>2. On(h) <=> h[1] \in {"toggle", "await", "late"} /\ h[2]
    BY <1>3, StepArguments
  <2>3. h[2] = Of(name)
    BY <1>2
  <2>4. CASE name = "rebound"
    BY <2>1, <2>4, <1>5
  <2>5. CASE name = "await" /\ Of(name) = TRUE
    <3>1. a[1] = "late" /\ a[2] = TRUE /\ h[1] = "await" /\ h[2] = TRUE
      BY <2>3, <2>5, <1>3, <1>5
    <3>2. On(a)
      BY <2>1, <3>1
    <3>3. On(h)
      BY <2>2, <3>1
    <3> QED
      BY <3>2, <3>3 DEF On
  <2>6. CASE name = "await" /\ Of(name) = FALSE
    BY <2>1, <2>2, <2>3, <2>6, <1>3, <1>5
  <2> QED
    BY <2>4, <2>5, <2>6, <1>2
<1>10. name = "rebound" => ~Off(a) /\ ~On(h)
  BY <1>3, <1>5, <1>6, StepArguments
<1>11. name = "await" => (Off(a) <=> Off(h))
  BY <1>2, <1>3, <1>5, <1>6, StepArguments
<1>12. ProxyTypes'
  BY <1>4, <1>8 DEF ProxyInv, ProxyTypes, Tasks, Hosts, ClientStates
<1>13. BindingStarted => BindingStarted'
  BY <1>3, <1>7, <1>8 DEF BindingStarted, Rank
<1>14. \A x : x[1] \notin {"await", "late", "rebound", "unbound"} => (x \in Left' <=> x \in Left)
  BY <1>3, <1>5, <1>8
<1>15. \A c \in Clients : /\ <<"sync", c>>[1] = "sync" /\ <<"direct", c>>[1] = "direct"
  OBVIOUS
<1>16. <<"restart", None>>[1] = "restart" /\ <<"restore", None>>[1] = "restore"
  OBVIOUS
<1>17. RuntimeWillFollow'
  <2>1. /\ <<"restart", None>> \in Left' <=> <<"restart", None>> \in Left
        /\ <<"restore", None>> \in Left' <=> <<"restore", None>> \in Left
    BY <1>14, <1>16
  <2>2. (\E step \in Left' : step[1] = "sync") => \E step \in Left : step[1] = "sync"
    BY <1>14
  <2>3. \A step \in Left' : step[1] \in {"await", "late"} => runtime.enabled = step[2]
    BY <1>2, <1>3, <1>5, <1>8 DEF ProxyInv, RuntimeWillFollow
  <2>4. (\E step \in Left' : step[1] = "join") => \E step \in Left : step[1] = "join"
    BY <1>14
  <2>5. (\A step \in Left' : ~On(step)) => \A step \in Left : ~On(step)
    BY <1>3, <1>8, <1>9, <1>10
  <2> QED
    BY <1>4, <1>8, <1>13, <2>1, <2>2, <2>3, <2>4, <2>5
       DEF ProxyInv, RuntimeWillFollow, SameGoals, Keeps, On
<1>18. ConfigWillFollow'
  BY <1>4, <1>13, <1>14, <1>15 DEF ProxyInv, ConfigWillFollow
<1>19. ClientsAreServed'
  <2>1. (\E x \in Left' : Off(x)) => \E x \in Left : Off(x)
    BY <1>3, <1>8, <1>10, <1>11
  <2> QED
    BY <1>4, <1>14, <1>15, <2>1 DEF ProxyInv, ClientsAreServed, Off
<1>20. ServerIsCurrent'
  BY <1>4 DEF ProxyInv, ServerIsCurrent
<1> QED
  BY <1>8, <1>12, <1>17, <1>18, <1>19, <1>20 DEF ProxyInv

LEMMA GiveUpStep == ASSUME ProxyInv, GiveUp PROVE ProxyInv'
<1> DEFINE h == Head(handler.steps)
<1>1. Do("late")
  BY DEF GiveUp
<1>2. /\ h = <<"late", Of("late")>> /\ Of("late") \in BOOLEAN /\ runtime.enabled = Of("late")
      /\ Rank(h) = IF Of("late") THEN 7 ELSE 2
  BY <1>1, AwaitsIs
<1>3. /\ handler.steps # <<>> /\ h[1] = "late" /\ h \in Left
      /\ \A x \in Left : x = h \/ x \in Members(Tail(handler.steps))
      /\ \A x \in Members(Tail(handler.steps)) : Precedes(h, x)
  BY <1>1, DoIs
<1>4. Finish("error") /\ UNCHANGED <<server, failure, taken, life, active>>
  BY DEF GiveUp, HandlerOnly
<1>5. CASE ~Of("late") /\ UNCHANGED <<setting, runtime, clients>>
  <2>1. ProxyKept
    BY <1>4, <1>5 DEF ProxyKept
  <2> QED
    BY <1>2, <1>3, <1>4, <1>5, <2>1, EndsEarly
<1>6. CASE /\ Of("late") /\ setting' = [setting EXCEPT !.enabled = FALSE] /\ Replace(FALSE)
           /\ clients' = [c \in Clients |->
                [clients[c] EXCEPT !.orphan = @ \/ clients[c].mode = "proxy"]]
  <2>1. handler' \in Handlings /\ PlanIsWhole' /\ Left' = {}
    BY <1>4, Finishes
  <2>2. /\ setting' \in [enabled : BOOLEAN, address : Hosts] /\ setting'.enabled = FALSE
        /\ setting'.address = setting.address
        /\ runtime' \in [enabled : BOOLEAN, address : Hosts, revision : Nat]
        /\ runtime'.enabled = FALSE
    <3>1. setting' = [setting EXCEPT !.enabled = FALSE]
          /\ setting \in [enabled : BOOLEAN, address : Hosts]
      BY <1>6 DEF ProxyInv, ProxyTypes
    <3>2. runtime.revision + 1 \in Nat /\ setting.address \in Hosts
      BY DEF ProxyInv, ProxyTypes
    <3>3. runtime' = [enabled |-> FALSE, address |-> setting.address, revision |-> runtime.revision + 1]
      BY <1>6 DEF Replace
    <3>4. runtime' \in [enabled : BOOLEAN, address : Hosts, revision : Nat] /\ runtime'.enabled = FALSE
      BY <3>2, <3>3
    <3>5. setting' \in [enabled : BOOLEAN, address : Hosts] /\ setting'.enabled = FALSE
          /\ setting'.address = setting.address
      BY <3>1
    <3> QED
      BY <3>4, <3>5
  <2>3. /\ clients' \in [Clients -> ClientStates]
        /\ \A c \in Clients : /\ clients'[c].mode = clients[c].mode
                              /\ clients'[c].endpoint = clients[c].endpoint
                              /\ clients'[c].status = clients[c].status
                              /\ clients'[c].stuck = clients[c].stuck
                              /\ clients'[c].mode = "proxy" => clients'[c].orphan
    <3>1. clients \in [Clients -> ClientStates]
      BY DEF ProxyInv, ProxyTypes
    <3>2. \A c \in Clients : /\ (clients[c].orphan \/ clients[c].mode = "proxy") \in BOOLEAN
                             /\ clients[c].mode = "proxy" =>
                                  (clients[c].orphan \/ clients[c].mode = "proxy")
      OBVIOUS
    <3> QED
      BY <3>1, <3>2, <1>6 DEF ClientStates
  <2>4. ProxyTypes'
    BY <1>4, <2>1, <2>2, <2>3 DEF ProxyInv, ProxyTypes, Tasks, Hosts, ClientStates
  <2>5. RuntimeWillFollow'
    BY <2>1, <2>2 DEF RuntimeWillFollow
  <2>6. ConfigWillFollow'
    <3>1. \A c \in Clients : <<"sync", c>> \notin Left
      <4>1. \A c \in Clients : Rank(<<"sync", c>>) = 5 /\ <<"sync", c>>[1] = "sync"
        BY DEF Rank
      <4>2. \A c \in Clients : <<"sync", c>> # h
        BY <4>1, <1>3
      <4>3. \A x \in Left : x = h \/ 7 < Rank(x)
        BY <1>2, <1>3, <1>6 DEF Precedes, Twice
      <4> SUFFICES ASSUME NEW c \in Clients, <<"sync", c>> \in Left PROVE FALSE
        OBVIOUS
      <4>4. 7 < Rank(<<"sync", c>>) /\ Rank(<<"sync", c>>) = 5
        BY <4>1, <4>2, <4>3
      <4> QED
        BY <4>4
    <3> QED
      BY <2>1, <2>2, <2>3, <3>1 DEF ProxyInv, ConfigWillFollow
  <2>7. ClientsAreServed' /\ ServerIsCurrent'
    BY <1>4, <2>1, <2>3 DEF ProxyInv, ClientsAreServed, ServerIsCurrent
  <2> QED
    BY <2>1, <2>4, <2>5, <2>6, <2>7 DEF ProxyInv
<1> QED
  BY <1>2, <1>5, <1>6 DEF GiveUp

LEMMA GiveUpRebindStep == ASSUME ProxyInv, GiveUpRebind PROVE ProxyInv'
<1> DEFINE h == Head(handler.steps)
<1>1. Do("unbound")
  BY DEF GiveUpRebind
<1>2. Rank(h) = 6
  BY <1>1, AwaitsIs
<1>3. handler.steps # <<>> /\ h[1] = "unbound" /\ h \in Left
  BY <1>1, DoIs
<1>4. ProxyKept /\ UNCHANGED clients
  BY DEF GiveUpRebind, HandlerOnly, ProxyKept
<1>5. CASE Finish("error")
  BY <1>2, <1>3, <1>4, <1>5, EndsEarly
<1>6. CASE handler' = Undo(TRUE)
  <2>1. handler.goal \in Hosts /\ handler.old \in Hosts
    BY <1>2, <1>3 DEF ProxyInv, PlanIsWhole
  <2> QED
    BY <1>4, <1>6, <2>1, RollsBack
<1> QED
  BY <1>5, <1>6 DEF GiveUpRebind

-----------------------------------------------------------------------------
(* The listener, the shutdown and a restart leave the plan alone or end it  *)

SettingsKept == UNCHANGED <<setting, runtime, clients, handler>>

LEMMA SettingsStay ==
  ASSUME ProxyInv, SettingsKept, ProxyTypes', ServerIsCurrent'
  PROVE  ProxyInv'
<1>1. UNCHANGED <<setting, runtime, clients, handler>>
  BY DEF SettingsKept
<1>2. Left' = Left /\ \A x : Rank(x)' = Rank(x) /\ On(x)' = On(x) /\ Off(x)' = Off(x)
  BY <1>1 DEF Left, Members, Rank, On, Off
<1>3. PlanIsWhole'
  BY <1>1, <1>2 DEF ProxyInv, PlanIsWhole, Ordered, Precedes, Rank, Hosts
<1>4. BindingStarted' = BindingStarted
  BY <1>2 DEF BindingStarted, Rank
<1>5. RuntimeWillFollow' /\ ConfigWillFollow' /\ ClientsAreServed'
  BY <1>1, <1>2, <1>4 DEF ProxyInv, RuntimeWillFollow, ConfigWillFollow, ClientsAreServed, On, Off
<1> QED
  BY <1>3, <1>5 DEF ProxyInv

LEMMA MissesType ==
  ASSUME ProxyTypes, NEW task \in Tasks
  PROVE  /\ Misses(life, task) \in [asked : BOOLEAN, main : {"select", "rpc", "proxy", "done"},
               rpc : {"select", "accepting", "ended"}, woken : SUBSET Tasks, deaf : SUBSET Tasks]
<1>1. (IF task \in life.woken THEN life.deaf \cup {task} ELSE life.deaf) \in SUBSET Tasks
  BY DEF ProxyTypes
<1>2. life.woken \ {task} \in SUBSET Tasks
  BY DEF ProxyTypes
<1> QED
  BY <1>1, <1>2 DEF ProxyTypes, Misses

ServerStates == [pc : {"idle", "bind", "serve", "retry", "ended"}, seen : Nat,
                 desired : [enabled : BOOLEAN, address : Hosts \cup {None}, revision : Nat]]

LEMMA ServeStep == ASSUME ProxyInv, Serve PROVE ProxyInv'
<1> USE DEF ServerStates
<1>1. /\ server \in ServerStates /\ runtime \in [enabled : BOOLEAN, address : Hosts, revision : Nat]
      /\ server.desired \in [enabled : BOOLEAN, address : Hosts \cup {None}, revision : Nat]
      /\ runtime \in [enabled : BOOLEAN, address : Hosts \cup {None}, revision : Nat]
      /\ active \in Hosts \cup {None} /\ failure \in BOOLEAN
      /\ ServerIsCurrent
  BY DEF ProxyInv, ProxyTypes
<1>2. \A rev \in Nat, pc \in {"idle", "bind", "serve", "retry", "ended"} :
         Serving(pc, runtime, rev) \in ServerStates /\ Serving(pc, NoDesire, rev) \in ServerStates
  BY <1>1 DEF Serving, NoDesire
<1>3. \A pc \in {"idle", "bind", "serve", "retry", "ended"} : [server EXCEPT !.pc = pc] \in ServerStates
  BY <1>1
<1>4. \A rev \in Nat : [server EXCEPT !.seen = rev] \in ServerStates
  BY <1>1
<1>5. SettingsKept /\ taken' = taken
  BY DEF Serve, LeaveIdle, Bind, SeeChange, TryAgain, HearShutdown, ProxyOnly, SettingsKept
<1>6. life' \in [asked : BOOLEAN, main : {"select", "rpc", "proxy", "done"},
         rpc : {"select", "accepting", "ended"}, woken : SUBSET Tasks, deaf : SUBSET Tasks]
  <2>1. life \in [asked : BOOLEAN, main : {"select", "rpc", "proxy", "done"},
         rpc : {"select", "accepting", "ended"}, woken : SUBSET Tasks, deaf : SUBSET Tasks]
    BY DEF ProxyInv, ProxyTypes
  <2>2. life' = life \/ life' = Misses(life, "proxy") \/ life' = [life EXCEPT !.woken = @ \ {"proxy"}]
    BY DEF Serve, LeaveIdle, Bind, SeeChange, TryAgain, HearShutdown
  <2>3. life.woken \ {"proxy"} \in SUBSET Tasks
    BY <2>1
  <2> QED
    BY <2>1, <2>2, <2>3, MissesType DEF ProxyInv, Tasks
<1>7. server' \in ServerStates /\ active' \in Hosts \cup {None} /\ failure' \in BOOLEAN
      /\ ServerIsCurrent'
  <2>1. CASE LeaveIdle
    <3>1. server' \in ServerStates /\ server'.pc # "serve"
      BY <2>1, <1>1, <1>2, <1>4 DEF LeaveIdle, Serving
    <3>2. active' = active /\ failure' = failure /\ server.pc = "idle"
      BY <2>1 DEF LeaveIdle
    <3> QED
      BY <3>1, <3>2, <1>1 DEF ServerIsCurrent
  <2>2. CASE Bind
    <3>1. CASE server.desired.address \in taken
      BY <2>2, <3>1, <1>1, <1>3 DEF Bind, ServerIsCurrent
    <3>2. CASE server.desired.address \notin taken
      <4>1. server' = [server EXCEPT !.pc = "serve"] /\ active' = server.desired.address
            /\ failure' = FALSE
        BY <2>2, <3>2 DEF Bind
      <4> QED
        BY <4>1, <1>1, <1>3 DEF ServerIsCurrent
    <3> QED
      BY <3>1, <3>2
  <2>3. CASE SeeChange
    <3>1. CASE runtime = server.desired
      BY <2>3, <3>1, <1>1, <1>4 DEF SeeChange, ServerIsCurrent
    <3>2. CASE runtime # server.desired
      <4>1. active' = None /\ failure' = failure
        BY <2>3, <3>2 DEF SeeChange
      <4>2. server' \in ServerStates /\ server'.pc # "serve"
        BY <2>3, <3>2, <1>1, <1>2, <1>3 DEF SeeChange, Serving
      <4> QED
        BY <4>1, <4>2, <1>1 DEF ServerIsCurrent
    <3> QED
      BY <3>1, <3>2
  <2>4. CASE TryAgain
    <3>1. server.pc = "retry" /\ active' = active /\ failure' = failure
      BY <2>4 DEF TryAgain
    <3>2. PICK rev \in {server.seen, runtime.revision} :
            server' = IF life.asked THEN [server EXCEPT !.pc = "ended"]
                      ELSE IF runtime.enabled THEN Serving("bind", runtime, rev)
                      ELSE Serving("idle", NoDesire, rev)
      BY <2>4 DEF TryAgain
    <3>3. rev \in Nat
      BY <1>1
    <3>4. server' \in ServerStates /\ server'.pc # "serve"
      BY <3>2, <3>3, <1>1, <1>2, <1>3 DEF Serving
    <3> QED
      BY <3>1, <3>4, <1>1 DEF ServerIsCurrent
  <2>5. CASE HearShutdown
    <3>1. server' \in ServerStates /\ server'.pc = "ended" /\ failure' = failure
      BY <2>5, <1>1, <1>3 DEF HearShutdown
    <3>2. active' = None
      BY <2>5, <1>1 DEF HearShutdown, ServerIsCurrent
    <3> QED
      BY <3>1, <3>2, <1>1 DEF ServerIsCurrent
  <2> QED
    BY <2>1, <2>2, <2>3, <2>4, <2>5 DEF Serve
<1>8. ProxyTypes'
  BY <1>5, <1>6, <1>7 DEF ProxyInv, ProxyTypes, SettingsKept, Tasks, Hosts, ClientStates, Handlings, Steps
<1> QED
  BY <1>5, <1>7, <1>8, SettingsStay

LifeStates == [asked : BOOLEAN, main : {"select", "rpc", "proxy", "done"},
               rpc : {"select", "accepting", "ended"}, woken : SUBSET Tasks, deaf : SUBSET Tasks]

LEMMA LifeMoves == ASSUME ProxyInv, LifeOnly, life' \in LifeStates PROVE ProxyInv'
<1>1. UNCHANGED <<setting, runtime, server, active, failure, taken, clients, handler>>
  BY DEF LifeOnly
<1>2. ProxyTypes' /\ ServerIsCurrent' /\ SettingsKept
  BY <1>1 DEF ProxyInv, ProxyTypes, ServerIsCurrent, SettingsKept, LifeStates, Tasks, Hosts,
              ClientStates, Handlings, Steps
<1> QED
  BY <1>2, SettingsStay

LEMMA NotifyType ==
  ASSUME NEW l \in [asked : BOOLEAN, main : {"select", "rpc", "proxy", "done", "notified"},
                    rpc : {"select", "accepting", "ended"}, woken : SUBSET Tasks, deaf : SUBSET Tasks]
  PROVE  /\ Notify(l) \in [asked : BOOLEAN, main : {"select", "rpc", "proxy", "done", "notified"},
                    rpc : {"select", "accepting", "ended"}, woken : SUBSET Tasks, deaf : SUBSET Tasks]
         /\ Notify(l).main = l.main
<1>1. l.woken \cup {t \in Tasks : Waits(t)} \in SUBSET Tasks
      /\ {t \in Tasks : Alive(t) /\ ~Waits(t)} \in SUBSET Tasks
  OBVIOUS
<1> QED
  BY <1>1 DEF Notify

LEMMA LifeSteps ==
  ASSUME ProxyInv,
         \/ AskShutdown \/ Accept \/ Accepted \/ RpcHears \/ AcceptFails \/ MainAwaits
         \/ \E signal \in BOOLEAN : MainWakes(signal)
  PROVE  ProxyInv'
<1>1. life \in LifeStates
  BY DEF ProxyInv, ProxyTypes, LifeStates
<1>2. LifeOnly
  BY DEF AskShutdown, Accept, Accepted, RpcHears, AcceptFails, MainAwaits, MainWakes
<1>3. life' \in LifeStates
  <2>1. CASE AskShutdown
    <3>1. Notify(life).main \in {"select", "rpc", "proxy", "done"}
      BY <1>1, NotifyType DEF LifeStates
    <3> QED
      BY <2>1, <3>1, <1>1, NotifyType DEF AskShutdown, LifeStates
  <2>2. CASE Accept
    <3>1. Misses(life, "rpc") \in LifeStates
      BY MissesType DEF ProxyInv, LifeStates, Tasks
    <3> QED
      BY <2>2, <3>1 DEF Accept, LifeStates
  <2>3. CASE Accepted
    BY <2>3, <1>1 DEF Accepted, LifeStates
  <2>4. CASE RpcHears \/ AcceptFails
    <3>1. life.woken \ {"rpc"} \in SUBSET Tasks
      BY <1>1 DEF LifeStates
    <3>2. life' = [life EXCEPT !.rpc = "ended", !.woken = life.woken \ {"rpc"}]
      BY <2>4 DEF RpcHears, AcceptFails
    <3> QED
      BY <3>1, <3>2, <1>1 DEF LifeStates
  <2>5. CASE MainAwaits
    BY <2>5, <1>1 DEF MainAwaits, LifeStates
  <2>6. ASSUME NEW signal \in BOOLEAN, MainWakes(signal) PROVE life' \in LifeStates
    <3> DEFINE l == [life EXCEPT !.main = "notified"]  n == Notify(l)
               m == IF life.rpc = "ended" /\ ~life.asked THEN "done" ELSE "rpc"
    <3>1. l \in [asked : BOOLEAN, main : {"select", "rpc", "proxy", "done", "notified"},
                 rpc : {"select", "accepting", "ended"}, woken : SUBSET Tasks, deaf : SUBSET Tasks]
      BY <1>1 DEF LifeStates
    <3> HIDE DEF l
    <3>2. n \in [asked : BOOLEAN, main : {"select", "rpc", "proxy", "done", "notified"},
                 rpc : {"select", "accepting", "ended"}, woken : SUBSET Tasks, deaf : SUBSET Tasks]
      BY <3>1, NotifyType
    <3>3. life' = [n EXCEPT !.woken = n.woken \ {"main"}, !.main = m]
      BY <2>6 DEF MainWakes, l
    <3>4. m \in {"rpc", "done"} /\ n.woken \ {"main"} \in SUBSET Tasks
      BY <3>2
    <3> HIDE DEF m, n
    <3> QED
      BY <3>2, <3>3, <3>4 DEF LifeStates
  <2> QED
    BY <2>1, <2>2, <2>3, <2>4, <2>5, <2>6
<1> QED
  BY <1>2, <1>3, LifeMoves

LEMMA MoveStep == ASSUME ProxyInv, NEW a \in Addresses, Move(a) PROVE ProxyInv'
<1>1. SettingsKept /\ UNCHANGED <<server, active, failure, life>> /\ taken' \subseteq Addresses
  BY DEF Move, SettingsKept, ProxyInv, ProxyTypes
<1>2. ProxyTypes' /\ ServerIsCurrent'
  BY <1>1 DEF ProxyInv, ProxyTypes, ServerIsCurrent, SettingsKept, Tasks, Hosts, ClientStates,
              Handlings, Steps
<1> QED
  BY <1>1, <1>2, SettingsStay

LEMMA NothingLeft ==
  ASSUME handler' = Resting PROVE handler' \in Handlings /\ PlanIsWhole' /\ Left' = {}
<1>1. handler' \in Handlings /\ handler'.steps = <<>>
  BY NoPlan DEF Handlings, Resting
<1>2. Left' = {} /\ Ordered(handler.steps)'
  BY <1>1, NoPlan DEF Left, Members, Ordered
<1> QED
  BY <1>1, <1>2 DEF PlanIsWhole

LEMMA RestartStep == ASSUME ProxyInv, Restart PROVE ProxyInv'
<1>1. handler' \in Handlings /\ PlanIsWhole' /\ Left' = {}
  BY NothingLeft DEF Restart
<1>2. UNCHANGED <<setting, taken>> /\ active' = None /\ failure' = FALSE /\ life' = Running
      /\ runtime' = [enabled |-> setting.enabled, address |-> setting.address, revision |-> 0]
  BY DEF Restart
<1>3. setting \in [enabled : BOOLEAN, address : Hosts] /\ clients \in [Clients -> ClientStates]
      /\ taken \subseteq Addresses
  BY DEF ProxyInv, ProxyTypes
<1>4. /\ runtime' \in [enabled : BOOLEAN, address : Hosts, revision : Nat]
      /\ runtime' \in [enabled : BOOLEAN, address : Hosts \cup {None}, revision : Nat]
      /\ NoDesire \in [enabled : BOOLEAN, address : Hosts \cup {None}, revision : Nat]
      /\ runtime'.enabled = setting.enabled /\ runtime'.address = setting.address
  BY <1>2, <1>3 DEF NoDesire
<1>5. /\ server' \in [pc : {"idle", "bind", "serve", "retry", "ended"}, seen : Nat,
                      desired : [enabled : BOOLEAN, address : Hosts \cup {None}, revision : Nat]]
      /\ server'.pc # "serve"
  <2>1. server' = IF setting.enabled THEN Serving("bind", runtime', 0) ELSE Serving("idle", NoDesire, 0)
    BY DEF Restart
  <2> QED
    BY <2>1, <1>4 DEF Serving
<1>6. /\ clients' \in [Clients -> ClientStates]
      /\ \A c \in Clients :
           /\ clients'[c].mode = clients[c].mode /\ clients'[c].orphan = clients[c].orphan
           /\ clients'[c].mode = "proxy" =>
                \/ clients'[c].endpoint = setting.address
                \/ clients'[c].status = "blocked" \/ clients'[c].stuck
  <2>1. PICK outcome \in [Clients -> Outcomes] :
          clients' = [c \in Clients |->
               IF clients[c].mode = "direct" THEN clients[c]
               ELSE CASE outcome[c] = "written" ->
                      [clients[c] EXCEPT !.endpoint = setting.address,
                         !.status = "synchronized", !.stuck = FALSE]
                 [] outcome[c] = "blocked" -> [clients[c] EXCEPT !.status = "blocked"]
                 [] outcome[c] = "hard" -> [clients[c] EXCEPT !.stuck = TRUE]]
    BY DEF Restart
  <2> SUFFICES ASSUME NEW c \in Clients
               PROVE  /\ clients'[c] \in ClientStates
                      /\ clients'[c].mode = clients[c].mode /\ clients'[c].orphan = clients[c].orphan
                      /\ clients'[c].mode = "proxy" =>
                           \/ clients'[c].endpoint = setting.address
                           \/ clients'[c].status = "blocked" \/ clients'[c].stuck
    BY <2>1
  <2>2. clients[c] \in ClientStates /\ outcome[c] \in {"written", "blocked", "hard"}
        /\ setting.address \in Hosts
    BY <1>3, <2>1 DEF Outcomes
  <2>3. CASE clients[c].mode = "direct"
    <3>1. clients'[c] = clients[c]
      BY <2>1, <2>3
    <3> QED
      BY <2>2, <2>3, <3>1
  <2>4. CASE clients[c].mode # "direct" /\ outcome[c] = "written"
    <3>1. clients'[c] = [clients[c] EXCEPT !.endpoint = setting.address, !.status = "synchronized",
                                           !.stuck = FALSE]
      BY <2>1, <2>4
    <3> QED
      BY <2>2, <3>1 DEF ClientStates
  <2>5. CASE clients[c].mode # "direct" /\ outcome[c] = "blocked"
    <3>1. clients'[c] = [clients[c] EXCEPT !.status = "blocked"]
      BY <2>1, <2>5
    <3> QED
      BY <2>2, <3>1 DEF ClientStates
  <2>6. CASE clients[c].mode # "direct" /\ outcome[c] = "hard"
    <3>1. clients'[c] = [clients[c] EXCEPT !.stuck = TRUE]
      BY <2>1, <2>6
    <3> QED
      BY <2>2, <3>1 DEF ClientStates
  <2> QED
    BY <2>2, <2>3, <2>4, <2>5, <2>6
<1>7. ProxyTypes'
  BY <1>1, <1>2, <1>3, <1>4, <1>5, <1>6 DEF ProxyTypes, Running, Tasks, Hosts, ClientStates
<1>8. RuntimeWillFollow' /\ ConfigWillFollow'
  BY <1>1, <1>2, <1>4, <1>6 DEF RuntimeWillFollow, ConfigWillFollow
<1>9. ClientsAreServed' /\ ServerIsCurrent'
  BY <1>1, <1>2, <1>5, <1>6 DEF ProxyInv, ClientsAreServed, ServerIsCurrent
<1> QED
  BY <1>1, <1>7, <1>8, <1>9 DEF ProxyInv

LEMMA ProxyInit0 == ProxyInit => ProxyInv
<1> SUFFICES ASSUME ProxyInit PROVE ProxyInv
  OBVIOUS
<1>1. handler = Resting /\ handler \in Handlings /\ handler.steps = <<>>
  BY NoPlan DEF ProxyInit, Handlings, Resting
<1>2. Left = {} /\ PlanIsWhole
  BY <1>1, NoPlan DEF Left, PlanIsWhole
<1>3. 1 \in Hosts
  BY ProxyRuntimeAssumption DEF Hosts
<1>4. clients \in [Clients -> ClientStates]
  BY DEF ProxyInit, ClientStates
<1>5. ProxyTypes
  BY <1>1, <1>3, <1>4 DEF ProxyInit, ProxyTypes, Serving, NoDesire, Running
<1>6. RuntimeWillFollow /\ ConfigWillFollow /\ ClientsAreServed /\ ServerIsCurrent
  BY <1>2 DEF ProxyInit, RuntimeWillFollow, ConfigWillFollow, ClientsAreServed, ServerIsCurrent, Serving
<1> QED
  BY <1>2, <1>5, <1>6 DEF ProxyInv

LEMMA ProxyStays == ProxyInv /\ UNCHANGED proxyVars => ProxyInv'
<1> SUFFICES ASSUME ProxyInv, UNCHANGED proxyVars PROVE ProxyInv'
  OBVIOUS
<1>1. LifeOnly /\ life' \in LifeStates
  BY DEF proxyVars, LifeOnly, LifeStates, ProxyInv, ProxyTypes
<1> QED
  BY <1>1, LifeMoves

LEMMA ProxyNextStep == ProxyInv /\ [ProxyNext]_proxyVars => ProxyInv'
<1>1. ProxyInv /\ Handle => ProxyInv'
  BY ApplyModeStep, DisableStep, SynchronizeStep, WriteBindingStep, EnableStep, RebindStep,
     PollReadyStep, PollLastStep, GiveUpStep, GiveUpRebindStep DEF Handle
<1>2. ProxyInv /\ ProxyNext => ProxyInv'
  BY <1>1, ServeStep, LifeSteps, SetModeStep, UpdateSettingsStep, MoveStep, RestartStep DEF ProxyNext
<1> QED
  BY <1>2, ProxyStays

LEMMA ProxySafe == ProxyInv => ProxyIsCoherent
<1> SUFFICES ASSUME ProxyInv PROVE ProxyIsCoherent
  OBVIOUS
<1>1. ProxyTypeOK
  BY DEF ProxyInv, ProxyTypes, ProxyTypeOK, Hosts
<1>2. handler.steps = <<>> => Left = {}
  BY NoPlan DEF Left
<1>3. ConfigFollowsSettings
  BY <1>2 DEF ProxyInv, ConfigWillFollow, ConfigFollowsSettings
<1>4. RuntimeFollowsSettings
  BY <1>2 DEF ProxyInv, RuntimeWillFollow, RuntimeFollowsSettings
<1>5. ProxiedIsEnabled
  BY <1>2 DEF ProxyInv, ClientsAreServed, ProxiedIsEnabled
<1>6. FailureIsCurrent
  BY DEF ProxyInv, ServerIsCurrent, FailureIsCurrent, Listening
<1> QED
  BY <1>1, <1>3, <1>4, <1>5, <1>6 DEF ProxyIsCoherent

-----------------------------------------------------------------------------
(* Providers and what refers to them: a job that writes has the row it is  *)
(* writing for, its journal row is the last, and what a client is told to  *)
(* use is what the database says unless a write is under way or left.      *)

Modes == {"direct", "proxy"}
ProviderTargets ==
  [id : Ids \cup {Nobody}, row : Rows \cup {Gone}, mode : Modes, image : BOOLEAN]
ProviderFiles ==
  [by : {"user", "hsin"}, id : Ids \cup {Nobody}, rev : Nat, mode : Modes,
   image : BOOLEAN, edits : Nat]
JobPlaces == {"down", "idle", "commit", "write", "auth", "activate", "mode", "finish",
              "image", "sync_auth", "sync_proxy", "stuck"}
ProviderJobs ==
  [pc : JobPlaces, target : ProviderTargets, row : Rows \cup {Gone}, id : Ids \cup {Nobody},
   before : ProviderFiles, had : BOOLEAN,
   then : {"idle", "image", "image_written", "sync_proxy", "serve"}]
ProviderTypes ==
  /\ kind \in {"codex", "claude"}
  /\ rows \in [Ids -> Rows \cup {Gone}] /\ image \in Ids \cup {Nobody}
  /\ client \in [active : Ids \cup {Nobody}, mode : Modes,
                 status : {"conflict", "unmanaged", "synchronized", "unavailable"}]
  /\ file \in ProviderFiles
  /\ journal \in Seq([target : ProviderTargets, before : ProviderFiles])
  /\ job \in ProviderJobs /\ owed \in BOOLEAN /\ assumed \in BOOLEAN
  /\ quota \in [handler : Nat, fault : Nat, crash : Nat, user : Nat]

\* A target names a provider that serves the client.
Serves(t) == t.id \in Ids /\ t.row \in Rows /\ t.row.primary
BuiltInStays ==
  /\ rows[Official] \in {Gone, OfficialRow}
  /\ \A k \in DOMAIN journal : Serves(journal[k].target)
NothingYet ==
  client.active = Nobody =>
    /\ job.pc = "down" /\ journal = <<>> /\ image = Nobody /\ file.by = "user"
    /\ \A i \in Ids : rows[i] = Gone
WritePlaces == {"write", "auth", "activate", "mode", "finish"}
Writes == job.pc \in WritePlaces
HoldsEntry == Writes \/ (job.pc = "commit" /\ HasTarget)
JournalIsShort ==
  Len(journal) + quota.fault + quota.crash
    <= JobFaults + JobCrashes + (IF HoldsEntry THEN 1 ELSE 0)
LastTarget == journal[Len(journal)].target
Offers(t) == kind = "codex" /\ t.mode = "proxy" /\ (IF job.then = "image" THEN job.had ELSE Available)
JobKnows ==
  /\ HoldsEntry => journal # <<>> /\ LastTarget = job.target
  /\ Writes => /\ rows[job.target.id] = job.target.row
               /\ job.target.image = Offers(job.target)
  /\ job.pc = "commit" =>
       /\ job.id \in Ids \ {Official} /\ job.row \in Rows /\ Present(job.id)
       /\ job.row.rev = rows[job.id].rev + 1 /\ job.row.primary = rows[job.id].primary
       /\ job.had = Available /\ job.then = "image"
       /\ IF HasTarget
            THEN /\ job.target.id = job.id /\ job.target.row = job.row
                 /\ job.target.image = Offers(job.target)
            ELSE job.id # client.active \/ (kind = "claude" /\ client.mode = "proxy")
  /\ job.pc \in {"auth", "activate", "mode", "finish"} =>
       file.by = "user" \/ Patched(file, job.target) = file
  /\ job.pc \in {"mode", "finish"} =>
       client.active = job.target.id /\ client.status = "synchronized"
  /\ job.pc = "finish" => client.mode = job.target.mode

\* hsin's own text: Claude's helper for the proxy names no provider, another one does.
FileIsOurs ==
  file.by = "hsin" =>
    IF kind = "claude" /\ file.mode = "proxy" THEN file.id = Nobody
    ELSE file.id \in Ids \ {Official}
ClaudeAssumes == assumed => kind = "claude"
Agrees ==
  client.status = "synchronized" /\ file.by = "hsin" /\ ~assumed =>
    /\ file.mode = client.mode
    /\ file.id # Nobody => file.id = client.active /\ rows[file.id].rev = file.rev
\* Recovery will not put such an entry aside without marking the client.
Aborts(op) == Present(op.target.id) /\ rows[op.target.id].rev < op.target.row.rev
WillAgree ==
  \/ Agrees \/ Writes
  \/ job.pc = "down" /\ \E k \in DOMAIN journal : ~Aborts(journal[k])
ShowsImages(available) ==
  client.status = "synchronized" /\ file.by = "hsin" /\ kind = "codex"
    /\ client.mode = "proxy" /\ ~owed => file.image = available
ImagesAgree ==
  /\ job.pc \in {"idle", "commit", "sync_proxy"} => ShowsImages(Available)
  /\ job.pc = "image" => ShowsImages(job.had)

ProvidersInv ==
  /\ ProviderTypes /\ ReferencesResolve /\ BuiltInStays /\ NothingYet /\ JournalIsShort
  /\ JobKnows /\ FileIsOurs /\ ClaudeAssumes /\ WillAgree /\ ImagesAgree

-----------------------------------------------------------------------------
(* What the operators return.                                              *)

LEMMA RowsAre ==
  /\ OfficialRow \in Rows /\ OfficialRow.primary /\ ~OfficialRow.image
  /\ \A row \in Rows : row.rev \in 1..MaxRev /\ row.image \in BOOLEAN /\ row.primary \in BOOLEAN
BY ProvidersConstants DEF OfficialRow, Rows

LEMMA TargetIs ==
  ASSUME NEW i \in Ids, NEW row \in Rows, NEW mode \in Modes
  PROVE  /\ Target(i, row, mode) \in ProviderTargets /\ Target(i, row, mode) # NoTarget
         /\ Target(i, row, mode).id = i /\ Target(i, row, mode).row = row
         /\ Target(i, row, mode).mode = mode
         /\ Target(i, row, mode).image = (kind = "codex" /\ mode = "proxy" /\ Available)
<1> DEFINE t == Target(i, row, mode)
<1>1. (kind = "codex" /\ mode = "proxy" /\ Available) \in BOOLEAN
  OBVIOUS
<1>2. t = [id |-> i, row |-> row, mode |-> mode,
           image |-> kind = "codex" /\ mode = "proxy" /\ Available]
  BY DEF Target
<1>3. t.id = i /\ NoTarget.id = Nobody
  BY <1>2 DEF NoTarget
<1>4. t \in ProviderTargets
  BY <1>1, <1>2 DEF ProviderTargets
<1> QED
  BY <1>2, <1>3, <1>4, ProvidersConstants

LEMMA PatchedIs ==
  ASSUME kind \in {"codex", "claude"}, NEW f \in ProviderFiles, NEW t \in ProviderTargets,
         Serves(t)
  PROVE  LET g == Patched(f, t) IN
         /\ g \in ProviderFiles /\ Patched(g, t) = g
         /\ IF t.id = Official THEN g.by = "user"
            ELSE /\ g.by = "hsin" /\ g.mode = t.mode
                 /\ IF kind = "claude" /\ t.mode = "proxy"
                      THEN g.id = Nobody
                      ELSE g.id = t.id /\ g.rev = t.row.rev /\ g.image = t.image
<1> DEFINE g == Patched(f, t)
<1>0. t.row.rev \in Nat /\ t.mode \in Modes /\ t.image \in BOOLEAN /\ t.id \in Ids
  BY RowsAre, ProvidersConstants DEF Serves, ProviderTargets
<1>1. CASE t.id = Official
  <2>1. g = [f EXCEPT !.by = "user", !.id = Nobody, !.rev = 0, !.mode = "direct", !.image = FALSE]
    BY <1>1 DEF Patched
  <2> HIDE DEF g
  <2>2. g \in ProviderFiles /\ g.by = "user"
    BY <2>1 DEF ProviderFiles, Modes
  <2>3. Patched(g, t) = [g EXCEPT !.by = "user", !.id = Nobody, !.rev = 0, !.mode = "direct", !.image = FALSE]
    BY <1>1 DEF Patched
  <2>4. Patched(g, t) = g
    BY <2>1, <2>3 DEF ProviderFiles
  <2> QED
    BY <2>2, <2>4, <1>1 DEF g
<1>2. CASE t.id # Official /\ kind = "claude" /\ t.mode = "proxy"
  <2>1. g = [f EXCEPT !.by = "hsin", !.id = Nobody, !.rev = 0, !.mode = "proxy", !.image = FALSE]
    BY <1>2 DEF Patched
  <2> HIDE DEF g
  <2>2. g \in ProviderFiles /\ g.by = "hsin" /\ g.mode = "proxy" /\ g.id = Nobody
    BY <2>1 DEF ProviderFiles, Modes
  <2>3. Patched(g, t) = [g EXCEPT !.by = "hsin", !.id = Nobody, !.rev = 0, !.mode = "proxy", !.image = FALSE]
    BY <1>2 DEF Patched
  <2>4. Patched(g, t) = g
    BY <2>1, <2>3 DEF ProviderFiles
  <2> QED
    BY <2>2, <2>4, <1>2 DEF g
<1>3. CASE t.id # Official /\ ~(kind = "claude" /\ t.mode = "proxy")
  <2>1. g = [f EXCEPT !.by = "hsin", !.id = t.id, !.rev = t.row.rev, !.mode = t.mode, !.image = t.image]
    BY <1>3 DEF Patched
  <2>2. /\ g \in ProviderFiles /\ g.by = "hsin" /\ g.mode = t.mode /\ g.id = t.id
        /\ g.rev = t.row.rev /\ g.image = t.image
    BY <2>1, <1>0 DEF ProviderFiles, Modes
  <2>3. Patched(g, t) = [g EXCEPT !.by = "hsin", !.id = t.id, !.rev = t.row.rev, !.mode = t.mode, !.image = t.image]
    BY <1>3 DEF Patched
  <2>4. Patched(g, t) = g
    BY <2>1, <2>3 DEF ProviderFiles
  <2> QED
    BY <2>2, <2>4, <1>3
<1> QED
  BY <1>1, <1>2, <1>3

JournalRows == [target : ProviderTargets, before : ProviderFiles]
LEMMA JournalGrows ==
  ASSUME journal \in Seq(JournalRows), file \in ProviderFiles, NEW t \in ProviderTargets
  PROVE  /\ Journaled(t) \in Seq(JournalRows) /\ Journaled(t) # <<>>
         /\ Len(Journaled(t)) = Len(journal) + 1
         /\ Journaled(t)[Len(journal) + 1].target = t
         /\ \A k \in DOMAIN journal : Journaled(t)[k] = journal[k]
         /\ \A k \in DOMAIN Journaled(t) : k \in DOMAIN journal \/ Journaled(t)[k].target = t
<1>1. [target |-> t, before |-> file] \in JournalRows
  BY DEF JournalRows
<1> QED
  BY <1>1 DEF Journaled

LEMMA JournalShrinks ==
  ASSUME journal \in Seq(JournalRows), journal # <<>>
  PROVE  /\ DropLast \in Seq(JournalRows) /\ Len(DropLast) = Len(journal) - 1
         /\ \A k \in DOMAIN DropLast : k \in DOMAIN journal /\ DropLast[k] = journal[k]
         /\ Head(journal) = journal[1] /\ Head(journal) \in JournalRows
         /\ LET rest == SubSeq(journal, 2, Len(journal)) IN
            /\ rest \in Seq(JournalRows) /\ Len(rest) = Len(journal) - 1
            /\ \A k \in DOMAIN rest : k + 1 \in DOMAIN journal /\ rest[k] = journal[k + 1]
            /\ \A k \in DOMAIN journal : k = 1 \/ (k - 1 \in DOMAIN rest /\ rest[k - 1] = journal[k])
<1>1. Len(journal) \in Nat /\ Len(journal) > 0 /\ DOMAIN journal = 1..Len(journal)
  OBVIOUS
<1>2. \A k \in DOMAIN journal : journal[k] \in JournalRows
  OBVIOUS
<1>3. /\ DropLast \in Seq(JournalRows) /\ Len(DropLast) = Len(journal) - 1
      /\ \A k \in DOMAIN DropLast : k \in DOMAIN journal /\ DropLast[k] = journal[k]
  BY <1>1, <1>2 DEF DropLast
<1>4. Head(journal) = journal[1] /\ Head(journal) \in JournalRows
  BY <1>1, <1>2
<1> DEFINE rest == SubSeq(journal, 2, Len(journal))
<1>5. rest \in Seq(JournalRows) /\ Len(rest) = Len(journal) - 1 /\ DOMAIN rest = 1..(Len(journal) - 1)
  BY <1>1, <1>2
<1>6. \A k \in DOMAIN rest : k + 1 \in DOMAIN journal /\ rest[k] = journal[k + 1]
  BY <1>1, <1>2, <1>5
<1>7. \A k \in DOMAIN journal : k = 1 \/ (k - 1 \in DOMAIN rest /\ rest[k - 1] = journal[k])
  BY <1>1, <1>2, <1>5, <1>6
<1> QED
  BY <1>3, <1>4, <1>5, <1>6, <1>7

LEMMA IdleIs ==
  ASSUME NEW pc \in JobPlaces, NEW f \in ProviderFiles, NEW t \in ProviderTargets,
         NEW then \in {"idle", "image", "image_written", "sync_proxy", "serve"}
  PROVE  /\ [Idle EXCEPT !.pc = pc] \in ProviderJobs
         /\ [Idle EXCEPT !.pc = pc].pc = pc /\ [Idle EXCEPT !.pc = pc].target = NoTarget
         /\ [Idle EXCEPT !.pc = pc, !.target = t, !.before = f, !.then = then] \in ProviderJobs
         /\ Idle \in ProviderJobs /\ Idle.pc = "idle" /\ Idle.then = "idle" /\ Idle.target = NoTarget
         /\ \A h \in BOOLEAN : [Idle EXCEPT !.pc = pc, !.had = h] \in ProviderJobs
<1>1. NoTarget \in ProviderTargets /\ Native(0) \in ProviderFiles
  BY DEF NoTarget, ProviderTargets, Native, ProviderFiles, Modes
<1>2. Idle \in ProviderJobs
  BY <1>1 DEF Idle, ProviderJobs, JobPlaces
<1> QED
  BY <1>1, <1>2 DEF Idle, ProviderJobs

-----------------------------------------------------------------------------
(* What the steps do to the invariant.                                     *)

QuotaFalls ==
  /\ quota' \in [handler : Nat, fault : Nat, crash : Nat, user : Nat]
  /\ quota'.fault <= quota.fault /\ quota'.crash <= quota.crash

LEMMA ProvidersBegin == ProvidersInit => ProvidersInv
<1> SUFFICES ASSUME ProvidersInit PROVE ProvidersInv
  OBVIOUS
<1>1. NoTarget \in ProviderTargets /\ Native(0) \in ProviderFiles
  BY DEF NoTarget, ProviderTargets, Native, ProviderFiles, Modes
<1>2. job \in ProviderJobs /\ job.pc = "down"
  BY <1>1, IdleIs DEF ProvidersInit, JobPlaces
<1>3. <<>> \in Seq(JournalRows) /\ Len(<<>>) = 0 /\ DOMAIN <<>> = {}
  OBVIOUS
<1>4. quota \in [handler : Nat, fault : Nat, crash : Nat, user : Nat]
      /\ quota.fault = JobFaults /\ quota.crash = JobCrashes
  BY ProvidersConstants DEF ProvidersInit
<1>5. ProviderTypes
  BY <1>1, <1>2, <1>3, <1>4 DEF ProvidersInit, ProviderTypes, Modes, JournalRows
<1>6. ReferencesResolve /\ BuiltInStays /\ NothingYet /\ FileIsOurs /\ ClaudeAssumes
  BY <1>2, <1>3, ProvidersConstants
     DEF ProvidersInit, ReferencesResolve, BuiltInStays, NothingYet, FileIsOurs, ClaudeAssumes, Native
<1>7. JournalIsShort
  BY <1>2, <1>3, <1>4, ProvidersConstants DEF ProvidersInit, JournalIsShort, HoldsEntry, Writes, WritePlaces
<1>8. JobKnows /\ WillAgree /\ ImagesAgree
  BY <1>2 DEF ProvidersInit, JobKnows, HoldsEntry, Writes, WritePlaces, WillAgree, Agrees, ImagesAgree, Native
<1> QED
  BY <1>5, <1>6, <1>7, <1>8 DEF ProvidersInv

\* A write begins with the row it is for.
LEMMA WriteBegins ==
  ASSUME ProvidersInv, NEW t \in ProviderTargets,
         NEW then \in {"idle", "image_written", "sync_proxy", "serve"},
         Serves(t), rows[t.id] = t.row, t # NoTarget,
         t.image = (kind = "codex" /\ t.mode = "proxy" /\ Available),
         job.pc \in {"idle", "image", "sync_auth", "sync_proxy"},
         UNCHANGED <<kind, rows, client, image, file, owed, assumed>>,
         journal' = Journaled(t), job' = WriteJob(t, then), QuotaFalls
  PROVE  ProvidersInv'
<1>1. /\ journal \in Seq(JournalRows) /\ file \in ProviderFiles /\ ProviderTypes
      /\ quota \in [handler : Nat, fault : Nat, crash : Nat, user : Nat]
  BY DEF ProvidersInv, ProviderTypes, JournalRows
<1>2. /\ journal' \in Seq(JournalRows) /\ journal' # <<>> /\ Len(journal') = Len(journal) + 1
      /\ journal'[Len(journal) + 1].target = t
      /\ \A k \in DOMAIN journal' : k \in DOMAIN journal \/ journal'[k].target = t
      /\ \A k \in DOMAIN journal : journal'[k] = journal[k]
  BY <1>1, JournalGrows
<1>3. /\ job' \in ProviderJobs /\ job'.pc = "write" /\ job'.target = t /\ job'.then = then
      /\ job'.before = file
  <2>1. job' = [Idle EXCEPT !.pc = "write", !.target = t, !.before = file, !.then = then]
    BY DEF WriteJob
  <2>2. "write" \in JobPlaces
    BY DEF JobPlaces
  <2>3. [Idle EXCEPT !.pc = "write", !.target = t, !.before = file, !.then = then] \in ProviderJobs
    BY <2>2, <1>1, IdleIs
  <2> QED
    BY <2>1, <2>3 DEF Idle
<1>4. ProviderTypes'
  BY <1>1, <1>2, <1>3 DEF ProviderTypes, JournalRows, QuotaFalls
<1>5. ReferencesResolve' /\ FileIsOurs' /\ ClaudeAssumes'
  BY DEF ProvidersInv, ReferencesResolve, Present, FileIsOurs, ClaudeAssumes
<1>6. BuiltInStays'
  BY <1>2 DEF ProvidersInv, BuiltInStays, Serves
<1>7. client.active # Nobody
  BY DEF ProvidersInv, NothingYet
<1>8. NothingYet'
  BY <1>7 DEF NothingYet
<1>9. JournalIsShort'
  <2>1. HoldsEntry' /\ ~HoldsEntry
    BY <1>3 DEF HoldsEntry, Writes, WritePlaces
  <2>2. /\ Len(journal) \in Nat /\ quota.fault \in Nat /\ quota.crash \in Nat
        /\ quota'.fault \in Nat /\ quota'.crash \in Nat
        /\ quota'.fault <= quota.fault /\ quota'.crash <= quota.crash
    BY <1>1 DEF QuotaFalls
  <2>3. Len(journal) + quota.fault + quota.crash <= JobFaults + JobCrashes + 0
    BY <2>1 DEF ProvidersInv, JournalIsShort
  <2>4. Len(journal') + quota'.fault + quota'.crash <= JobFaults + JobCrashes + 1
    BY SMTT(20), <1>2, <2>2, <2>3, ProvidersConstants
  <2> QED
    BY <2>1, <2>4 DEF JournalIsShort
<1>10. JobKnows'
  <2>1. LastTarget' = t
    BY <1>2 DEF LastTarget
  <2>2. Offers(t)' = t.image
    BY <1>3 DEF Offers, Available
  <2> QED
    BY <1>2, <1>3, <2>1, <2>2 DEF JobKnows, HoldsEntry, Writes, WritePlaces
<1>11. WillAgree' /\ ImagesAgree'
  BY <1>3 DEF WillAgree, Writes, WritePlaces, ImagesAgree
<1> QED
  BY <1>4, <1>5, <1>6, <1>8, <1>9, <1>10, <1>11 DEF ProvidersInv

\* A step that leaves journal and file.
LEMMA RestStays ==
  ASSUME ProvidersInv, QuotaFalls, UNCHANGED <<kind, file, journal, assumed>>,
         rows' \in [Ids -> Rows \cup {Gone}], image' \in Ids \cup {Nobody},
         client' \in [active : Ids \cup {Nobody}, mode : Modes,
                      status : {"conflict", "unmanaged", "synchronized", "unavailable"}],
         job' \in ProviderJobs, owed' \in BOOLEAN,
         rows'[Official] \in {Gone, OfficialRow},
         client'.active # Nobody \/ (UNCHANGED <<rows, image, client>> /\ job'.pc = job.pc)
  PROVE  /\ ProviderTypes' /\ BuiltInStays' /\ NothingYet' /\ FileIsOurs' /\ ClaudeAssumes'
         /\ (HoldsEntry' <=> HoldsEntry) => JournalIsShort'
<1>1. ProviderTypes /\ quota \in [handler : Nat, fault : Nat, crash : Nat, user : Nat]
      /\ Len(journal) \in Nat
  BY DEF ProvidersInv, ProviderTypes
<1>2. ProviderTypes'
  BY <1>1 DEF ProviderTypes, QuotaFalls
<1>3. BuiltInStays'
  BY DEF ProvidersInv, BuiltInStays
<1>4. NothingYet'
  BY DEF ProvidersInv, NothingYet
<1>5. FileIsOurs' /\ ClaudeAssumes'
  BY DEF ProvidersInv, FileIsOurs, ClaudeAssumes
<1>6. ASSUME HoldsEntry' <=> HoldsEntry PROVE JournalIsShort'
  <2>1. /\ quota.fault \in Nat /\ quota.crash \in Nat
        /\ quota'.fault \in Nat /\ quota'.crash \in Nat
        /\ quota'.fault <= quota.fault /\ quota'.crash <= quota.crash
    BY <1>1 DEF QuotaFalls
  <2> DEFINE one == IF HoldsEntry THEN 1 ELSE 0
  <2>2. one \in Nat /\ one' = one
    BY <1>6
  <2>3. Len(journal) + quota.fault + quota.crash <= JobFaults + JobCrashes + one
    BY DEF ProvidersInv, JournalIsShort
  <2> HIDE DEF one
  <2>4. Len(journal') + quota'.fault + quota'.crash <= JobFaults + JobCrashes + one
    BY SMTT(20), <1>1, <2>1, <2>2, <2>3, ProvidersConstants
  <2> QED
    BY <2>2, <2>4 DEF JournalIsShort, one
<1> QED
  BY <1>2, <1>3, <1>4, <1>5, <1>6

LEMMA FreeIs == ASSUME ProvidersInv, Free PROVE QuotaFalls /\ job.pc = "idle" /\ client.active # Nobody
<1>1. quota \in [handler : Nat, fault : Nat, crash : Nat, user : Nat]
  BY DEF ProvidersInv, ProviderTypes
<1>2. quota' = [quota EXCEPT !.handler = @ - 1] /\ quota.handler > 0
  BY DEF Free
<1>3. quota.handler - 1 \in Nat
  BY <1>1, <1>2
<1>4. QuotaFalls
  BY <1>1, <1>2, <1>3 DEF QuotaFalls
<1> QED
  BY <1>4 DEF Free, ProvidersInv, NothingYet

\* The rows change and the availability of images is looked at next.
LEMMA ImageNext ==
  ASSUME ProvidersInv, Free, UNCHANGED <<kind, client, file, journal, owed, assumed>>,
         job' = [Idle EXCEPT !.pc = "image", !.had = Available],
         rows' \in [Ids -> Rows \cup {Gone}], image' \in Ids \cup {Nobody},
         rows'[Official] \in {Gone, OfficialRow},
         rows'[client.active] = rows[client.active],
         image' # Nobody => image' \in Ids /\ rows'[image'] # Gone /\ rows'[image'].image
  PROVE  ProvidersInv'
<1>0. QuotaFalls /\ job.pc = "idle" /\ client.active \in Ids /\ ProviderTypes
  BY FreeIs DEF ProvidersInv, ProviderTypes
<1>1. /\ job' \in ProviderJobs /\ job'.pc = "image" /\ job'.had = Available
      /\ job'.target = NoTarget
  <2>1. Available \in BOOLEAN /\ "image" \in JobPlaces
    BY DEF Available, JobPlaces
  <2>2. NoTarget \in ProviderTargets /\ file \in ProviderFiles
    BY <1>0 DEF NoTarget, ProviderTargets, ProviderTypes, Modes
  <2>3. job' \in ProviderJobs
    BY <2>1, <2>2, IdleIs
  <2> QED
    BY <2>1, <2>3 DEF Idle
<1>2. ~HoldsEntry /\ ~HoldsEntry'
  BY <1>0, <1>1 DEF HoldsEntry, Writes, WritePlaces
<1>3. /\ ProviderTypes' /\ BuiltInStays' /\ NothingYet' /\ FileIsOurs' /\ ClaudeAssumes'
      /\ JournalIsShort'
  BY <1>0, <1>1, <1>2, RestStays, ProvidersConstants DEF ProviderTypes
<1>4. ReferencesResolve'
  BY <1>0 DEF ProvidersInv, ReferencesResolve, Present
<1>5. JobKnows'
  BY <1>1, <1>2 DEF JobKnows, Writes, WritePlaces
<1>6. Agrees
  BY <1>0 DEF ProvidersInv, WillAgree, Writes, WritePlaces
<1>7. WillAgree'
  BY <1>6 DEF WillAgree, Agrees
<1>8. ImagesAgree'
  <2>1. ShowsImages(Available)
    BY <1>0 DEF ProvidersInv, ImagesAgree
  <2> QED
    BY <1>1, <2>1 DEF ImagesAgree, ShowsImages
<1> QED
  BY <1>3, <1>4, <1>5, <1>7, <1>8 DEF ProvidersInv

LEMMA AddStep == ASSUME ProvidersInv, NEW i \in Ids, Add(i) PROVE ProvidersInv'
<1>1. PICK row \in Rows :
        /\ row.image => kind = "codex"
        /\ rows' = [rows EXCEPT ![i] = row]
        /\ image' = IF row.image /\ image = Nobody THEN i ELSE image
        /\ job' = [Idle EXCEPT !.pc = "image", !.had = Available]
  BY DEF Add, InsertRow, ImageAfterInsert
<1>2. /\ Free /\ i # Official /\ rows[i] = Gone
      /\ UNCHANGED <<kind, client, file, journal, owed, assumed>>
  BY DEF Add, Stays, Present
<1>3. /\ rows \in [Ids -> Rows \cup {Gone}] /\ image \in Ids \cup {Nobody}
      /\ client.active \in Ids
      /\ rows[client.active] # Gone /\ rows[Official] \in {Gone, OfficialRow}
      /\ image # Nobody => rows[image] # Gone /\ rows[image].image
  BY <1>2, FreeIs DEF ProvidersInv, ProviderTypes, ReferencesResolve, Present, BuiltInStays
<1>4. row # Gone
  BY RowsAre, ProvidersConstants
<1>5. /\ rows' \in [Ids -> Rows \cup {Gone}] /\ rows'[client.active] = rows[client.active]
      /\ rows'[Official] \in {Gone, OfficialRow}
  BY <1>1, <1>2, <1>3, ProvidersConstants
<1>6. image' \in Ids \cup {Nobody}
      /\ (image' # Nobody => image' \in Ids /\ rows'[image'] # Gone /\ rows'[image'].image)
  BY <1>1, <1>2, <1>3, <1>4
<1> QED
  BY <1>1, <1>2, <1>5, <1>6, ImageNext

LEMMA RemoveStep == ASSUME ProvidersInv, NEW i \in Ids, Remove(i) PROVE ProvidersInv'
<1>1. /\ rows' = [rows EXCEPT ![i] = Gone] /\ image' = IF image = i THEN Nobody ELSE image
      /\ job' = [Idle EXCEPT !.pc = "image", !.had = Available]
      /\ Free /\ client.active # i
      /\ UNCHANGED <<kind, client, file, journal, owed, assumed>>
  BY DEF Remove, RemoveRow, Removable, Stays
<1>2. /\ rows \in [Ids -> Rows \cup {Gone}] /\ image \in Ids \cup {Nobody}
      /\ client.active \in Ids /\ rows[Official] \in {Gone, OfficialRow}
      /\ image # Nobody => rows[image] # Gone /\ rows[image].image
  BY <1>1, FreeIs DEF ProvidersInv, ProviderTypes, ReferencesResolve, Present, BuiltInStays
<1>3. /\ rows' \in [Ids -> Rows \cup {Gone}] /\ rows'[client.active] = rows[client.active]
      /\ rows'[Official] \in {Gone, OfficialRow}
  BY <1>1, <1>2, ProvidersConstants
<1>4. image' \in Ids \cup {Nobody}
      /\ (image' # Nobody => image' \in Ids /\ rows'[image'] # Gone /\ rows'[image'].image)
  BY <1>1, <1>2
<1> QED
  BY <1>1, <1>3, <1>4, ImageNext

LEMMA SwitchImageStep == ASSUME ProvidersInv, NEW i \in Ids, SwitchImage(i) PROVE ProvidersInv'
<1>1. /\ rows' = rows /\ image' = i /\ rows[i] # Gone /\ rows[i].image
      /\ job' = [Idle EXCEPT !.pc = "image", !.had = Available]
      /\ Free /\ UNCHANGED <<kind, client, file, journal, owed, assumed>>
  BY DEF SwitchImage, ImageSelectable, Present, Stays
<1>2. rows \in [Ids -> Rows \cup {Gone}] /\ rows[Official] \in {Gone, OfficialRow}
  BY DEF ProvidersInv, ProviderTypes, BuiltInStays
<1> QED
  BY <1>1, <1>2, ImageNext

LEMMA ChangeModeStep == ASSUME ProvidersInv, NEW mode \in Modes, ChangeMode(mode) PROVE ProvidersInv'
<1>1. /\ Free /\ client.active # Nobody
      /\ UNCHANGED <<kind, rows, client, image, file, owed, assumed>>
  BY DEF ChangeMode, Stays
<1>2. /\ client.active \in Ids /\ rows[client.active] \in Rows /\ rows[client.active].primary
  BY <1>1 DEF ProvidersInv, ProviderTypes, ReferencesResolve, Present
<1>3. PICK t : t = Target(client.active, rows[client.active], mode)
  OBVIOUS
<1>4. journal' = Journaled(t) /\ job' = WriteJob(t, "idle")
  BY <1>3 DEF ChangeMode
<1>5. /\ t \in ProviderTargets /\ t # NoTarget /\ t.id = client.active
      /\ t.row = rows[client.active]
      /\ t.image = (kind = "codex" /\ t.mode = "proxy" /\ Available)
  BY <1>2, <1>3, TargetIs
<1> QED
  BY <1>1, <1>2, <1>4, <1>5, WriteBegins, FreeIs DEF Serves

LEMMA SwitchStep == ASSUME ProvidersInv, NEW i \in Ids, Switch(i) PROVE ProvidersInv'
<1>1. /\ Free /\ rows[i] # Gone /\ rows[i].primary /\ UNCHANGED <<kind, rows, image, file, owed>>
  BY DEF Switch, Stays, Present
<1>2. PICK mode : mode = IF i = Official THEN "direct" ELSE client.mode
  OBVIOUS
<1>3. /\ ProviderTypes /\ rows[i] \in Rows /\ mode \in Modes /\ QuotaFalls /\ job.pc = "idle"
  BY <1>1, <1>2, FreeIs DEF ProvidersInv, ProviderTypes, Modes
<1>4. CASE /\ mode = "proxy" /\ kind = "claude"
           /\ client' = [client EXCEPT !.active = i, !.status = "synchronized"]
           /\ assumed' = (assumed \/ client.status # "synchronized")
           /\ Stays(<<job, journal>>)
  <2>1. /\ client'.active = i /\ client'.mode = client.mode /\ client.mode = "proxy"
        /\ client'.status = "synchronized" /\ job' = job /\ journal' = journal
    BY <1>2, <1>3, <1>4 DEF Stays, ProviderTypes
  <2>2. ~HoldsEntry /\ ~HoldsEntry'
    BY <1>3, <2>1 DEF HoldsEntry, Writes, WritePlaces
  <2>3. ProviderTypes'
    BY <1>1, <1>3, <1>4, <2>1 DEF ProviderTypes, QuotaFalls
  <2>4. BuiltInStays' /\ NothingYet' /\ FileIsOurs' /\ ClaudeAssumes'
    BY <1>1, <1>4, <2>1, ProvidersConstants
       DEF ProvidersInv, BuiltInStays, NothingYet, FileIsOurs, ClaudeAssumes
  <2>5. JournalIsShort'
    <3>1. /\ quota.fault \in Nat /\ quota.crash \in Nat
          /\ quota'.fault \in Nat /\ quota'.crash \in Nat /\ Len(journal) \in Nat
          /\ quota'.fault <= quota.fault /\ quota'.crash <= quota.crash
      BY <1>3 DEF QuotaFalls, ProviderTypes
    <3>2. Len(journal) + quota.fault + quota.crash <= JobFaults + JobCrashes
      BY <2>2, ProvidersConstants DEF ProvidersInv, JournalIsShort
    <3> QED
      BY SMTT(20), <2>1, <2>2, <3>1, <3>2, ProvidersConstants DEF JournalIsShort
  <2>6. ReferencesResolve'
    BY <1>1, <1>3, <2>1 DEF ProvidersInv, ReferencesResolve, Present
  <2>7. JobKnows'
    BY <1>3, <2>1 DEF JobKnows, HoldsEntry, Writes, WritePlaces
  <2>8. Agrees
    BY <1>3 DEF ProvidersInv, WillAgree, Writes, WritePlaces
  <2>9. Agrees'
    BY <1>1, <1>4, <2>1, <2>8 DEF ProvidersInv, Agrees, FileIsOurs
  <2>10. ImagesAgree'
    BY <1>1, <1>3, <1>4, <2>1 DEF ImagesAgree, ShowsImages
  <2> QED
    BY <2>3, <2>4, <2>5, <2>6, <2>7, <2>9, <2>10 DEF ProvidersInv, WillAgree
<1>5. CASE /\ journal' = Journaled(Target(i, rows[i], mode))
           /\ job' = WriteJob(Target(i, rows[i], mode), "idle")
           /\ Stays(<<client, assumed>>)
  <2>1. PICK t : t = Target(i, rows[i], mode)
    OBVIOUS
  <2>2. /\ t \in ProviderTargets /\ t # NoTarget /\ t.id = i /\ t.row = rows[i]
        /\ t.image = (kind = "codex" /\ t.mode = "proxy" /\ Available)
    BY <1>3, <2>1, TargetIs
  <2> QED
    BY <1>1, <1>3, <1>5, <2>1, <2>2, WriteBegins DEF Serves, Stays
<1> QED
  BY <1>2, <1>4, <1>5 DEF Switch

LEMMA EditStep == ASSUME ProvidersInv, NEW i \in Ids, EditProvider(i) PROVE ProvidersInv'
<1>1. /\ Free /\ rows[i] # Gone /\ i # Official
      /\ UNCHANGED <<kind, rows, client, image, file, owed, assumed>>
  BY DEF EditProvider, Stays, Present
<1>2. PICK row \in Rows, mapping \in BOOLEAN :
        /\ row.rev = rows[i].rev + 1 /\ row.primary = rows[i].primary
        /\ mapping => kind = "claude"
        /\ LET used == row.primary /\ client.active = i
               direct == used /\ client.mode = "direct"
               writes == used /\ (direct \/ mapping \/ kind = "codex")
               t == IF writes THEN Target(i, row, client.mode) ELSE NoTarget IN
           /\ direct => row.direct
           /\ journal' = IF writes THEN Journaled(t) ELSE journal
           /\ job' = [Idle EXCEPT !.pc = "commit", !.target = t, !.row = row, !.id = i,
                        !.before = file, !.had = Available, !.then = "image"]
  BY DEF EditProvider
<1>3. PICK writes \in BOOLEAN :
        writes = (/\ row.primary /\ client.active = i
                  /\ \/ row.primary /\ client.active = i /\ client.mode = "direct"
                     \/ mapping \/ kind = "codex")
  OBVIOUS
<1>4. PICK t : t = IF writes THEN Target(i, row, client.mode) ELSE NoTarget
  OBVIOUS
<1>5. /\ journal' = IF writes THEN Journaled(t) ELSE journal
      /\ job' = [Idle EXCEPT !.pc = "commit", !.target = t, !.row = row, !.id = i,
                   !.before = file, !.had = Available, !.then = "image"]
  BY <1>2, <1>3, <1>4
<1>6. /\ QuotaFalls /\ job.pc = "idle" /\ client.active \in Ids /\ ProviderTypes
      /\ client.mode \in Modes /\ rows[i] \in Rows /\ kind \in {"codex", "claude"}
  BY <1>1, FreeIs DEF ProvidersInv, ProviderTypes
<1>7. /\ t \in ProviderTargets /\ (t # NoTarget <=> writes)
      /\ writes => /\ t.id = i /\ t.row = row /\ t.mode = client.mode
                   /\ t.image = (kind = "codex" /\ t.mode = "proxy" /\ Available)
  <2>1. NoTarget \in ProviderTargets
    BY DEF NoTarget, ProviderTargets, Modes
  <2> QED
    BY <1>4, <1>6, <2>1, TargetIs
<1>8. /\ job' \in ProviderJobs /\ job'.pc = "commit" /\ job'.target = t /\ job'.row = row
      /\ job'.id = i /\ job'.had = Available /\ job'.then = "image"
  <2>1. Available \in BOOLEAN /\ "commit" \in JobPlaces /\ file \in ProviderFiles
    BY <1>6 DEF Available, JobPlaces, ProviderTypes
  <2>2. job' = [pc |-> "commit", target |-> t, row |-> row, id |-> i, before |-> file,
                had |-> Available, then |-> "image"]
    BY <1>5 DEF Idle
  <2> QED
    BY <1>7, <2>1, <2>2 DEF ProviderJobs
<1>9. ~HoldsEntry /\ (HoldsEntry' <=> writes) /\ ~Writes /\ ~Writes'
  BY <1>6, <1>7, <1>8 DEF HoldsEntry, Writes, WritePlaces, HasTarget
<1>10. /\ journal \in Seq(JournalRows) /\ journal' \in Seq(JournalRows)
       /\ writes => journal' # <<>> /\ Len(journal') = Len(journal) + 1 /\ LastTarget' = t
       /\ \A k \in DOMAIN journal' :
            (k \in DOMAIN journal /\ journal'[k] = journal[k]) \/ (writes /\ journal'[k].target = t)
  <2>1. journal \in Seq(JournalRows) /\ file \in ProviderFiles
    BY <1>6 DEF ProviderTypes, JournalRows
  <2>2. CASE writes
    <3>1. journal' = Journaled(t)
      BY <1>5, <2>2
    <3>2. /\ journal' \in Seq(JournalRows) /\ journal' # <<>> /\ Len(journal') = Len(journal) + 1
          /\ journal'[Len(journal) + 1].target = t
          /\ \A k \in DOMAIN journal' : k \in DOMAIN journal \/ journal'[k].target = t
          /\ \A k \in DOMAIN journal : journal'[k] = journal[k]
      BY <1>7, <2>1, <3>1, JournalGrows
    <3>3. LastTarget' = t
      BY <3>2 DEF LastTarget
    <3>4. \A k \in DOMAIN journal' :
            (k \in DOMAIN journal /\ journal'[k] = journal[k]) \/ (writes /\ journal'[k].target = t)
      BY <2>2, <3>2, Zenon
    <3> QED
      BY <2>1, <2>2, <3>2, <3>3, <3>4, Zenon
  <2>3. CASE ~writes
    <3>1. journal' = journal
      BY <1>5, <2>3
    <3> QED
      BY <2>1, <2>3, <3>1, Zenon
  <2> QED
    BY <2>2, <2>3
<1>11. ProviderTypes'
  BY <1>1, <1>6, <1>8, <1>10 DEF ProviderTypes, JournalRows, QuotaFalls
<1>12. ReferencesResolve' /\ FileIsOurs' /\ ClaudeAssumes' /\ NothingYet'
  BY <1>1, <1>6, ProvidersConstants
     DEF ProvidersInv, ReferencesResolve, Present, FileIsOurs, ClaudeAssumes, NothingYet
<1>13. BuiltInStays'
  <2>1. writes => Serves(t)
    BY <1>2, <1>3, <1>7 DEF Serves
  <2>2. rows'[Official] \in {Gone, OfficialRow}
    BY <1>1 DEF ProvidersInv, BuiltInStays
  <2>3. \A k \in DOMAIN journal' : Serves(journal'[k].target)
    BY <1>10, <2>1 DEF ProvidersInv, BuiltInStays
  <2> QED
    BY <2>2, <2>3 DEF BuiltInStays, Serves
<1>14. JournalIsShort'
  <2>1. /\ quota.fault \in Nat /\ quota.crash \in Nat
        /\ quota'.fault \in Nat /\ quota'.crash \in Nat /\ Len(journal) \in Nat
        /\ quota'.fault <= quota.fault /\ quota'.crash <= quota.crash
    BY <1>6 DEF QuotaFalls, ProviderTypes
  <2>2. Len(journal) + quota.fault + quota.crash <= JobFaults + JobCrashes
    BY <1>9, ProvidersConstants DEF ProvidersInv, JournalIsShort
  <2>3. Len(journal') = Len(journal) + (IF writes THEN 1 ELSE 0)
    BY <1>5, <1>10, <2>1
  <2>4. Len(journal') + quota'.fault + quota'.crash <= JobFaults + JobCrashes + (IF writes THEN 1 ELSE 0)
    BY SMTT(20), <2>1, <2>2, <2>3, ProvidersConstants
  <2> QED
    BY <1>9, <2>4 DEF JournalIsShort
<1>15. JobKnows'
  <2>1. HoldsEntry' => journal' # <<>> /\ LastTarget' = job'.target
    BY <1>8, <1>9, <1>10
  <2>2. /\ rows'[i] # Gone /\ row.rev = rows'[i].rev + 1 /\ row.primary = rows'[i].primary
        /\ job'.had = Available'
    BY <1>1, <1>2, <1>8 DEF Available
  <2>3. writes => t.image = Offers(t)'
    BY <1>1, <1>7, <1>8 DEF Offers, Available
  <2>4. ~writes => client.active # i \/ (kind = "claude" /\ client.mode = "proxy")
    <3>1. client.active = i => row.primary
      BY <1>1, <1>2, ProvidersConstants DEF ProvidersInv, ReferencesResolve
    <3> QED
      BY <1>3, <1>6, <3>1 DEF Modes
  <2>5. ~writes => i # client'.active \/ (kind' = "claude" /\ client'.mode = "proxy")
    BY <1>1, <2>4
  <2>6. HasTarget' <=> writes
    BY <1>7, <1>8 DEF HasTarget
  <2>7. IF HasTarget'
          THEN job'.target.id = i /\ job'.target.row = row /\ t.image = Offers(t)'
          ELSE i # client'.active \/ (kind' = "claude" /\ client'.mode = "proxy")
    BY <1>7, <1>8, <2>3, <2>5, <2>6
  <2> QED
    BY <1>1, <1>8, <1>9, <2>1, <2>2, <2>7 DEF JobKnows, Present
<1>16. Agrees'
  <2>1. Agrees
    BY <1>6, <1>9 DEF ProvidersInv, WillAgree
  <2> QED
    BY <1>1, <2>1 DEF Agrees
<1>17. ImagesAgree'
  <2>1. ShowsImages(Available)
    BY <1>6 DEF ProvidersInv, ImagesAgree
  <2> QED
    BY <1>1, <1>8, <2>1 DEF ImagesAgree, ShowsImages, Available
<1> QED
  BY <1>11, <1>12, <1>13, <1>14, <1>15, <1>16, <1>17 DEF ProvidersInv, WillAgree

LEMMA ImportStep == ASSUME ProvidersInv, NEW i \in Ids, Import(i) PROVE ProvidersInv'
<1>1. /\ Free /\ file.by = "user" /\ UNCHANGED <<kind, image, file, journal, job, owed, assumed>>
      /\ client' = [active |-> i, mode |-> "direct", status |-> "synchronized"]
  BY DEF Import, Stays
<1>2. QuotaFalls /\ job.pc = "idle" /\ ProviderTypes
  BY <1>1, FreeIs DEF ProvidersInv
<1>3. /\ rows' \in [Ids -> Rows \cup {Gone}] /\ rows'[Official] = rows[Official]
      /\ rows'[i] # Gone /\ rows'[i].primary
      /\ \A j \in Ids : j = i \/ rows'[j] = rows[j]
      /\ rows[i] # Gone => rows'[i] = rows[i]
  <2>1. rows \in [Ids -> Rows \cup {Gone}]
    BY <1>2 DEF ProviderTypes
  <2>2. CASE i = Official /\ Present(i) /\ rows' = rows
    BY <2>1, <2>2, RowsAre DEF Present, ProvidersInv, BuiltInStays
  <2>3. CASE /\ i # Official /\ ~Present(i)
             /\ rows' = [rows EXCEPT ![i] = [OfficialRow EXCEPT !.direct = TRUE]]
    <3>1. [OfficialRow EXCEPT !.direct = TRUE] \in Rows /\ [OfficialRow EXCEPT !.direct = TRUE].primary
      BY RowsAre DEF OfficialRow, Rows
    <3>2. PICK r \in Rows : r = [OfficialRow EXCEPT !.direct = TRUE] /\ r.primary
      BY <3>1
    <3>3. rows' = [rows EXCEPT ![i] = r] /\ r # Gone
      BY <2>3, <3>2, RowsAre, ProvidersConstants
    <3> HIDE <2>3
    <3>4. i # Official /\ rows[i] = Gone
      BY <2>3 DEF Present
    <3> QED
      BY <2>1, <3>2, <3>3, <3>4, ProvidersConstants
  <2>4. CASE i # Official /\ Present(i) /\ rows[i].primary /\ rows' = rows
    BY <2>1, <2>4 DEF Present
  <2> QED
    BY <2>2, <2>3, <2>4 DEF Import, Stays
<1>4. ~HoldsEntry /\ ~HoldsEntry' /\ ~Writes /\ client'.active = i /\ i # Nobody
  BY <1>1, <1>2, ProvidersConstants DEF HoldsEntry, Writes, WritePlaces
<1>5. /\ ProviderTypes' /\ BuiltInStays' /\ NothingYet' /\ FileIsOurs' /\ ClaudeAssumes'
      /\ JournalIsShort'
  <2>1. client' \in [active : Ids \cup {Nobody}, mode : Modes,
                     status : {"conflict", "unmanaged", "synchronized", "unavailable"}]
    BY <1>1 DEF Modes
  <2>2. rows'[Official] \in {Gone, OfficialRow}
    BY <1>3 DEF ProvidersInv, BuiltInStays
  <2> QED
    BY <1>1, <1>2, <1>3, <1>4, <2>1, <2>2, RestStays DEF ProviderTypes
<1>6. ReferencesResolve'
  BY <1>1, <1>2, <1>3 DEF ProvidersInv, ReferencesResolve, Present, ProviderTypes
<1>7. JobKnows'
  BY <1>1, <1>2, <1>4 DEF JobKnows, Writes, WritePlaces
<1>8. Agrees' /\ ImagesAgree'
  BY <1>1, <1>2 DEF Agrees, ImagesAgree, ShowsImages
<1> QED
  BY <1>5, <1>6, <1>7, <1>8 DEF ProvidersInv, WillAgree

LEMMA CommitStep == ASSUME ProvidersInv, Commit PROVE ProvidersInv'
<1>1. /\ job.pc = "commit" /\ rows' = [rows EXCEPT ![job.id] = job.row]
      /\ image' = ImageAfterUpdate(job.id, job.row)
      /\ job' = [job EXCEPT !.pc = IF HasTarget THEN "write" ELSE "image"]
      /\ UNCHANGED <<kind, client, file, journal, owed, assumed, quota>>
  BY DEF Commit, UpdateRow, Goto, Stays
<1>2. /\ job.id \in Ids \ {Official} /\ job.row \in Rows /\ rows[job.id] # Gone
      /\ job.row.rev = rows[job.id].rev + 1 /\ job.row.primary = rows[job.id].primary
      /\ job.had = Available /\ job.then = "image"
      /\ IF HasTarget
           THEN /\ job.target.id = job.id /\ job.target.row = job.row
                /\ job.target.image = Offers(job.target)
           ELSE job.id # client.active \/ (kind = "claude" /\ client.mode = "proxy")
  BY <1>1 DEF ProvidersInv, JobKnows, Present
<1>3. PICK i, row : i = job.id /\ row = job.row
  OBVIOUS
<1>4. ProviderTypes /\ client.active \in Ids /\ row # Gone
  BY <1>1, <1>2, <1>3, ProvidersConstants DEF ProvidersInv, ProviderTypes, NothingYet
<1>5. /\ job' \in ProviderJobs /\ job'.target = job.target /\ job'.had = job.had
      /\ job'.then = "image" /\ job'.pc = IF HasTarget THEN "write" ELSE "image"
  BY <1>1, <1>2, <1>4 DEF ProviderTypes, ProviderJobs, JobPlaces
<1>6. (HasTarget' <=> HasTarget) /\ (HoldsEntry' <=> HoldsEntry) /\ (Writes' <=> HasTarget)
  BY <1>1, <1>5 DEF HasTarget, HoldsEntry, Writes, WritePlaces
<1>7. /\ rows' \in [Ids -> Rows \cup {Gone}] /\ rows'[i] = row /\ rows'[Official] = rows[Official]
      /\ \A j \in Ids : j = i \/ rows'[j] = rows[j]
  BY <1>1, <1>2, <1>3, <1>4 DEF ProviderTypes
<1>8. /\ image' \in Ids \cup {Nobody}
      /\ image' # Nobody => image' \in Ids /\ rows'[image'] # Gone /\ rows'[image'].image
  BY <1>1, <1>2, <1>3, <1>4, <1>7
     DEF ImageAfterUpdate, ImageAfterInsert, ProviderTypes, ProvidersInv, ReferencesResolve, Present
<1>9. /\ ProviderTypes' /\ BuiltInStays' /\ NothingYet' /\ FileIsOurs' /\ ClaudeAssumes'
      /\ JournalIsShort'
  <2>1. QuotaFalls
    BY <1>1, <1>4 DEF QuotaFalls, ProviderTypes
  <2>2. rows'[Official] \in {Gone, OfficialRow}
    BY <1>7 DEF ProvidersInv, BuiltInStays
  <2> QED
    BY <1>1, <1>4, <1>5, <1>6, <1>7, <1>8, <2>1, <2>2, RestStays, ProvidersConstants DEF ProviderTypes
<1>10. ReferencesResolve'
  BY <1>1, <1>2, <1>3, <1>4, <1>7, <1>8 DEF ProvidersInv, ReferencesResolve, Present
<1>11. JobKnows'
  <2>1. HoldsEntry' => journal' # <<>> /\ LastTarget' = job'.target
    BY <1>1, <1>5, <1>6 DEF ProvidersInv, JobKnows, LastTarget
  <2>2. PICK t : t = job.target /\ job'.target = t
    BY <1>5
  <2>3. HasTarget => t.image = Offers(t)'
    <3>1. ImageAfterUpdate(i, row) = image' /\ job.then = "image" /\ job'.then = "image" /\ job'.had = job.had
      BY <1>1, <1>2, <1>3, <1>5
    <3> QED
      BY <1>1, <1>2, <2>2, <3>1 DEF Offers
  <2>4. HasTarget => rows'[t.id] = t.row
    BY <1>2, <1>3, <1>7, <2>2
  <2> QED
    BY <1>5, <1>6, <2>1, <2>2, <2>3, <2>4 DEF JobKnows
<1>12. WillAgree'
  <2>1. CASE HasTarget
    BY <1>6, <2>1 DEF WillAgree
  <2>2. CASE ~HasTarget
    <3>1. Agrees
      BY <1>1 DEF ProvidersInv, WillAgree, Writes, WritePlaces
    <3>2. Agrees'
      BY <1>1, <1>2, <1>3, <1>4, <1>7, <2>2, <3>1 DEF Agrees, ProvidersInv, FileIsOurs, ProviderTypes, ProviderFiles
    <3> QED
      BY <3>2 DEF WillAgree
  <2> QED
    BY <2>1, <2>2
<1>13. ImagesAgree'
  <2>1. ShowsImages(job.had)
    BY <1>1, <1>2 DEF ProvidersInv, ImagesAgree
  <2> QED
    BY <1>1, <1>5, <2>1 DEF ImagesAgree, ShowsImages
<1> QED
  BY <1>9, <1>10, <1>11, <1>12, <1>13 DEF ProvidersInv

\* A client that is marked agrees with anything.
LEMMA MarkedStep ==
  ASSUME ProvidersInv, NEW status \in {"conflict", "unavailable"},
         UNCHANGED <<kind, rows, image, file, assumed>>,
         client' = [client EXCEPT !.status = status], client.active # Nobody,
         journal' \in Seq(JournalRows), \A k \in DOMAIN journal' : Serves(journal'[k].target),
         job' \in ProviderJobs, job'.pc \in {"down", "idle", "sync_proxy"}, owed' \in BOOLEAN,
         quota' \in [handler : Nat, fault : Nat, crash : Nat, user : Nat],
         Len(journal') + quota'.fault + quota'.crash <= JobFaults + JobCrashes
  PROVE  ProvidersInv'
<1>1. ProviderTypes
  BY DEF ProvidersInv
<1>2. /\ client'.active = client.active /\ client'.mode = client.mode /\ client'.status = status
      /\ client' \in [active : Ids \cup {Nobody}, mode : Modes,
                      status : {"conflict", "unmanaged", "synchronized", "unavailable"}]
  BY <1>1 DEF ProviderTypes
<1>3. ProviderTypes'
  BY <1>1, <1>2 DEF ProviderTypes, JournalRows
<1>4. ReferencesResolve' /\ FileIsOurs' /\ ClaudeAssumes' /\ NothingYet'
  BY <1>2 DEF ProvidersInv, ReferencesResolve, Present, FileIsOurs, ClaudeAssumes, NothingYet
<1>5. BuiltInStays'
  BY DEF ProvidersInv, BuiltInStays, Serves
<1>6. ~HoldsEntry' /\ ~Writes'
  BY DEF HoldsEntry, Writes, WritePlaces
<1>7. JournalIsShort'
  <2>1. Len(journal') \in Nat /\ quota'.fault \in Nat /\ quota'.crash \in Nat
    BY <1>3 DEF ProviderTypes
  <2>2. Len(journal') + quota'.fault + quota'.crash <= JobFaults + JobCrashes + 0
    BY <2>1, ProvidersConstants
  <2> QED
    BY <1>6, <2>2 DEF JournalIsShort
<1>8. JobKnows'
  BY <1>6 DEF JobKnows
<1>9. WillAgree' /\ ImagesAgree'
  BY <1>2 DEF WillAgree, Agrees, ImagesAgree, ShowsImages
<1> QED
  BY <1>3, <1>4, <1>5, <1>7, <1>8, <1>9 DEF ProvidersInv

\* The job of a write ends, or gives way to the next of a start.
LEMMA AfterIs ==
  ASSUME ProvidersInv, NEW ok \in BOOLEAN, Writes
  PROVE  /\ After(ok) \in ProviderJobs
         /\ \/ ok /\ job.then = "image" /\ After(ok).pc = "image" /\ After(ok).had = job.had
            \/ ~(ok /\ job.then = "image") /\ After(ok).pc \in {"idle", "sync_proxy"}
<1>1. job \in ProviderJobs /\ file \in ProviderFiles
  BY DEF ProvidersInv, ProviderTypes
<1>2. CASE job.then = "image" /\ ok
  <2>1. After(ok) = [job EXCEPT !.pc = "image"]
    BY <1>2 DEF After
  <2> QED
    BY <1>1, <1>2, <2>1 DEF ProviderJobs, JobPlaces
<1>3. CASE ~(job.then = "image" /\ ok)
  <2>1. After(ok) = Idle \/ After(ok) = [Idle EXCEPT !.pc = "sync_proxy"]
    BY <1>3 DEF After
  <2>2. NoTarget \in ProviderTargets
    BY DEF NoTarget, ProviderTargets, Modes
  <2>3. /\ Idle \in ProviderJobs /\ Idle.pc = "idle"
        /\ [Idle EXCEPT !.pc = "sync_proxy"] \in ProviderJobs
        /\ [Idle EXCEPT !.pc = "sync_proxy"].pc = "sync_proxy"
    BY <1>1, <2>2, IdleIs DEF JobPlaces
  <2> QED
    BY <1>3, <2>1, <2>3
<1> QED
  BY <1>2, <1>3

\* What a writing job knows of its target.
LEMMA WriterKnows ==
  ASSUME ProvidersInv, Writes
  PROVE  /\ job.target \in ProviderTargets /\ Serves(job.target) /\ client.active \in Ids
         /\ rows[job.target.id] = job.target.row /\ Present(job.target.id)
         /\ journal # <<>> /\ LastTarget = job.target
         /\ Len(journal) + quota.fault + quota.crash <= JobFaults + JobCrashes + 1
         /\ HoldsEntry
<1>1. ProviderTypes /\ HoldsEntry /\ job.target \in ProviderTargets
  BY DEF ProvidersInv, ProviderTypes, ProviderJobs, HoldsEntry
<1>2. journal # <<>> /\ LastTarget = job.target /\ rows[job.target.id] = job.target.row
  BY <1>1 DEF ProvidersInv, JobKnows
<1>3. Len(journal) \in DOMAIN journal
  BY <1>1, <1>2 DEF ProviderTypes
<1>4. Serves(job.target)
  BY <1>2, <1>3 DEF ProvidersInv, BuiltInStays, LastTarget
<1>5. client.active \in Ids
  BY <1>1, <1>2 DEF ProvidersInv, ProviderTypes, NothingYet
<1>6. Present(job.target.id)
  BY <1>2, <1>4, ProvidersConstants DEF Present, Serves
<1>7. Len(journal) + quota.fault + quota.crash <= JobFaults + JobCrashes + 1
  BY <1>1 DEF ProvidersInv, JournalIsShort
<1> QED
  BY <1>1, <1>2, <1>4, <1>5, <1>6, <1>7

\* The job goes on with what it knows.
LEMMA JobGoesOn ==
  ASSUME ProvidersInv, Writes, NEW pc \in {"auth", "activate", "mode", "finish"},
         job' = [job EXCEPT !.pc = pc],
         UNCHANGED <<kind, rows, image, journal, owed, assumed, quota>>,
         client' \in [active : Ids \cup {Nobody}, mode : Modes,
                      status : {"conflict", "unmanaged", "synchronized", "unavailable"}],
         client'.active \in {client.active, job.target.id},
         file' \in ProviderFiles, FileIsOurs',
         file'.by = "user" \/ Patched(file', job.target) = file',
         pc \in {"mode", "finish"} =>
           client'.active = job.target.id /\ client'.status = "synchronized",
         pc = "finish" => client'.mode = job.target.mode
  PROVE  ProvidersInv'
<1>1. ProviderTypes /\ job \in ProviderJobs
  BY DEF ProvidersInv, ProviderTypes
<1>2. /\ job' \in ProviderJobs /\ job'.target = job.target /\ job'.then = job.then
      /\ job'.had = job.had /\ job'.pc = pc
  BY <1>1 DEF ProviderJobs, JobPlaces
<1>3. PICK t, g : t = job.target /\ g = file' /\ job'.target = t
  BY <1>2
<1>4. /\ t \in ProviderTargets /\ Serves(t) /\ client'.active \in Ids
      /\ rows[t.id] = t.row /\ journal # <<>> /\ LastTarget = t
      /\ Len(journal) + quota.fault + quota.crash <= JobFaults + JobCrashes + 1
  BY <1>3, WriterKnows DEF Serves
<1>5. ProviderTypes'
  BY <1>1, <1>2 DEF ProviderTypes
<1>6. Writes' /\ HoldsEntry'
  BY <1>2 DEF Writes, WritePlaces, HoldsEntry
<1>7. ReferencesResolve'
  <2>1. rows[t.id] # Gone /\ rows[t.id].primary
    BY <1>4, ProvidersConstants DEF Serves
  <2> QED
    BY <1>3, <2>1 DEF ProvidersInv, ReferencesResolve, Present
<1>8. BuiltInStays' /\ ClaudeAssumes'
  BY DEF ProvidersInv, BuiltInStays, ClaudeAssumes
<1>9. NothingYet'
  BY <1>4, ProvidersConstants DEF NothingYet
<1>10. JournalIsShort'
  BY <1>4, <1>6 DEF JournalIsShort
<1>11. JobKnows'
  <2>1. LastTarget' = t
    BY <1>4 DEF LastTarget
  <2>2. Offers(t)' = Offers(t)
    BY <1>2 DEF Offers, Available
  <2>3. t.image = Offers(t)
    BY <1>3 DEF ProvidersInv, JobKnows
  <2>4. Patched(g, t)' = Patched(g, t)
    BY DEF Patched
  <2>5. (HoldsEntry => journal # <<>> /\ LastTarget = job.target)'
    BY <1>3, <1>4, <2>1
  <2>6. (job.target.image = Offers(job.target))'
    <3>1. t.image = Offers(t)'
      BY <2>2, <2>3
    <3> QED
      BY <1>3, <3>1
  <2>7. (rows[job.target.id] = job.target.row)'
    BY <1>3, <1>4
  <2>8. (file.by = "user" \/ Patched(file, job.target) = file)'
    BY <1>3, <2>4
  <2>9. (job.pc \in {"mode", "finish"} =>
           client.active = job.target.id /\ client.status = "synchronized")'
    BY <1>2
  <2>10. (job.pc = "finish" => client.mode = job.target.mode)'
    BY <1>2
  <2> QED
    BY <1>2, <2>5, <2>6, <2>7, <2>8, <2>9, <2>10 DEF JobKnows
<1>12. WillAgree' /\ ImagesAgree'
  BY <1>2, <1>6 DEF WillAgree, ImagesAgree
<1> QED
  BY <1>5, <1>7, <1>8, <1>9, <1>10, <1>11, <1>12 DEF ProvidersInv

\* A write that failed: the client is marked and its entry taken out or left.
LEMMA WriteFails ==
  ASSUME ProvidersInv, Writes, NEW status \in {"conflict", "unavailable"},
         UNCHANGED <<kind, rows, image, file, assumed>>,
         client' = [client EXCEPT !.status = status], job' = After(FALSE),
         owed' = (owed \/ ImageChange),
         \/ journal' = DropLast /\ (quota' = quota \/ JobFault)
         \/ journal' = journal /\ JobFault
  PROVE  ProvidersInv'
<1>1. /\ ProviderTypes /\ journal \in Seq(JournalRows)
      /\ quota \in [handler : Nat, fault : Nat, crash : Nat, user : Nat]
  BY DEF ProvidersInv, ProviderTypes, JournalRows
<1>2. /\ client.active \in Ids /\ journal # <<>>
      /\ Len(journal) + quota.fault + quota.crash <= JobFaults + JobCrashes + 1
      /\ \A k \in DOMAIN journal : Serves(journal[k].target)
  BY WriterKnows DEF ProvidersInv, BuiltInStays
<1>3. job' \in ProviderJobs /\ job'.pc \in {"idle", "sync_proxy"}
  BY AfterIs
<1>4. owed' \in BOOLEAN
  BY <1>1 DEF ProviderTypes, ImageChange
<1>5. /\ quota' \in [handler : Nat, fault : Nat, crash : Nat, user : Nat]
      /\ quota'.crash = quota.crash
      /\ quota' = quota \/ (quota'.fault = quota.fault - 1 /\ JobFault)
  BY <1>1 DEF JobFault
<1>6. /\ journal' \in Seq(JournalRows) /\ \A k \in DOMAIN journal' : Serves(journal'[k].target)
      /\ journal' = journal \/ Len(journal') = Len(journal) - 1
  BY <1>1, <1>2, JournalShrinks
<1>7. Len(journal') + quota'.fault + quota'.crash <= JobFaults + JobCrashes
  <2>1. Len(journal) \in Nat /\ quota.fault \in Nat /\ quota.crash \in Nat /\ quota'.fault \in Nat
    BY <1>1, <1>5
  <2>2. CASE journal' = journal /\ JobFault
    <3>1. quota' = [quota EXCEPT !.fault = @ - 1]
      BY <2>2 DEF JobFault
    <3>2. quota'.fault = quota.fault - 1
      BY <1>1, <3>1
    <3>3. Len(journal') = Len(journal) /\ quota'.crash = quota.crash
      BY <1>5, <2>2
    <3>4. Len(journal) + quota.fault + quota.crash <= JobFaults + JobCrashes + 1
      BY <1>2
    <3> QED
      BY SMTT(20), <2>1, <3>2, <3>3, <3>4, ProvidersConstants
  <2>3. CASE journal' = DropLast
    <3>1. Len(journal') = Len(journal) - 1
      BY <1>1, <1>2, <2>3, JournalShrinks
    <3>2. quota'.fault <= quota.fault
      BY <1>5, <2>1
    <3>3. quota'.crash = quota.crash
      BY <1>5
    <3>4. Len(journal) + quota.fault + quota.crash <= JobFaults + JobCrashes + 1
      BY <1>2
    <3> QED
      BY SMTT(20), <2>1, <3>1, <3>2, <3>3, <3>4, ProvidersConstants
  <2> QED
    BY <2>2, <2>3
<1> QED
  BY <1>2, <1>3, <1>4, <1>5, <1>6, <1>7, MarkedStep, ProvidersConstants

LEMMA WriteFileStep == ASSUME ProvidersInv, WriteFile PROVE ProvidersInv'
<1>1. Writes /\ UNCHANGED <<kind, rows, image, assumed>>
  BY DEF WriteFile, Writes, WritePlaces, Stays
<1>2. CASE /\ file' = Patched(file, job.target) /\ Goto("auth")
           /\ Stays(<<journal, client, owed, quota>>)
  <2>1. PICK t \in ProviderTargets : t = job.target /\ Serves(t) /\ client.active \in Ids
    BY <1>1, WriterKnows
  <2>2. ProviderTypes /\ kind \in {"codex", "claude"} /\ file \in ProviderFiles
    BY DEF ProvidersInv, ProviderTypes
  <2>3. file' = Patched(file, t)
    BY <1>2, <2>1
  <2>4. /\ file' \in ProviderFiles /\ Patched(file', t) = file'
        /\ IF t.id = Official THEN file'.by = "user"
           ELSE /\ file'.by = "hsin" /\ file'.mode = t.mode
                /\ IF kind = "claude" /\ t.mode = "proxy"
                     THEN file'.id = Nobody
                     ELSE file'.id = t.id /\ file'.rev = t.row.rev /\ file'.image = t.image
    BY <2>1, <2>2, <2>3, PatchedIs
  <2>5. FileIsOurs'
    BY <1>1, <2>1, <2>4 DEF FileIsOurs, Serves
  <2>6. job' = [job EXCEPT !.pc = "auth"] /\ UNCHANGED <<journal, client, owed, quota>>
    BY <1>2 DEF Goto, Stays
  <2> QED
    BY <1>1, <2>1, <2>2, <2>4, <2>5, <2>6, JobGoesOn DEF ProviderTypes
<1>3. CASE /\ \/ file # job.before /\ Stays(quota)
                 /\ client' = [client EXCEPT !.status = "conflict"]
              \/ JobFault /\ client' = [client EXCEPT !.status = "unavailable"]
           /\ journal' = DropLast /\ owed' = (owed \/ ImageChange)
           /\ job' = After(FALSE) /\ Stays(file)
  <2>1. PICK status \in {"conflict", "unavailable"} :
          client' = [client EXCEPT !.status = status] /\ (quota' = quota \/ JobFault)
    BY <1>3 DEF Stays
  <2> QED
    BY <1>1, <1>3, <2>1, WriteFails DEF Stays
<1> QED
  BY <1>2, <1>3 DEF WriteFile

LEMMA WriteClientAuthStep == ASSUME ProvidersInv, WriteClientAuth PROVE ProvidersInv'
<1>1. job.pc = "auth" /\ Writes /\ UNCHANGED <<kind, rows, image, file, journal, assumed>>
  BY DEF WriteClientAuth, Writes, WritePlaces, Stays
<1>2. CASE Goto("activate") /\ Stays(<<client, owed, quota>>)
  <2>1. /\ ProviderTypes /\ FileIsOurs
        /\ file.by = "user" \/ Patched(file, job.target) = file
    BY <1>1 DEF ProvidersInv, JobKnows
  <2>2. FileIsOurs'
    BY <1>1, <2>1 DEF FileIsOurs
  <2>3. job' = [job EXCEPT !.pc = "activate"] /\ UNCHANGED <<client, owed, quota>>
    BY <1>2 DEF Goto, Stays
  <2>4. file'.by = "user" \/ Patched(file', job.target) = file'
    BY <1>1, <2>1
  <2> QED
    BY <1>1, <2>1, <2>2, <2>3, <2>4, JobGoesOn DEF ProviderTypes
<1>3. CASE /\ kind = "codex" /\ JobFault
           /\ client' = [client EXCEPT !.status = "unavailable"]
           /\ owed' = (owed \/ ImageChange) /\ job' = After(FALSE)
  BY <1>1, <1>3, WriteFails
<1> QED
  BY <1>2, <1>3 DEF WriteClientAuth

LEMMA ActivateStep == ASSUME ProvidersInv, Activate PROVE ProvidersInv'
<1>1. /\ job.pc = "activate" /\ Writes
      /\ UNCHANGED <<kind, rows, image, file, journal, owed, assumed, quota>>
      /\ client' = [client EXCEPT !.active = job.target.id, !.status = "synchronized"]
      /\ job' = [job EXCEPT !.pc = "mode"]
  BY DEF Activate, Writes, WritePlaces, Stays, Goto
<1>2. /\ ProviderTypes /\ FileIsOurs
      /\ file.by = "user" \/ Patched(file, job.target) = file
  BY <1>1 DEF ProvidersInv, JobKnows
<1>3. job.target.id \in Ids
  BY <1>1, WriterKnows DEF Serves
<1>4. /\ client' \in [active : Ids \cup {Nobody}, mode : Modes,
                      status : {"conflict", "unmanaged", "synchronized", "unavailable"}]
      /\ client'.active = job.target.id /\ client'.status = "synchronized"
  BY <1>1, <1>2, <1>3 DEF ProviderTypes
<1>5. FileIsOurs'
  BY <1>1, <1>2 DEF FileIsOurs
<1>6. file'.by = "user" \/ Patched(file', job.target) = file'
  BY <1>1, <1>2
<1> QED
  BY <1>1, <1>2, <1>4, <1>5, <1>6, JobGoesOn DEF ProviderTypes

LEMMA StoreModeStep == ASSUME ProvidersInv, StoreMode PROVE ProvidersInv'
<1>1. /\ job.pc = "mode" /\ Writes
      /\ UNCHANGED <<kind, rows, image, file, journal, owed, assumed, quota>>
      /\ client' = [client EXCEPT !.mode = job.target.mode]
      /\ job' = [job EXCEPT !.pc = "finish"]
  BY DEF StoreMode, Writes, WritePlaces, Stays, Goto
<1>2. /\ ProviderTypes /\ FileIsOurs
      /\ client.active = job.target.id /\ client.status = "synchronized"
      /\ file.by = "user" \/ Patched(file, job.target) = file
  BY <1>1 DEF ProvidersInv, JobKnows
<1>3. job.target.mode \in Modes
  BY <1>1, WriterKnows DEF ProviderTargets
<1>4. /\ client' \in [active : Ids \cup {Nobody}, mode : Modes,
                      status : {"conflict", "unmanaged", "synchronized", "unavailable"}]
      /\ client'.active = job.target.id /\ client'.status = "synchronized"
      /\ client'.mode = job.target.mode
  BY <1>1, <1>2, <1>3 DEF ProviderTypes
<1>5. FileIsOurs'
  BY <1>1, <1>2 DEF FileIsOurs
<1>6. file'.by = "user" \/ Patched(file', job.target) = file'
  BY <1>1, <1>2
<1> QED
  BY <1>1, <1>2, <1>4, <1>5, <1>6, JobGoesOn DEF ProviderTypes

LEMMA FinishStep == ASSUME ProvidersInv, FinishJob PROVE ProvidersInv'
<1>1. /\ job.pc = "finish" /\ Writes /\ journal' = DropLast /\ owed' = FALSE /\ assumed' = FALSE
      /\ job' = After(TRUE) /\ UNCHANGED <<kind, rows, client, image, file, quota>>
  BY DEF FinishJob, Writes, WritePlaces, Stays
<1>2. /\ ProviderTypes /\ journal \in Seq(JournalRows)
      /\ client.mode = job.target.mode /\ client.active = job.target.id
      /\ file.by = "user" \/ Patched(file, job.target) = file
      /\ job.target.image = Offers(job.target)
  BY <1>1 DEF ProvidersInv, JobKnows, ProviderTypes, JournalRows
<1>3. PICK t : t = job.target
  OBVIOUS
<1>4. /\ t \in ProviderTargets /\ Serves(t) /\ client.active \in Ids /\ journal # <<>>
      /\ rows[t.id] = t.row
      /\ Len(journal) + quota.fault + quota.crash <= JobFaults + JobCrashes + 1
      /\ \A k \in DOMAIN journal : Serves(journal[k].target)
  BY <1>1, <1>3, WriterKnows DEF ProvidersInv, BuiltInStays
<1>5. /\ job' \in ProviderJobs
      /\ \/ job.then = "image" /\ job'.pc = "image" /\ job'.had = job.had
         \/ job.then # "image" /\ job'.pc \in {"idle", "sync_proxy"}
  BY <1>1, AfterIs
<1>6. /\ journal' \in Seq(JournalRows) /\ \A k \in DOMAIN journal' : Serves(journal'[k].target)
      /\ Len(journal') = Len(journal) - 1
  BY <1>1, <1>2, <1>4, JournalShrinks
<1>7. ProviderTypes'
  BY <1>1, <1>2, <1>5, <1>6 DEF ProviderTypes, JournalRows
<1>8. ReferencesResolve' /\ FileIsOurs' /\ ClaudeAssumes' /\ NothingYet'
  BY <1>1, <1>4, ProvidersConstants
     DEF ProvidersInv, ReferencesResolve, Present, FileIsOurs, ClaudeAssumes, NothingYet
<1>9. BuiltInStays'
  BY <1>1, <1>6 DEF ProvidersInv, BuiltInStays, Serves
<1>10. ~HoldsEntry' /\ ~Writes'
  BY <1>5 DEF HoldsEntry, Writes, WritePlaces
<1>11. JournalIsShort'
  <2>1. Len(journal) \in Nat /\ quota.fault \in Nat /\ quota.crash \in Nat
    BY <1>2 DEF ProviderTypes
  <2>2. Len(journal') + quota'.fault + quota'.crash <= JobFaults + JobCrashes + 0
    <3>1. Len(journal) + quota.fault + quota.crash <= JobFaults + JobCrashes + 1
      BY <1>4
    <3> QED
      BY <1>1, <1>6, <2>1, <3>1, ProvidersConstants
  <2> QED
    BY <1>10, <2>2 DEF JournalIsShort
<1>12. JobKnows'
  BY <1>5, <1>10 DEF JobKnows
<1>13. file.by = "hsin" =>
         /\ t.id # Official /\ file.mode = t.mode
         /\ IF kind = "claude" /\ t.mode = "proxy"
              THEN file.id = Nobody
              ELSE file.id = t.id /\ file.rev = t.row.rev /\ file.image = t.image
  <2>1. kind \in {"codex", "claude"} /\ file \in ProviderFiles
    BY <1>2 DEF ProviderTypes
  <2>2. CASE Patched(file, t) = file
    BY <1>4, <2>1, <2>2, PatchedIs
  <2> QED
    BY <1>2, <1>3, <2>2
<1>14. Agrees'
  <2>1. file.by = "hsin" => /\ file.mode = client.mode
                            /\ file.id # Nobody => file.id = client.active /\ rows[file.id].rev = file.rev
    BY <1>2, <1>3, <1>4, <1>13
  <2> QED
    BY <1>1, <2>1 DEF Agrees
<1>15. ImagesAgree'
  <2>1. CASE kind = "codex" /\ client.mode = "proxy" /\ file.by = "hsin"
    <3>1. file.image = t.image /\ t.mode = "proxy"
      BY <1>2, <1>3, <1>13, <2>1
    <3>2. t.image = Offers(t)
      BY <1>2, <1>3
    <3>3. file.image = (IF job.then = "image" THEN job.had ELSE Available)
      <4>1. job.had \in BOOLEAN /\ Available \in BOOLEAN
        BY <1>2 DEF ProviderTypes, ProviderJobs, Available
      <4> QED
        BY <2>1, <3>1, <3>2, <4>1 DEF Offers
    <3>4. CASE job.then = "image"
      <4>1. file'.image = job'.had
        BY <1>1, <1>5, <3>3, <3>4
      <4> QED
        BY <1>5, <3>4, <4>1 DEF ImagesAgree, ShowsImages
    <3>5. CASE job.then # "image"
      <4>1. Available' = Available
        BY <1>1 DEF Available
      <4>2. file'.image = Available'
        BY <1>1, <3>3, <3>5, <4>1
      <4> QED
        BY <1>5, <3>5, <4>2 DEF ImagesAgree, ShowsImages
    <3> QED
      BY <3>4, <3>5
  <2>2. CASE ~(kind = "codex" /\ client.mode = "proxy" /\ file.by = "hsin")
    BY <1>1, <2>2 DEF ImagesAgree, ShowsImages
  <2> QED
    BY <2>1, <2>2
<1> QED
  BY <1>7, <1>8, <1>9, <1>11, <1>12, <1>14, <1>15 DEF ProvidersInv, WillAgree

LEMMA ReconcileImageStep == ASSUME ProvidersInv, ReconcileImage PROVE ProvidersInv'
<1>1. job.pc = "image" /\ UNCHANGED <<kind, rows, client, image, file, assumed>>
  BY DEF ReconcileImage, Stays
<1>2. /\ ProviderTypes /\ quota \in [handler : Nat, fault : Nat, crash : Nat, user : Nat]
      /\ client.active \in Ids /\ rows[client.active] \in Rows /\ rows[client.active].primary
      /\ Agrees /\ ShowsImages(job.had)
  BY <1>1
     DEF ProvidersInv, ProviderTypes, NothingYet, ReferencesResolve, Present, WillAgree, Writes,
         WritePlaces, ImagesAgree
<1>3. Idle \in ProviderJobs /\ Idle.pc = "idle" /\ client.active # Nobody
  <2>1. NoTarget \in ProviderTargets /\ file \in ProviderFiles
    BY <1>2 DEF NoTarget, ProviderTargets, Modes, ProviderTypes
  <2>2. "idle" \in JobPlaces
    BY DEF JobPlaces
  <2> QED
    BY <1>2, <2>1, <2>2, IdleIs, ProvidersConstants
<1>4. ASSUME Done, Stays(journal), QuotaFalls, owed' \in BOOLEAN, ShowsImages(Available)'
      PROVE  ProvidersInv'
  <2>1. job' = Idle /\ journal' = journal /\ ~HoldsEntry /\ ~HoldsEntry' /\ ~Writes'
    BY <1>1, <1>3, <1>4 DEF Done, Stays, HoldsEntry, Writes, WritePlaces
  <2>2. rows[Official] \in {Gone, OfficialRow}
    BY DEF ProvidersInv, BuiltInStays
  <2>3. /\ ProviderTypes' /\ BuiltInStays' /\ NothingYet' /\ FileIsOurs' /\ ClaudeAssumes'
        /\ JournalIsShort'
    BY <1>1, <1>2, <1>3, <1>4, <2>1, <2>2, RestStays DEF ProviderTypes
  <2>4. ReferencesResolve'
    BY <1>1 DEF ProvidersInv, ReferencesResolve, Present
  <2>5. JobKnows'
    BY <1>3, <2>1 DEF JobKnows
  <2>6. Agrees'
    BY <1>1, <1>2 DEF Agrees
  <2>7. ImagesAgree'
    BY <1>3, <1>4, <2>1 DEF ImagesAgree
  <2> QED
    BY <2>3, <2>4, <2>5, <2>6, <2>7 DEF ProvidersInv, WillAgree
<1>5. CASE /\ kind # "codex" \/ job.had = Available \/ client.mode # "proxy" \/ client.active = Nobody
           /\ Done /\ Stays(<<journal, owed, quota>>)
  <2>1. QuotaFalls /\ owed' \in BOOLEAN /\ Stays(journal)
    BY <1>2, <1>5 DEF QuotaFalls, Stays, ProviderTypes
  <2>2. ShowsImages(Available)'
    <3>1. Available' = Available /\ owed' = owed
      BY <1>1, <1>5 DEF Available, Stays
    <3> QED
      BY <1>1, <1>2, <1>3, <1>5, <3>1 DEF ShowsImages
  <2> QED
    BY <1>4, <1>5, <2>1, <2>2
<1>6. ASSUME NEW t, t = Target(client.active, rows[client.active], "proxy"),
             journal' = Journaled(t), job' = WriteJob(t, "image_written"), Stays(<<owed, quota>>)
      PROVE  ProvidersInv'
  <2>1. "proxy" \in Modes /\ QuotaFalls
    BY <1>2, <1>6 DEF Modes, QuotaFalls, Stays
  <2>2. /\ t \in ProviderTargets /\ t # NoTarget /\ t.id = client.active
        /\ t.row = rows[client.active]
        /\ t.image = (kind = "codex" /\ t.mode = "proxy" /\ Available)
    BY <1>2, <1>6, <2>1, TargetIs
  <2> QED
    BY <1>1, <1>2, <1>6, <2>1, <2>2, WriteBegins DEF Serves, Stays
<1>7. CASE JobFault /\ owed' = TRUE /\ Done /\ Stays(journal)
  <2>1. QuotaFalls
    BY <1>2, <1>7 DEF JobFault, QuotaFalls
  <2>2. ShowsImages(Available)'
    BY <1>7 DEF ShowsImages
  <2> QED
    BY <1>4, <1>7, <2>1, <2>2
<1> QED
  BY <1>5, <1>6, <1>7 DEF ReconcileImage

LEMMA CrashStep == ASSUME ProvidersInv, Crash PROVE ProvidersInv'
<1>1. /\ job.pc # "down" /\ quota' = [quota EXCEPT !.crash = @ - 1] /\ quota.crash > 0
      /\ job' = [Idle EXCEPT !.pc = "down"]
      /\ UNCHANGED <<kind, rows, client, image, file, journal, owed, assumed>>
  BY DEF Crash, Stays
<1>2. /\ ProviderTypes /\ quota \in [handler : Nat, fault : Nat, crash : Nat, user : Nat]
      /\ client.active # Nobody
  BY <1>1 DEF ProvidersInv, ProviderTypes, NothingYet
<1>3. job' \in ProviderJobs /\ job'.pc = "down"
  <2>1. NoTarget \in ProviderTargets /\ file \in ProviderFiles
    BY <1>2 DEF NoTarget, ProviderTargets, Modes, ProviderTypes
  <2>2. "down" \in JobPlaces
    BY DEF JobPlaces
  <2> QED
    BY <1>1, <2>1, <2>2, IdleIs
<1>4. quota' \in [handler : Nat, fault : Nat, crash : Nat, user : Nat]
      /\ quota'.crash = quota.crash - 1 /\ quota'.fault = quota.fault
  BY <1>1, <1>2
<1>5. ProviderTypes'
  BY <1>1, <1>2, <1>3, <1>4 DEF ProviderTypes
<1>6. ReferencesResolve' /\ FileIsOurs' /\ ClaudeAssumes' /\ NothingYet' /\ BuiltInStays'
  BY <1>1, <1>2
     DEF ProvidersInv, ReferencesResolve, Present, FileIsOurs, ClaudeAssumes, NothingYet, BuiltInStays
<1>7. ~HoldsEntry' /\ ~Writes'
  BY <1>3 DEF HoldsEntry, Writes, WritePlaces
<1>8. JournalIsShort'
  <2> DEFINE one == IF HoldsEntry THEN 1 ELSE 0
  <2>1. /\ Len(journal) \in Nat /\ quota.fault \in Nat /\ quota.crash \in Nat
        /\ one \in Nat /\ one <= 1
    BY <1>2 DEF ProviderTypes
  <2>2. Len(journal) + quota.fault + quota.crash <= JobFaults + JobCrashes + one
    BY DEF ProvidersInv, JournalIsShort
  <2> HIDE DEF one
  <2>3. Len(journal') + quota'.fault + quota'.crash <= JobFaults + JobCrashes + 0
    BY SMTT(20), <1>1, <1>4, <2>1, <2>2, ProvidersConstants
  <2> QED
    BY <1>7, <2>3 DEF JournalIsShort
<1>9. JobKnows'
  BY <1>3, <1>7 DEF JobKnows
<1>10. ImagesAgree'
  BY <1>3 DEF ImagesAgree
<1>11. WillAgree'
  <2>1. CASE Writes
    <3>1. /\ journal # <<>> /\ LastTarget = job.target /\ Serves(job.target)
          /\ rows[job.target.id] = job.target.row
      BY <2>1, WriterKnows
    <3>2. Len(journal) \in DOMAIN journal
      BY <1>2, <3>1 DEF ProviderTypes
    <3>3. PICK op : op = journal[Len(journal)]
      OBVIOUS
    <3>4. rows[op.target.id] = op.target.row /\ op.target.row \in Rows
      BY <3>1, <3>3 DEF LastTarget, Serves
    <3>5. ~(rows[op.target.id].rev < op.target.row.rev)
      <4>1. op.target.row.rev \in 1..MaxRev
        BY <3>4, RowsAre
      <4> QED
        BY <3>4, <4>1, ProvidersConstants
    <3>6. ~Aborts(op)'
      BY <1>1, <3>5 DEF Aborts
    <3>7. \E k \in DOMAIN journal' : ~Aborts(journal[k])'
      BY <1>1, <3>2, <3>3, <3>6
    <3> QED
      BY <1>3, <3>7 DEF WillAgree
  <2>2. CASE ~Writes
    <3>1. Agrees
      BY <1>1, <2>2 DEF ProvidersInv, WillAgree
    <3>2. Agrees'
      BY <1>1, <3>1 DEF Agrees
    <3> QED
      BY <3>2 DEF WillAgree
  <2> QED
    BY <2>1, <2>2
<1> QED
  BY <1>5, <1>6, <1>8, <1>9, <1>10, <1>11 DEF ProvidersInv

LEMMA RecoverStep == ASSUME ProvidersInv, Recover PROVE ProvidersInv'
<1>1. /\ job.pc = "down" /\ journal # <<>> /\ journal' = SubSeq(journal, 2, Len(journal))
      /\ UNCHANGED <<kind, rows, image, job, owed>>
  BY DEF Recover, Stays
<1>2. /\ ProviderTypes /\ journal \in Seq(JournalRows) /\ kind \in {"codex", "claude"}
      /\ file \in ProviderFiles /\ client.active # Nobody /\ job \in ProviderJobs
      /\ quota \in [handler : Nat, fault : Nat, crash : Nat, user : Nat]
  BY <1>1 DEF ProvidersInv, ProviderTypes, JournalRows, NothingYet
<1>3. PICK op, t : op = Head(journal) /\ t = op.target
  OBVIOUS
<1>4. /\ op = journal[1] /\ op \in JournalRows
      /\ journal' \in Seq(JournalRows) /\ Len(journal') = Len(journal) - 1
      /\ \A k \in DOMAIN journal' : k + 1 \in DOMAIN journal /\ journal'[k] = journal[k + 1]
      /\ \A k \in DOMAIN journal : k = 1 \/ (k - 1 \in DOMAIN journal' /\ journal'[k - 1] = journal[k])
  BY <1>1, <1>2, <1>3, JournalShrinks
<1>5. /\ t \in ProviderTargets /\ Serves(t)
      /\ \A k \in DOMAIN journal' : Serves(journal'[k].target)
  <2>1. \A k \in DOMAIN journal : Serves(journal[k].target)
    BY DEF ProvidersInv, BuiltInStays
  <2>2. 1 \in DOMAIN journal
    BY <1>1, <1>2
  <2> QED
    BY <1>3, <1>4, <2>1, <2>2 DEF JournalRows
<1>6. ~HoldsEntry /\ ~HoldsEntry' /\ ~Writes /\ ~Writes' /\ job'.pc = "down"
  BY <1>1 DEF HoldsEntry, Writes, WritePlaces
<1>7. /\ Len(journal) \in Nat /\ quota.fault \in Nat /\ quota.crash \in Nat
      /\ Len(journal) + quota.fault + quota.crash <= JobFaults + JobCrashes
  <2>1. Len(journal) \in Nat /\ quota.fault \in Nat /\ quota.crash \in Nat
    BY <1>2
  <2>2. Len(journal) + quota.fault + quota.crash <= JobFaults + JobCrashes + 0
    BY <1>6 DEF ProvidersInv, JournalIsShort
  <2> QED
    BY <2>1, <2>2, ProvidersConstants
<1>8. quota' = quota => Len(journal') + quota'.fault + quota'.crash <= JobFaults + JobCrashes
  BY <1>4, <1>7, ProvidersConstants
<1>9. CASE /\ Settles(op) = "complete"
           /\ file' = Patched(file, t)
           /\ client' = [active |-> t.id, mode |-> t.mode, status |-> "synchronized"]
           /\ assumed' = FALSE /\ Stays(quota)
  <2>1. Present(t.id) /\ rows[t.id] = t.row /\ t.id \in Ids /\ t.mode \in Modes
    BY <1>3, <1>5, <1>9 DEF Settles, Serves, ProviderTargets
  <2>2. /\ file' \in ProviderFiles
        /\ IF t.id = Official THEN file'.by = "user"
           ELSE /\ file'.by = "hsin" /\ file'.mode = t.mode
                /\ IF kind = "claude" /\ t.mode = "proxy"
                     THEN file'.id = Nobody
                     ELSE file'.id = t.id /\ file'.rev = t.row.rev /\ file'.image = t.image
    BY <1>2, <1>5, <1>9, PatchedIs
  <2>3. client' \in [active : Ids \cup {Nobody}, mode : Modes,
                     status : {"conflict", "unmanaged", "synchronized", "unavailable"}]
    BY <1>9, <2>1
  <2>4. ProviderTypes'
    BY <1>1, <1>2, <1>4, <1>9, <2>2, <2>3 DEF ProviderTypes, JournalRows, Stays
  <2>5. ReferencesResolve'
    BY <1>1, <1>5, <1>9, <2>1 DEF ProvidersInv, ReferencesResolve, Present, Serves
  <2>6. FileIsOurs' /\ ClaudeAssumes' /\ NothingYet'
    BY <1>1, <1>9, <2>1, <2>2, ProvidersConstants DEF FileIsOurs, ClaudeAssumes, NothingYet
  <2>7. BuiltInStays'
    BY <1>1, <1>5 DEF ProvidersInv, BuiltInStays, Serves
  <2>8. JournalIsShort'
    <3>1. Len(journal') + quota'.fault + quota'.crash <= JobFaults + JobCrashes + 0
      <4>1. quota' = quota /\ Len(journal') = Len(journal) - 1
        BY <1>4, <1>9 DEF Stays
      <4> QED
        BY <1>7, <4>1, ProvidersConstants
    <3> QED
      BY <1>6, <3>1 DEF JournalIsShort
  <2>9. JobKnows' /\ ImagesAgree'
    BY <1>6 DEF JobKnows, ImagesAgree
  <2>10. Agrees'
    BY <1>1, <1>9, <2>1, <2>2 DEF Agrees
  <2> QED
    BY <2>4, <2>5, <2>6, <2>7, <2>8, <2>9, <2>10 DEF ProvidersInv, WillAgree
<1>10. CASE Settles(op) = "aborted" /\ Stays(<<file, client, assumed, quota>>)
  <2>1. UNCHANGED <<file, client, assumed, quota>> /\ Aborts(op)
    BY <1>3, <1>10 DEF Stays, Settles, Aborts
  <2>2. ProviderTypes'
    BY <1>1, <1>2, <1>4, <2>1 DEF ProviderTypes, JournalRows
  <2>3. ReferencesResolve' /\ FileIsOurs' /\ ClaudeAssumes' /\ NothingYet'
    BY <1>1, <1>2, <2>1
       DEF ProvidersInv, ReferencesResolve, Present, FileIsOurs, ClaudeAssumes, NothingYet
  <2>4. BuiltInStays'
    BY <1>1, <1>5 DEF ProvidersInv, BuiltInStays, Serves
  <2>5. JournalIsShort'
    <3>1. Len(journal') + quota'.fault + quota'.crash <= JobFaults + JobCrashes + 0
      BY <1>4, <1>7, <2>1, ProvidersConstants
    <3> QED
      BY <1>6, <3>1 DEF JournalIsShort
  <2>6. JobKnows' /\ ImagesAgree'
    BY <1>6 DEF JobKnows, ImagesAgree
  <2>7. WillAgree'
    <3>1. CASE Agrees
      <4>1. Agrees'
        BY <1>1, <2>1, <3>1 DEF Agrees
      <4> QED
        BY <4>1 DEF WillAgree
    <3>2. CASE ~Agrees
      <4>1. PICK k \in DOMAIN journal : ~Aborts(journal[k])
        BY <1>6, <3>2 DEF ProvidersInv, WillAgree
      <4>2. k # 1
        BY <1>4, <2>1, <4>1
      <4>3. PICK j, o : j = k - 1 /\ o = journal[k]
        OBVIOUS
      <4>4. j \in DOMAIN journal' /\ journal'[j] = o
        BY <1>4, <4>2, <4>3
      <4>5. ~Aborts(o)'
        BY <1>1, <4>1, <4>3 DEF Aborts, Present
      <4>6. \E n \in DOMAIN journal' : ~Aborts(journal[n])'
        BY <4>4, <4>5
      <4> QED
        BY <1>6, <4>6 DEF WillAgree
    <3> QED
      BY <3>1, <3>2
  <2> QED
    BY <2>2, <2>3, <2>4, <2>5, <2>6, <2>7 DEF ProvidersInv
<1>11. ASSUME NEW status \in {"conflict", "unavailable"},
              client' = [client EXCEPT !.status = status], Stays(<<file, assumed>>),
              quota' = quota \/ JobFault
       PROVE  ProvidersInv'
  <2>1. /\ quota' \in [handler : Nat, fault : Nat, crash : Nat, user : Nat]
        /\ quota'.fault <= quota.fault /\ quota'.crash = quota.crash
    BY <1>2, <1>11 DEF JobFault
  <2>2. Len(journal') + quota'.fault + quota'.crash <= JobFaults + JobCrashes
    <3>1. Len(journal') = Len(journal) - 1 /\ quota'.fault \in Nat
      BY <1>4, <2>1
    <3> QED
      BY SMTT(20), <1>7, <2>1, <3>1, ProvidersConstants
  <2>3. job' \in ProviderJobs /\ owed' \in BOOLEAN
    BY <1>1, <1>2 DEF ProviderTypes
  <2> QED
    BY <1>1, <1>2, <1>4, <1>5, <1>6, <1>11, <2>1, <2>2, <2>3, MarkedStep DEF Stays
<1>12. CASE /\ Settles(op) \in {"conflict", "unavailable"}
            /\ client' = [client EXCEPT !.status = Settles(op)] /\ Stays(<<file, assumed, quota>>)
  <2>1. PICK status \in {"conflict", "unavailable"} : client' = [client EXCEPT !.status = status]
    BY <1>12
  <2> QED
    BY <1>11, <1>12, <2>1 DEF Stays
<1>13. CASE JobFault /\ client' = [client EXCEPT !.status = "conflict"] /\ Stays(<<file, assumed>>)
  BY <1>11, <1>13
<1> QED
  BY <1>3, <1>9, <1>10, <1>12, <1>13 DEF Recover

LEMMA InitializeStep == ASSUME ProvidersInv, Initialize PROVE ProvidersInv'
<1>1. /\ job.pc = "down" /\ journal = <<>> /\ job' = [job EXCEPT !.pc = "sync_auth"]
      /\ UNCHANGED <<kind, image, file, journal, owed, assumed, quota>>
  BY DEF Initialize, Goto, Stays
<1>2. ProviderTypes /\ Agrees
  BY <1>1 DEF ProvidersInv, WillAgree, Writes, WritePlaces
<1>3. job' \in ProviderJobs /\ job'.pc = "sync_auth"
  BY <1>1, <1>2 DEF ProviderTypes, ProviderJobs, JobPlaces
<1>4. ~HoldsEntry /\ ~HoldsEntry' /\ ~Writes'
  BY <1>1, <1>3 DEF HoldsEntry, Writes, WritePlaces
<1>5. QuotaFalls
  BY <1>1, <1>2 DEF QuotaFalls, ProviderTypes
<1>6. JobKnows' /\ ImagesAgree'
  BY <1>3, <1>4 DEF JobKnows, ImagesAgree
<1>7. CASE client.active # Nobody
  <2>1. UNCHANGED <<rows, client>>
    BY <1>7 DEF Initialize, Stays
  <2>2. rows'[Official] \in {Gone, OfficialRow}
    BY <2>1 DEF ProvidersInv, BuiltInStays
  <2>3. /\ ProviderTypes' /\ BuiltInStays' /\ NothingYet' /\ FileIsOurs' /\ ClaudeAssumes'
        /\ JournalIsShort'
    BY <1>1, <1>2, <1>3, <1>4, <1>5, <1>7, <2>1, <2>2, RestStays DEF ProviderTypes
  <2>4. ReferencesResolve'
    BY <1>1, <2>1 DEF ProvidersInv, ReferencesResolve, Present
  <2>5. Agrees'
    BY <1>1, <1>2, <2>1 DEF Agrees
  <2> QED
    BY <1>6, <2>3, <2>4, <2>5 DEF ProvidersInv, WillAgree
<1>8. CASE client.active = Nobody
  <2>1. PICK i \in Ids, mode \in Modes, status \in {"conflict", "unmanaged", "synchronized"} :
          /\ client' = [active |-> i, mode |-> mode, status |-> status]
          /\ rows'[i] = OfficialRow /\ rows'[Official] = OfficialRow
          /\ rows' \in [Ids -> Rows \cup {Gone}]
    <3>1. rows \in [Ids -> Rows \cup {Gone}] /\ "direct" \in Modes
      BY <1>2 DEF ProviderTypes, Modes
    <3>2. CASE /\ rows' = [rows EXCEPT ![Official] = OfficialRow]
               /\ \E status \in {"conflict", "unmanaged", "synchronized"} :
                    client' = [active |-> Official, mode |-> "direct", status |-> status]
      BY <3>1, <3>2, RowsAre, ProvidersConstants
    <3>3. CASE \E i \in Ids \ {Official} :
                 /\ rows' = [rows EXCEPT ![Official] = OfficialRow, ![i] = OfficialRow]
                 /\ client' = [active |-> i, mode |-> "direct", status |-> "synchronized"]
      BY <3>1, <3>3, RowsAre, ProvidersConstants
    <3> QED
      BY <1>8, <3>2, <3>3 DEF Initialize
  <2>2. /\ client' \in [active : Ids \cup {Nobody}, mode : Modes,
                        status : {"conflict", "unmanaged", "synchronized", "unavailable"}]
        /\ client'.active = i /\ i # Nobody
    BY <2>1, ProvidersConstants
  <2>3. image' \in Ids \cup {Nobody} /\ owed' \in BOOLEAN
    BY <1>1, <1>2 DEF ProviderTypes
  <2>4. /\ ProviderTypes' /\ BuiltInStays' /\ NothingYet' /\ FileIsOurs' /\ ClaudeAssumes'
        /\ JournalIsShort'
    BY <1>1, <1>3, <1>4, <1>5, <2>1, <2>2, <2>3, RestStays
  <2>5. file.by = "user" /\ image = Nobody
    BY <1>8 DEF ProvidersInv, NothingYet
  <2>6. ReferencesResolve'
    <3>1. OfficialRow # Gone
      BY RowsAre, ProvidersConstants
    <3> QED
      BY <1>1, <2>1, <2>2, <2>5, <3>1, RowsAre DEF ReferencesResolve, Present
  <2>7. Agrees'
    BY <1>1, <2>5 DEF Agrees
  <2> QED
    BY <1>6, <2>4, <2>6, <2>7 DEF ProvidersInv, WillAgree
<1> QED
  BY <1>7, <1>8

LEMMA ReconcileStep ==
  ASSUME ProvidersInv, NEW pc \in {"sync_auth", "sync_proxy"},
         NEW then \in {"sync_proxy", "idle"}, NEW needed \in BOOLEAN,
         Reconcile(pc, then, needed),
         pc = "sync_auth" /\ ~needed => kind # "codex" \/ client.active = Official
  PROVE  ProvidersInv'
<1>1. job.pc = pc /\ UNCHANGED <<kind, rows, image, file, owed, assumed>>
  BY DEF Reconcile, Stays
<1>2. /\ ProviderTypes /\ Agrees /\ client.active \in Ids /\ client.active # Nobody
      /\ quota \in [handler : Nat, fault : Nat, crash : Nat, user : Nat]
      /\ rows[client.active] \in Rows /\ rows[client.active].primary /\ client.mode \in Modes
  BY <1>1
     DEF ProvidersInv, ProviderTypes, NothingYet, ReferencesResolve, Present, WillAgree, Writes,
         WritePlaces
<1>3. ASSUME NEW place \in {"idle", "sync_proxy", "stuck"}, Goto(place),
             UNCHANGED <<journal, client, quota>>,
             place # "stuck" => ShowsImages(Available)
      PROVE  ProvidersInv'
  <2>1. job' \in ProviderJobs /\ job'.pc = place
    BY <1>2, <1>3 DEF Goto, ProviderTypes, ProviderJobs, JobPlaces
  <2>2. ~HoldsEntry /\ ~HoldsEntry' /\ ~Writes'
    BY <1>1, <2>1 DEF HoldsEntry, Writes, WritePlaces
  <2>3. QuotaFalls /\ rows[Official] \in {Gone, OfficialRow}
    BY <1>2, <1>3 DEF QuotaFalls, ProvidersInv, BuiltInStays
  <2>4. /\ ProviderTypes' /\ BuiltInStays' /\ NothingYet' /\ FileIsOurs' /\ ClaudeAssumes'
        /\ JournalIsShort'
    BY <1>1, <1>2, <1>3, <2>1, <2>2, <2>3, RestStays DEF ProviderTypes
  <2>5. ReferencesResolve'
    BY <1>1, <1>3 DEF ProvidersInv, ReferencesResolve, Present
  <2>6. JobKnows'
    BY <2>1, <2>2 DEF JobKnows
  <2>7. Agrees'
    BY <1>1, <1>2, <1>3 DEF Agrees
  <2>8. ImagesAgree'
    <3>1. Available' = Available
      BY <1>1 DEF Available
    <3> QED
      BY <1>1, <1>3, <2>1, <3>1 DEF ImagesAgree, ShowsImages
  <2> QED
    BY <2>4, <2>5, <2>6, <2>7, <2>8 DEF ProvidersInv, WillAgree
<1>4. CASE ~needed /\ Goto(then) /\ Stays(<<journal, client, quota>>)
  <2>1. CASE pc = "sync_proxy"
    <3>1. ShowsImages(Available)
      BY <1>1, <2>1 DEF ProvidersInv, ImagesAgree
    <3> QED
      BY <1>3, <1>4, <3>1 DEF Stays
  <2>2. CASE pc = "sync_auth"
    <3>1. kind # "codex" \/ client.active = Official
      BY <1>4, <2>2
    <3>2. ShowsImages(Available)
      BY <1>2, <3>1, ProvidersConstants
         DEF ShowsImages, Agrees, ProvidersInv, FileIsOurs, ClaudeAssumes
    <3> QED
      BY <1>3, <1>4, <3>2 DEF Stays
  <2> QED
    BY <2>1, <2>2
<1>5. CASE Goto("stuck") /\ Stays(<<journal, client, quota>>)
  BY <1>3, <1>5 DEF Stays
<1>6. ASSUME NEW t, t = Target(client.active, rows[client.active], client.mode),
             journal' = Journaled(t), Stays(<<client, quota>>),
             job' = WriteJob(t, IF then = "idle" THEN "serve" ELSE then)
      PROVE  ProvidersInv'
  <2>1. /\ t \in ProviderTargets /\ t # NoTarget /\ t.id = client.active
        /\ t.row = rows[client.active]
        /\ t.image = (kind = "codex" /\ t.mode = "proxy" /\ Available)
    BY <1>2, <1>6, TargetIs
  <2>2. QuotaFalls
    BY <1>2, <1>6 DEF QuotaFalls, Stays
  <2>3. PICK next \in {"idle", "image_written", "sync_proxy", "serve"} : job' = WriteJob(t, next)
    BY <1>6
  <2> QED
    BY <1>1, <1>2, <1>6, <2>1, <2>2, <2>3, WriteBegins DEF Serves, Stays
<1>7. CASE /\ JobFault /\ client' = [client EXCEPT !.status = "unavailable"]
           /\ Goto(then) /\ Stays(journal)
  <2>1. job' \in ProviderJobs /\ job'.pc = then
    BY <1>2, <1>7 DEF Goto, ProviderTypes, ProviderJobs, JobPlaces
  <2>2. /\ quota' \in [handler : Nat, fault : Nat, crash : Nat, user : Nat]
        /\ quota'.fault <= quota.fault /\ quota'.crash = quota.crash
    BY <1>2, <1>7 DEF JobFault
  <2>3. Len(journal') + quota'.fault + quota'.crash <= JobFaults + JobCrashes
    <3>1. ~HoldsEntry
      BY <1>1 DEF HoldsEntry, Writes, WritePlaces
    <3>2. /\ Len(journal) \in Nat /\ quota.fault \in Nat /\ quota.crash \in Nat
          /\ quota'.fault \in Nat /\ journal' = journal
      BY <1>2, <1>7, <2>2 DEF ProviderTypes, Stays
    <3>3. Len(journal) + quota.fault + quota.crash <= JobFaults + JobCrashes + 0
      BY <3>1 DEF ProvidersInv, JournalIsShort
    <3> QED
      BY <2>2, <3>2, <3>3, ProvidersConstants
  <2>4. /\ journal' \in Seq(JournalRows) /\ owed' \in BOOLEAN
        /\ \A k \in DOMAIN journal' : Serves(journal'[k].target)
    BY <1>1, <1>2, <1>7 DEF ProvidersInv, ProviderTypes, JournalRows, BuiltInStays, Stays
  <2> QED
    BY <1>1, <1>2, <1>7, <2>1, <2>2, <2>3, <2>4, MarkedStep
<1> QED
  BY <1>4, <1>5, <1>6, <1>7 DEF Reconcile

LEMMA UserEditStep == ASSUME ProvidersInv, UserEdit PROVE ProvidersInv'
<1>1. /\ quota.user > 0 /\ quota' = [quota EXCEPT !.user = @ - 1]
      /\ file' = Native(file.edits + 1)
      /\ UNCHANGED <<kind, rows, client, image, journal, job, owed, assumed>>
  BY DEF UserEdit, Stays
<1>2. /\ ProviderTypes /\ file.edits + 1 \in Nat
      /\ quota \in [handler : Nat, fault : Nat, crash : Nat, user : Nat]
  BY DEF ProvidersInv, ProviderTypes, ProviderFiles
<1>3. file' \in ProviderFiles /\ file'.by = "user"
  BY <1>1, <1>2 DEF Native, ProviderFiles, Modes
<1>4. /\ quota' \in [handler : Nat, fault : Nat, crash : Nat, user : Nat]
      /\ quota'.fault = quota.fault /\ quota'.crash = quota.crash
  BY <1>1, <1>2
<1>5. ProviderTypes'
  BY <1>1, <1>2, <1>3, <1>4 DEF ProviderTypes
<1>6. ReferencesResolve' /\ FileIsOurs' /\ ClaudeAssumes' /\ NothingYet' /\ BuiltInStays'
  BY <1>1, <1>3
     DEF ProvidersInv, ReferencesResolve, Present, FileIsOurs, ClaudeAssumes, NothingYet, BuiltInStays
<1>7. (HoldsEntry' <=> HoldsEntry) /\ (Writes' <=> Writes) /\ (HasTarget' <=> HasTarget)
  BY <1>1 DEF HoldsEntry, Writes, HasTarget
<1>8. JournalIsShort'
  BY <1>1, <1>4, <1>7 DEF ProvidersInv, JournalIsShort
<1>9. JobKnows'
  BY <1>1, <1>3, <1>7 DEF ProvidersInv, JobKnows, Present, Available, Offers, LastTarget
<1>10. WillAgree' /\ ImagesAgree'
  BY <1>3 DEF WillAgree, Agrees, ImagesAgree, ShowsImages
<1> QED
  BY <1>5, <1>6, <1>8, <1>9, <1>10 DEF ProvidersInv

LEMMA ProvidersStep == ASSUME ProvidersInv, [ProvidersNext]_providerVars PROVE ProvidersInv'
<1>1. CASE UNCHANGED providerVars
  <2>1. UNCHANGED <<kind, rows, client, image, file, journal, job, owed, assumed, quota>>
    BY <1>1 DEF providerVars
  <2> QED
    BY <2>1
       DEF ProvidersInv, ProviderTypes, ReferencesResolve, Present, BuiltInStays, NothingYet,
           JournalIsShort, HoldsEntry, Writes, HasTarget, JobKnows, LastTarget, Offers, Available,
           Patched, FileIsOurs, ClaudeAssumes, WillAgree, Agrees, Aborts, ImagesAgree, ShowsImages
<1>2. ASSUME NEW i \in Ids,
             Add(i) \/ EditProvider(i) \/ Remove(i) \/ SwitchImage(i) \/ Switch(i) \/ Import(i)
      PROVE  ProvidersInv'
  BY <1>2, AddStep, EditStep, RemoveStep, SwitchImageStep, SwitchStep, ImportStep
<1>3. ASSUME NEW mode \in {"direct", "proxy"}, ChangeMode(mode) PROVE ProvidersInv'
  BY <1>3, ChangeModeStep DEF Modes
<1>4. CASE JobSteps
  BY <1>4, CommitStep, WriteFileStep, WriteClientAuthStep, ActivateStep, StoreModeStep, FinishStep,
     ReconcileImageStep DEF JobSteps
<1>5. CASE ReconcileAuth
  <2>1. PICK needed \in BOOLEAN : needed <=> (kind = "codex" /\ client.active # Official)
    OBVIOUS
  <2>2. Reconcile("sync_auth", "sync_proxy", needed)
    BY <1>5, <2>1 DEF ReconcileAuth, Reconcile
  <2> QED
    BY <2>1, <2>2, ReconcileStep
<1>6. CASE ReconcileProxy
  <2>1. PICK needed \in BOOLEAN : needed <=> (client.mode = "proxy")
    OBVIOUS
  <2>2. Reconcile("sync_proxy", "idle", needed)
    BY <1>6, <2>1 DEF ReconcileProxy, Reconcile
  <2> QED
    BY <2>2, ReconcileStep
<1>7. CASE Crash \/ Recover \/ Initialize \/ UserEdit
  BY <1>7, CrashStep, RecoverStep, InitializeStep, UserEditStep
<1> QED
  BY <1>1, <1>2, <1>3, <1>4, <1>5, <1>6, <1>7 DEF ProvidersNext

LEMMA ProvidersSafe ==
  ProvidersInv =>
    ProvidersTypeOK /\ ReferencesResolve /\ SynchronizedResolves /\ ImageAdvertised /\ ModeAgrees
<1> SUFFICES ASSUME ProvidersInv
             PROVE  /\ ProvidersTypeOK /\ ReferencesResolve /\ SynchronizedResolves
                    /\ ImageAdvertised /\ ModeAgrees
  OBVIOUS
<1>1. ProviderTypes /\ ReferencesResolve
  BY DEF ProvidersInv
<1>2. ProvidersTypeOK
  <2>1. Len(journal) <= JobFaults + JobCrashes + 1
    <3> DEFINE one == IF HoldsEntry THEN 1 ELSE 0
    <3>1. /\ Len(journal) \in Nat /\ quota.fault \in Nat /\ quota.crash \in Nat
          /\ one \in Nat /\ one <= 1
      BY <1>1 DEF ProviderTypes
    <3>2. Len(journal) + quota.fault + quota.crash <= JobFaults + JobCrashes + one
      BY DEF ProvidersInv, JournalIsShort
    <3> HIDE DEF one
    <3> QED
      BY <3>1, <3>2, ProvidersConstants
  <2> QED
    BY <1>1, <2>1 DEF ProvidersTypeOK, ProviderTypes
<1>3. Settled => Agrees
  BY DEF Settled, ProvidersInv, WillAgree, Writes, WritePlaces
<1>4. ModeAgrees
  BY <1>3 DEF ModeAgrees, Reported, Agrees
<1>5. SynchronizedResolves
  BY <1>1, <1>3 DEF SynchronizedResolves, Reported, Resolves, Agrees, ReferencesResolve
<1>6. ImageAdvertised
  BY DEF ImageAdvertised, Reported, Settled, ProvidersInv, ImagesAgree, ShowsImages
<1> QED
  BY <1>1, <1>2, <1>4, <1>5, <1>6

LEMMA RevisionGrows ==
  ASSUME ProvidersInv, [ProvidersNext]_providerVars, NEW i \in Ids, Present(i), rows'[i] # Gone
  PROVE  rows'[i].rev >= rows[i].rev
<1>1. rows \in [Ids -> Rows \cup {Gone}] /\ rows[i] \in Rows /\ rows[i].rev \in Nat
  <2>1. rows \in [Ids -> Rows \cup {Gone}]
    BY DEF ProvidersInv, ProviderTypes
  <2>2. rows[i] \in Rows
    BY <2>1 DEF Present
  <2> QED
    BY <2>1, <2>2, RowsAre, ProvidersConstants
<1>2. CASE rows' = rows
  BY <1>1, <1>2
<1>3. ASSUME NEW j \in Ids, NEW row, ~Present(j), rows' = [rows EXCEPT ![j] = row]
      PROVE  rows'[i].rev >= rows[i].rev
  BY <1>1, <1>3 DEF Present
<1>4. ASSUME NEW j \in Ids,
             Add(j) \/ EditProvider(j) \/ Remove(j) \/ SwitchImage(j) \/ Switch(j) \/ Import(j)
      PROVE  rows'[i].rev >= rows[i].rev
  <2>1. CASE Add(j)
    BY <1>3, <2>1 DEF Add, InsertRow
  <2>2. CASE Remove(j)
    BY <1>1, <2>2 DEF Remove, RemoveRow
  <2>3. CASE Import(j)
    <3>1. CASE rows' = rows
      BY <1>2, <3>1
    <3>2. CASE ~Present(j) /\ rows' = [rows EXCEPT ![j] = [OfficialRow EXCEPT !.direct = TRUE]]
      BY <1>3, <3>2
    <3> QED
      BY <2>3, <3>1, <3>2 DEF Import, Stays
  <2>4. CASE EditProvider(j) \/ SwitchImage(j) \/ Switch(j)
    BY <1>2, <2>4 DEF EditProvider, SwitchImage, Switch, Stays
  <2> QED
    BY <1>4, <2>1, <2>2, <2>3, <2>4
<1>5. CASE Commit
  <2>1. /\ job.id \in Ids /\ job.row.rev = rows[job.id].rev + 1
        /\ rows' = [rows EXCEPT ![job.id] = job.row]
    BY <1>5 DEF Commit, UpdateRow, ProvidersInv, JobKnows
  <2>2. CASE i = job.id
    BY <1>1, <2>1, <2>2
  <2>3. CASE i # job.id
    BY <1>1, <2>1, <2>3
  <2> QED
    BY <2>2, <2>3
<1>6. CASE Initialize
  <2>1. client.active # Nobody
    BY <1>6 DEF ProvidersInv, NothingYet, Present
  <2> QED
    BY <1>2, <1>6, <2>1 DEF Initialize, Stays
<1>7. ASSUME NEW mode \in {"direct", "proxy"}, ChangeMode(mode) PROVE rows'[i].rev >= rows[i].rev
  BY <1>2, <1>7 DEF ChangeMode, Stays
<1>8. CASE /\ WriteFile \/ WriteClientAuth \/ Activate \/ StoreMode \/ FinishJob \/ ReconcileImage
                \/ Crash \/ Recover \/ ReconcileAuth \/ ReconcileProxy \/ UserEdit
                \/ UNCHANGED providerVars
  BY <1>2, <1>8
     DEF WriteFile, WriteClientAuth, Activate, StoreMode, FinishJob, ReconcileImage, Crash, Recover,
         ReconcileAuth, ReconcileProxy, Reconcile, UserEdit, providerVars, Stays
<1> QED
  BY <1>4, <1>5, <1>6, <1>7, <1>8 DEF ProvidersNext, JobSteps

-----------------------------------------------------------------------------
(* The theorems *)

\* A call returns its own answer whatever timed out before it, a daemon of another
\* version runs nothing for this client but a release, client and server agree on
\* what the handshake permits; and a proxied request leaves with one revision of one
\* provider and returns its permit (IpcClient, serve_connection, proxy::forward).
THEOREM AnswersStayOwn == DaemonSpec => []AnswersAreOwn
<1>1. InitOf(Parts) => RequestInv /\ IpcInv
  BY RequestInit0, IpcInit0 DEF InitOf
<1>2. RequestInv /\ IpcInv /\ [Next]_vars => RequestInv' /\ IpcInv'
  <2> SUFFICES ASSUME RequestInv, IpcInv, [Next]_vars PROVE RequestInv' /\ IpcInv'
    OBVIOUS
  <2>1. [RequestNext]_requestVars /\ [IpcNext]_ipcVars
    BY DEF Next, LoginRuns, ProxyRuns, IpcRuns, RequestRuns, ProvidersRun, vars
  <2> QED
    BY <2>1, RequestNextStep, IpcNextStep
<1>3. RequestInv /\ IpcInv => AnswersAreOwn
  BY RequestSafe, IpcSafe DEF AnswersAreOwn
<1> QED
  BY <1>1, <1>2, <1>3, PTL DEF DaemonSpec

\* The stored settings, the configuration the listener is told, and the endpoints of
\* the proxied clients agree whenever no handler runs, however the handlers before it
\* ended, and the proxy is not switched off under a client except by a failed start
\* (set_mode, update_settings, set_proxy_enabled_locked, proxy::serve).
THEOREM ProxyStaysCoherent == DaemonSpec => []ProxyIsCoherent
<1>1. InitOf(Parts) => ProxyInv
  BY ProxyInit0 DEF InitOf
<1>2. ProxyInv /\ [Next]_vars => ProxyInv'
  <2> SUFFICES ASSUME ProxyInv, [Next]_vars PROVE ProxyInv'
    OBVIOUS
  <2>1. [ProxyNext]_proxyVars
    BY DEF Next, LoginRuns, ProxyRuns, IpcRuns, RequestRuns, ProvidersRun, vars
  <2> QED
    BY <2>1, ProxyNextStep
<1> QED
  BY <1>1, <1>2, ProxySafe, PTL DEF DaemonSpec

\* A client reported synchronized has a configuration its daemon stands for: whatever
\* is added, edited, removed, switched or imported, and wherever a handler crashes or
\* fails, the provider, revision, mode and image provider in the file are those of the
\* database once nothing is left to recover, the active and the image provider exist,
\* the journal stays short, and a revision is given once (app.rs's provider handlers,
\* apply_target, recover_operation and the reconciliations of a start).
THEOREM ProvidersStayCoherent == DaemonSpec => ProvidersAreCoherent
<1>1. InitOf(Parts) => ProvidersInv
  BY ProvidersBegin DEF InitOf
<1>2. [Next]_vars => [ProvidersNext]_providerVars
  BY DEF Next, LoginRuns, ProxyRuns, IpcRuns, RequestRuns, ProvidersRun, vars
<1>3. ProvidersInv /\ [Next]_vars => ProvidersInv'
  BY <1>2, ProvidersStep
<1>4. ProvidersInv /\ [Next]_vars
        => [\A i \in Ids : Present(i) /\ rows'[i] # Gone => rows'[i].rev >= rows[i].rev]_rows
  BY <1>2, RevisionGrows
<1> QED
  BY <1>1, <1>3, <1>4, ProvidersSafe, PTL DEF DaemonSpec, ProvidersAreCoherent, RevisionsGrow

=============================================================================
