----------------------------- MODULE IpcSession -----------------------------
(***************************************************************************)
(* One connection between an IpcClient and the IPC server of a daemon: the *)
(* hello that must come first, the connection that permits only            *)
(* config.release, and calls whose time runs out while their answer is     *)
(* still on its way.  The daemon may be of another version: 33 is the last *)
(* that knew no handoff, Current is this one.                              *)
(***************************************************************************)
EXTENDS Naturals, Sequences

CONSTANTS OwnerCodes, \* version codes of the daemons that may answer
          MaxCalls    \* bound: requests on one connection

Legacy == 33
Introduced == 34
Current == 36
ASSUME IpcSessionAssumption == OwnerCodes \subseteq Nat

VARIABLES peer,    \* the client: next id, handshake, restriction, call in flight
          link, \* the server's side of the connection
          wire,    \* requests and answers on their way
          seen     \* what was dispatched, and which answers were returned
ipcVars == <<peer, link, wire, seen>>

NoCall == [id |-> 0, kind |-> "none"]
Connected(code) ==
  /\ peer = [next |-> 1, ready |-> FALSE, releaseOnly |-> FALSE, torn |-> FALSE,
             call |-> NoCall, retried |-> FALSE]
  /\ link = [code |-> code, open |-> TRUE, hello |-> FALSE, releaseOnly |-> FALSE]
  /\ wire = [up |-> <<>>, down |-> <<>>]
  /\ seen = [dispatched |-> {}, returned |-> {}]

IpcInit == \E code \in OwnerCodes : Connected(code)

---------------------------------------------------------------------------
(* IpcClient                                                               *)

Request(id, kind, code, handoff) ==
  [id |-> id, kind |-> kind, code |-> code, handoff |-> handoff]

\* call_inner: a fresh id, one frame up.
SendFrame(p, kind, code, handoff) ==
  /\ p.call = NoCall /\ p.next <= MaxCalls /\ link.open
  /\ peer' = [p EXCEPT !.call = [id |-> p.next, kind |-> kind], !.next = @ + 1]
  /\ wire' = [wire EXCEPT !.up = Append(@, Request(p.next, kind, code, handoff))]
  /\ UNCHANGED <<link, seen>>

Hello == SendFrame(peer, "hello", Current, FALSE)

HelloForRelease ==
  SendFrame([peer EXCEPT !.ready = FALSE, !.releaseOnly = TRUE, !.retried = FALSE],
       "release_hello", Current, TRUE)

Call(kind) ==
  /\ peer.ready
  /\ peer.releaseOnly => kind = "release"
  /\ SendFrame(peer, kind, Current, FALSE)

Arrived == wire.down # <<>> /\ peer.call # NoCall
Answer == Head(wire.down)
Fail(p) == peer' = [p EXCEPT !.call = NoCall]

\* The answers this client takes for a completed handshake.
AcceptsHello == Answer.ok /\ Answer.code = Current
AcceptsRelease ==
  /\ Answer.ok /\ Answer.identified
  /\ IF peer.retried THEN Answer.code = Legacy
     ELSE Answer.code = Current \/ (Answer.handoff /\ Answer.code >= Introduced)
RetriesLegacy ==
  ~Answer.ok /\ ~peer.retried /\ Answer.refusedBy = Legacy

\* One answer is read; only the one to the request in flight counts.
Receive ==
  /\ Arrived
  /\ LET mine == Answer.id = peer.call.id /\ ~peer.torn
         kind == peer.call.kind
     IN /\ IF ~mine THEN Fail(peer) /\ wire' = [wire EXCEPT !.down = Tail(@)]
           ELSE IF kind = "release_hello" /\ RetriesLegacy /\ peer.next <= MaxCalls
           THEN /\ peer' = [peer EXCEPT !.retried = TRUE, !.next = @ + 1,
                              !.call.id = peer.next]
                /\ wire' = [up |-> Append(wire.up,
                              Request(peer.next, "release_hello", Legacy, TRUE)),
                            down |-> Tail(wire.down)]
           ELSE /\ wire' = [wire EXCEPT !.down = Tail(@)]
                /\ CASE kind = "hello" ->
                          Fail(IF AcceptsHello
                               THEN [peer EXCEPT !.ready = TRUE, !.releaseOnly = FALSE]
                               ELSE peer)
                     [] kind = "release_hello" ->
                          Fail([peer EXCEPT !.ready = AcceptsRelease])
                     [] OTHER -> Fail(peer)
        /\ seen' = IF mine /\ Answer.ok
                   THEN [seen EXCEPT !.returned = @ \cup {<<peer.call.id, Answer.to>>}]
                   ELSE seen
  /\ UNCHANGED link

\* call_timeout: the exchange is dropped, possibly in the middle of a frame.
TimeOut ==
  /\ peer.call # NoCall
  /\ \E torn \in {peer.torn, TRUE} :
       /\ torn # peer.torn => wire.down # <<>>
       /\ peer' = [peer EXCEPT !.call = NoCall, !.torn = torn]
  /\ UNCHANGED <<link, wire, seen>>

---------------------------------------------------------------------------
(* serve_connection                                                        *)

IsHello(r) == r.kind \in {"hello", "release_hello"}

\* negotiate_hello; a daemon of version 33 knew only its own code.
Negotiates(r) ==
  r.code = link.code \/ (r.handoff /\ link.code >= Introduced)

Response(r, ok) ==
  [id |-> r.id, to |-> r.id, ok |-> ok, code |-> link.code,
   handoff |-> link.code >= Introduced, identified |-> TRUE,
   refusedBy |-> IF ok \/ ~IsHello(r) THEN 0 ELSE link.code]

ServeRequest ==
  /\ link.open /\ wire.up # <<>>
  /\ LET r == Head(wire.up)
         dispatches == /\ link.hello /\ ~IsHello(r)
                       /\ link.releaseOnly => r.kind = "release"
         ok == IF IsHello(r) THEN Negotiates(r) ELSE dispatches
     IN /\ link' = IF IsHello(r) /\ ok
                      THEN [link EXCEPT !.hello = TRUE,
                              !.releaseOnly = r.handoff /\ link.code >= Introduced]
                      ELSE link
        /\ wire' = [up |-> Tail(wire.up), down |-> Append(wire.down, Response(r, ok))]
        /\ seen' = IF dispatches THEN [seen EXCEPT !.dispatched = @ \cup {r.kind}]
                   ELSE seen
  /\ UNCHANGED peer

\* The hello's 10 s run out, an answer cannot be written within 10 s, or the
\* peer hangs up: the connection ends.
Close ==
  /\ link.open /\ link' = [link EXCEPT !.open = FALSE]
  /\ UNCHANGED <<peer, wire, seen>>

Reconnect == ~link.open /\ \E code \in OwnerCodes :
  /\ peer' = [next |-> 1, ready |-> FALSE, releaseOnly |-> FALSE, torn |-> FALSE,
              call |-> NoCall, retried |-> FALSE]
  /\ link' = [code |-> code, open |-> TRUE, hello |-> FALSE, releaseOnly |-> FALSE]
  /\ wire' = [up |-> <<>>, down |-> <<>>]
  /\ seen' = [dispatched |-> {}, returned |-> {}]

IpcNext ==
  \/ Hello \/ HelloForRelease \/ \E kind \in {"release", "other"} : Call(kind)
  \/ Receive \/ TimeOut \/ ServeRequest \/ Close \/ Reconnect

---------------------------------------------------------------------------
(* Properties                                                              *)

\* A call returns the answer to itself, whatever timed out before it.
OwnAnswer == \A pair \in seen.returned : pair[1] = pair[2]

\* A daemon of another version runs nothing for this client but a release.
MismatchOnlyReleases ==
  "other" \in seen.dispatched => link.code = Current

\* A client that takes its connection for an ordinary one talks to a link
\* that has greeted it and permits every method.
HandshakeAgrees ==
  peer.ready /\ link.open =>
    /\ link.hello
    /\ ~peer.releaseOnly => ~link.releaseOnly /\ link.code = Current
=============================================================================
